------------------------- MODULE TaskQueuesEntries --------------------------
(***************************************************************************)
(* What the entries of the queues say of the tasks, and the tasks of the   *)
(* entries: TaskQueues!EntryMeansQueued and MCHanded!NeverStranded.        *)
(*                                                                         *)
(* Neither holds of clients that do as they please: the statuses are       *)
(* compared and set, the queues are not, so two requests about one task    *)
(* can leave its status and its entries apart.  Both hold when each task   *)
(* is the business of one client at a time, however many clients, agents   *)
(* and tasks there are; agents pop at any moment.                          *)
(*                                                                         *)
(* A task in the status queued, with the status to come back to still      *)
(* recorded, is in a queue, with an agent, or in the hands of a handler    *)
(* that has taken its entry and will restore it.  That handler has nothing *)
(* before the restoring call that could end it; where it has (an unforced  *)
(* reset, metrics that fail, a deleted queue) the task is left queued and  *)
(* nowhere.                                                                *)
(***************************************************************************)
EXTENDS TaskQueuesSafety, MCHanded

\* Some handler other than an agent's is at work on the task.
AtWork(p, t) == call[p].op # "next" /\ (call[p].task = t \/ t \in call[p].work)

Nowhere(t) == \A q \in Queues : ~Holds(q, t)

\* Every client waits for the answer about a task before anybody asks about it again,
\* and statuses are reported, or tasks published, only of tasks that left the queues.
Disciplined ==
  /\ \A t \in Tasks, p, r \in Procs : AtWork(p, t) /\ AtWork(r, t) => p = r
  /\ \A t \in Tasks, p \in Procs :
       AtWork(p, t) /\ call[p].op \in {"change", "publish"} => Nowhere(t)

\* Left out: what pushes without setting the queue of the task, what may leave the queue
\* of the task behind, and what changes tasks before it takes their entries.
EntryOps == OpNames \ {"enqueue_keep", "add", "move", "clear", "drop_forced"}

TasksServiceOnly == (\A p \in Procs : Ops[p] \subseteq EntryOps) /\ ~MetricsMayFail

Removers == EntryOps \ {"enqueue", "unarchive", "reposition", "drop", "next"}

-----------------------------------------------------------------------------
(* The inductive invariant.                                                *)

Faithful(t) ==
  \A q \in Queues : Holds(q, t) => tasks[t].status = queued /\ tasks[t].queue = q

\* enqueue: only a task read as queued has an entry beside the one pushed now.
EnqueuePhase(c, t) ==
  /\ tasks[t].doc = "present"
  /\ Head(c.rest) = "to_queued" => Faithful(t)
  /\ Head(c.rest) \in {"check", "push", "revert"} =>
       Faithful(t) /\ tasks[t].status = queued /\ (c.expect = queued \/ Nowhere(t))
  /\ Head(c.rest) \in {"metrics", "set_queue"} =>
       /\ tasks[t].status = queued
       /\ \A q \in Queues : Holds(q, t) => q = c.to \/ (c.expect = queued /\ q = tasks[t].queue)
  /\ Head(c.rest) = "pull_others" =>
       /\ tasks[t].status = queued /\ tasks[t].queue = c.to
       /\ \A q \in Queues : Holds(q, t) => q = c.to \/ q \in c.todo

\* What takes a task out of its queue: the entry read is the one that is there, and once
\* it is gone none comes back while the handler goes on to the status.
RemovePhase(c, t) ==
  /\ Head(c.rest) \in {"find", "pull"} =>
       Faithful(t) /\ c.from \in Queues /\ c.from = tasks[t].queue /\ c.task = t
  /\ Head(c.rest) = "pull" =>
       /\ \A e \in c.found : e.task = t
       /\ Holds(c.from, t) => EntriesOf(queues[c.from].entries, t) \subseteq c.found
  /\ Head(c.rest) \notin {"find", "pull"} => Nowhere(t)

Phase(c, t) ==
  /\ c.op = "enqueue" => EnqueuePhase(c, t)
  /\ c.op \in {"unarchive", "reposition"} => Faithful(t)
  /\ c.op \in Removers => RemovePhase(c, t)

\* The programs.
Visiting == { <<"to_queued", "check", "push", "metrics", "set_queue", "pull_others">>,
              <<"check", "push", "metrics", "set_queue", "pull_others">>,
              <<"push", "metrics", "set_queue", "pull_others">>,
              <<"metrics", "set_queue", "pull_others">>,
              <<"set_queue", "pull_others">>, <<"pull_others">> }
NotVisiting == { <<"to_queued", "check", "push", "metrics", "set_queue">>,
                 <<"check", "push", "metrics", "set_queue">>,
                 <<"push", "metrics", "set_queue">>,
                 <<"metrics", "set_queue">>, <<"set_queue">> }

AfterRemoval ==
  { "pull_others", "reload", "restore", "change", "to_created", "cleanup", "tag",
    "delete_doc", "detach", "publishing", "publish_model", "published", "rollback" }

Removed(c) == c.rest \in Seq(AfterRemoval)
AtPull(c)  == c.rest # <<>> /\ Head(c.rest) = "pull" /\ Tail(c.rest) \in Seq(AfterRemoval)
AtFind(c)  == /\ c.rest # <<>> /\ Head(c.rest) = "find"
              /\ Tail(c.rest) # <<>> /\ Head(Tail(c.rest)) = "pull"
              /\ Tail(Tail(c.rest)) # <<>> /\ Head(Tail(Tail(c.rest))) = "reload"
              /\ Tail(Tail(c.rest)) \in Seq(AfterRemoval)

EntryPlan(c) ==
  /\ c.rest = <<>> => c = Idle
  /\ c.rest # <<>> => c.op \in EntryOps
  /\ c.op = "enqueue" =>
       /\ c.rest \in (IF Queues = {c.to} THEN NotVisiting ELSE Visiting) \cup {<<"revert">>}
       /\ Head(c.rest) # "pull_others" => c.todo = Queues \ {c.to}
       /\ c.to \in Queues /\ c.task \in Tasks /\ c.work = {}
  /\ c.op = "next" => c.rest \in {<<"pop_read">>, <<"pop_fix">>}
  /\ c.op = "unarchive" => c.rest = <<"tag">> /\ c.work = {}
  /\ c.op = "reposition" => c.rest = <<"reposition">> /\ c.work = {}
  /\ c.op = "drop" => c.rest = <<"drop">> /\ c.task = NoTask /\ c.work = {}
  /\ c.op \in Removers => AtFind(c) \/ AtPull(c) \/ Removed(c)

EntryPlansOK == \A p \in Procs : EntryPlan(call[p])

EntriesInv ==
  /\ EntryPlansOK
  /\ \A t \in Tasks : tasks[t].doc # "present" => Nowhere(t)
  /\ \A t \in Tasks : (\A p \in Procs : ~AtWork(p, t)) => Faithful(t)
  /\ \A t \in Tasks, p \in Procs : AtWork(p, t) => Phase(call[p], t)

-----------------------------------------------------------------------------
(* Programs.                                                               *)

LEMMA EntryOpsAre ==
  /\ "none" \notin EntryOps /\ "move" \notin EntryOps /\ "add" \notin EntryOps
  /\ \A op : op \in EntryOps <=> op \in Removers \cup {"enqueue", "unarchive", "reposition", "drop", "next"}
  /\ Removers = {"dequeue", "dequeue_all", "stop", "change", "archive", "delete", "reset",
                 "publish", "remove", "remove_update"}
BY DEF EntryOps, OpNames, Removers

LEMMA IdlePlan == EntryPlan(Idle) /\ Idle.rest = <<>> /\ Idle.op = "none"
BY EntryOpsAre DEF EntryPlan, Idle

LEMMA VisitingSteps ==
  ASSUME NEW rest \in Visiting
  PROVE  /\ rest # <<>>
         /\ Head(rest) \in {"to_queued", "check", "push", "metrics", "set_queue", "pull_others"}
         /\ Head(rest) # "pull_others" => Tail(rest) \in Visiting
         /\ Head(rest) = "to_queued" => Head(Tail(rest)) = "check"
         /\ Head(rest) = "check" => Head(Tail(rest)) = "push"
         /\ Head(rest) = "push" => Head(Tail(rest)) = "metrics"
         /\ Head(rest) = "metrics" => Head(Tail(rest)) = "set_queue"
         /\ Head(rest) = "set_queue" => Head(Tail(rest)) = "pull_others"
         /\ Head(rest) = "pull_others" => Tail(rest) = <<>>
<1>1. CASE rest = <<"to_queued", "check", "push", "metrics", "set_queue", "pull_others">>
  BY <1>1 DEF Visiting
<1>2. CASE rest = <<"check", "push", "metrics", "set_queue", "pull_others">> BY <1>2 DEF Visiting
<1>3. CASE rest = <<"push", "metrics", "set_queue", "pull_others">> BY <1>3 DEF Visiting
<1>4. CASE rest = <<"metrics", "set_queue", "pull_others">> BY <1>4 DEF Visiting
<1>5. CASE rest = <<"set_queue", "pull_others">> BY <1>5 DEF Visiting
<1>6. CASE rest = <<"pull_others">> BY <1>6 DEF Visiting
<1>7. QED BY <1>1, <1>2, <1>3, <1>4, <1>5, <1>6 DEF Visiting

LEMMA NotVisitingSteps ==
  ASSUME NEW rest \in NotVisiting
  PROVE  /\ rest # <<>>
         /\ Head(rest) \in {"to_queued", "check", "push", "metrics", "set_queue"}
         /\ Head(rest) # "set_queue" => Tail(rest) \in NotVisiting
         /\ Head(rest) = "to_queued" => Head(Tail(rest)) = "check"
         /\ Head(rest) = "check" => Head(Tail(rest)) = "push"
         /\ Head(rest) = "push" => Head(Tail(rest)) = "metrics"
         /\ Head(rest) = "metrics" => Head(Tail(rest)) = "set_queue"
         /\ Head(rest) = "set_queue" => Tail(rest) = <<>>
<1>1. CASE rest = <<"to_queued", "check", "push", "metrics", "set_queue">>
  BY <1>1 DEF NotVisiting
<1>2. CASE rest = <<"check", "push", "metrics", "set_queue">> BY <1>2 DEF NotVisiting
<1>3. CASE rest = <<"push", "metrics", "set_queue">> BY <1>3 DEF NotVisiting
<1>4. CASE rest = <<"metrics", "set_queue">> BY <1>4 DEF NotVisiting
<1>5. CASE rest = <<"set_queue">> BY <1>5 DEF NotVisiting
<1>6. QED BY <1>1, <1>2, <1>3, <1>4, <1>5 DEF NotVisiting

\* The steps of an enqueue, in order: all of them but the last two continue with the next.
LEMMA EnqueueOrder ==
  ASSUME NEW c, EntryPlan(c), c.op = "enqueue", c.rest # <<"revert">>
  PROVE  /\ c.rest # <<>>
         /\ Head(c.rest) \in {"to_queued", "check", "push", "metrics", "set_queue", "pull_others"}
         /\ Head(c.rest) = "to_queued" => Head(Tail(c.rest)) = "check"
         /\ Head(c.rest) = "check" => Head(Tail(c.rest)) = "push"
         /\ Head(c.rest) = "push" => Head(Tail(c.rest)) = "metrics"
         /\ Head(c.rest) = "metrics" => Head(Tail(c.rest)) = "set_queue"
         /\ Head(c.rest) = "set_queue" => IF Queues = {c.to} THEN Tail(c.rest) = <<>>
                                          ELSE Head(Tail(c.rest)) = "pull_others"
         /\ Head(c.rest) = "pull_others" => Tail(c.rest) = <<>>
         /\ \/ Tail(c.rest) = <<>>
            \/ Tail(c.rest) \in (IF Queues = {c.to} THEN NotVisiting ELSE Visiting)
<1>1. c.rest \in (IF Queues = {c.to} THEN NotVisiting ELSE Visiting) BY DEF EntryPlan
<1>2. CASE Queues = {c.to} BY <1>1, <1>2, NotVisitingSteps
<1>3. CASE Queues # {c.to} BY <1>1, <1>3, VisitingSteps
<1>4. QED BY <1>2, <1>3

-----------------------------------------------------------------------------
(* A request begins.                                                       *)

LEMMA ConcatHeadTail ==
  ASSUME NEW S, NEW s \in Seq(S), NEW u \in Seq(S), s # <<>>
  PROVE  s \o u # <<>> /\ Head(s \o u) = Head(s) /\ Tail(s \o u) = Tail(s) \o u
<1> DEFINE v == s \o u
           h == Tail(s)
           w == Tail(s) \o u
<1>1. Len(s) \in Nat /\ Len(u) \in Nat /\ Len(s) >= 1 BY EmptySeq, LenProperties
<1>2. /\ v \in Seq(S) /\ Len(v) = Len(s) + Len(u)
      /\ \A i \in 1..(Len(s) + Len(u)) : v[i] = IF i <= Len(s) THEN s[i] ELSE u[i - Len(s)]
  BY ConcatProperties
<1>3. h \in Seq(S) /\ Len(h) = Len(s) - 1 /\ \A i \in 1..(Len(s) - 1) : h[i] = s[i + 1]
  BY HeadTailProperties
<1> HIDE DEF h
<1>4. /\ w \in Seq(S) /\ Len(w) = Len(h) + Len(u)
      /\ \A i \in 1..(Len(h) + Len(u)) : w[i] = IF i <= Len(h) THEN h[i] ELSE u[i - Len(h)]
  BY <1>3, ConcatProperties DEF h
<1> HIDE DEF v, w
<1>5. v # <<>> BY <1>1, <1>2, EmptySeq
<1>6. Head(v) = Head(s)
  <2>1. v[1] = s[1] BY <1>1, <1>2
  <2>2. Head(v) = v[1] /\ Head(s) = s[1] BY <1>2
  <2>3. QED BY <2>1, <2>2
<1>7. /\ Tail(v) \in Seq(S) /\ Len(Tail(v)) = Len(v) - 1
      /\ \A i \in 1..Len(Tail(v)) : Tail(v)[i] = v[i + 1]
  BY <1>2, <1>5, HeadTailProperties
<1>8. ASSUME NEW i \in 1..(Len(s) - 1 + Len(u)) PROVE Tail(v)[i] = w[i]
  <2>1. Tail(v)[i] = v[i + 1] /\ i + 1 \in 1..(Len(s) + Len(u)) BY <1>1, <1>2, <1>7
  <2>2. CASE i <= Len(s) - 1
    <3>1. v[i + 1] = s[i + 1] /\ w[i] = h[i] /\ h[i] = s[i + 1] BY <1>1, <1>2, <1>3, <1>4, <2>1, <2>2
    <3>2. QED BY <2>1, <3>1
  <2>3. CASE ~(i <= Len(s) - 1)
    <3>1. v[i + 1] = u[i + 1 - Len(s)] BY <1>1, <1>2, <2>1, <2>3
    <3>2. w[i] = u[i - (Len(s) - 1)] BY <1>1, <1>3, <1>4, <2>3
    <3>3. i + 1 - Len(s) = i - (Len(s) - 1) BY <1>1
    <3>4. QED BY <2>1, <3>1, <3>2, <3>3
  <2>4. QED BY <2>2, <2>3
<1>9. Len(Tail(v)) = Len(w) /\ Len(w) = Len(s) - 1 + Len(u) BY <1>1, <1>2, <1>3, <1>4, <1>7
<1>10. Tail(v) = w BY <1>4, <1>7, <1>8, <1>9, SeqEqual
<1>11. QED BY <1>5, <1>6, <1>10 DEF v, w, h

LEMMA RemoveTaskThen ==
  ASSUME NEW X \in Seq(AfterRemoval)
  PROVE  LET rest == RemoveTask \o X IN
         /\ rest # <<>> /\ Head(rest) = "find"
         /\ Tail(rest) # <<>> /\ Head(Tail(rest)) = "pull"
         /\ Tail(Tail(rest)) = <<"reload">> \o X
         /\ Tail(Tail(rest)) # <<>> /\ Head(Tail(Tail(rest))) = "reload"
         /\ Tail(Tail(Tail(rest))) = X
         /\ Tail(Tail(rest)) \in Seq(AfterRemoval)
<1> DEFINE S == AfterRemoval \cup {"find", "pull"}
           A == <<"find", "pull", "reload">>
           B == <<"pull", "reload">>
           C == <<"reload">>
<1>1. A \in Seq(S) /\ B \in Seq(S) /\ C \in Seq(AfterRemoval) BY DEF AfterRemoval
<1>2. A # <<>> /\ B # <<>> /\ Head(A) = "find" /\ Head(B) = "pull" /\ Tail(A) = B /\ Tail(B) = C
  OBVIOUS
<1>3. X \in Seq(S) BY SeqMonotonic
<1> HIDE DEF A, B, C
<1>4. A \o X # <<>> /\ Head(A \o X) = "find" /\ Tail(A \o X) = B \o X BY <1>1, <1>2, <1>3, ConcatHeadTail
<1>5. B \o X # <<>> /\ Head(B \o X) = "pull" /\ Tail(B \o X) = C \o X BY <1>1, <1>2, <1>3, ConcatHeadTail
<1>6. C \o X \in Seq(AfterRemoval) BY <1>1, ConcatProperties
<1>7. C \o X # <<>> /\ Head(C \o X) = "reload" /\ Tail(C \o X) = X
  <2>1. C # <<>> /\ Head(C) = "reload" /\ Tail(C) = <<>> BY DEF C
  <2>2. C \o X # <<>> /\ Head(C \o X) = Head(C) /\ Tail(C \o X) = Tail(C) \o X
    BY <1>1, <2>1, ConcatHeadTail
  <2>3. <<>> \o X = X BY ConcatEmptySeq
  <2>4. QED BY <2>1, <2>2, <2>3
<1>8. QED BY <1>4, <1>5, <1>6, <1>7 DEF RemoveTask, A, C

LEMMA HeadAfterRemoval ==
  ASSUME NEW rest \in Seq(AfterRemoval), rest # <<>>
  PROVE  Head(rest) \in AfterRemoval /\ Tail(rest) \in Seq(AfterRemoval)
BY HeadTailProperties

LEMMA PhaseOfRemover ==
  ASSUME NEW c, c.op \in Removers, c.rest # <<>>, Removed(c) \/ AtPull(c) \/ AtFind(c)
  PROVE  EntryPlan(c)
BY EntryOpsAre DEF EntryPlan

\* The requests that take a task out of the queue it names before they go on with X.
LEMMA RemoverBegins ==
  ASSUME TypeOK, NEW t \in Tasks, Faithful(t), NEW X \in Seq(AfterRemoval), NEW c, c.rest # <<>>,
         c.op \in Removers, c.task = t, c.from = tasks[t].queue,
         c.rest = Dequeue(tasks[t]) \o X
  PROVE  EntryPlan(c) /\ Phase(c, t)
<1>1. tasks[t] \in TaskDoc BY DEF TypeOK
<1>2. CASE tasks[t].status = queued /\ tasks[t].queue # NoQueue
  <2>1. c.rest = RemoveTask \o X BY <1>2 DEF Dequeue, When
  <2>2. AtFind(c) /\ Head(c.rest) = "find"
    <3> DEFINE rest == RemoveTask \o X
    <3>1. /\ rest # <<>> /\ Head(rest) = "find"
          /\ Tail(rest) # <<>> /\ Head(Tail(rest)) = "pull"
          /\ Tail(Tail(rest)) # <<>> /\ Head(Tail(Tail(rest))) = "reload"
          /\ Tail(Tail(rest)) \in Seq(AfterRemoval)
      BY RemoveTaskThen
    <3>2. c.rest = rest BY <2>1
    <3> HIDE DEF rest
    <3>3. QED BY <3>1, <3>2 DEF AtFind
  <2>3. EntryPlan(c) BY <2>2, PhaseOfRemover DEF AtFind
  <2>4. RemovePhase(c, t)
    <3>1. c.from \in Queues BY <1>1, <1>2 DEF TaskDoc
    <3>2. QED BY <2>2, <3>1 DEF RemovePhase
  <2>5. QED BY <2>3, <2>4, EntryOpsAre DEF Phase
<1>3. CASE ~(tasks[t].status = queued /\ tasks[t].queue # NoQueue)
  <2>1. Dequeue(tasks[t]) = <<>> BY <1>3 DEF Dequeue, When
  <2>2. c.rest = X BY <2>1, ConcatEmptySeq
  <2>3. EntryPlan(c) BY <2>2, PhaseOfRemover DEF Removed
  <2>4. Nowhere(t) BY <1>3, ConstantsAssumption DEF Faithful, Nowhere
  <2>5. Head(c.rest) \notin {"find", "pull"} BY <2>2, HeadAfterRemoval DEF AfterRemoval
  <2>6. RemovePhase(c, t) BY <2>4, <2>5 DEF RemovePhase
  <2>7. QED BY <2>3, <2>6, EntryOpsAre DEF Phase
<1>4. QED BY <1>2, <1>3

\* DequeueAndChangeStatus, followed by Y.
Changes(task, all, Y) ==
  (When(all, <<"pull_others">>) \o When(task.status \in RunningStatuses, <<"restore">>)) \o Y

LEMMA ChangeThen ==
  ASSUME NEW task, NEW all, NEW Y \in Seq(AfterRemoval)
  PROVE  /\ Changes(task, all, Y) \in Seq(AfterRemoval)
         /\ DequeueAndChangeStatus(task, all) \o Y = Dequeue(task) \o Changes(task, all, Y)
<1> DEFINE S == AfterRemoval \cup {"find", "pull"}
           D == Dequeue(task)
           W == When(all, <<"pull_others">>)
           R == When(task.status \in RunningStatuses, <<"restore">>)
<1>1. D \in Seq(S)
  <2>1. RemoveTask \in Seq(S) BY DEF RemoveTask, AfterRemoval
  <2>2. QED BY <2>1, WhenInSeq DEF Dequeue
<1>2. W \in Seq(AfterRemoval) /\ R \in Seq(AfterRemoval)
  <2>1. <<"pull_others">> \in Seq(AfterRemoval) /\ <<"restore">> \in Seq(AfterRemoval)
    BY DEF AfterRemoval
  <2>2. QED BY <2>1, WhenInSeq
<1>3. DequeueAndChangeStatus(task, all) = (D \o W) \o R BY DEF DequeueAndChangeStatus
<1> HIDE DEF D, W, R
<1>4. W \o R \in Seq(AfterRemoval) /\ (W \o R) \o Y \in Seq(AfterRemoval) BY <1>2, ConcatProperties
<1>5. W \in Seq(S) /\ R \in Seq(S) /\ Y \in Seq(S) /\ W \o R \in Seq(S) BY <1>2, <1>4, SeqMonotonic
<1>6. (D \o W) \o R = D \o (W \o R) BY <1>1, <1>5, ConcatAssociative
<1>7. (D \o (W \o R)) \o Y = D \o ((W \o R) \o Y) BY <1>1, <1>5, ConcatAssociative
<1>8. QED BY <1>3, <1>4, <1>6, <1>7 DEF D, W, R, Changes

\* What the client that begins may rely on.
MayBegin(r) ==
  \A t \in Tasks : AtWork(r, t)' =>
    Faithful(t) /\ (call'[r].op \in {"change", "publish"} => Nowhere(t))

Begun(r) == EntryPlan(call'[r]) /\ \A t \in Tasks : AtWork(r, t)' => Phase(call'[r], t)

\* A request about one task.
LEMMA BegunFor ==
  ASSUME NEW r \in Procs, NEW t \in Tasks, call'[r].task = t, call'[r].work \in {{}, {t}},
         EntryPlan(call'[r]), AtWork(r, t)' => Phase(call'[r], t)
  PROVE  Begun(r)
BY DEF Begun, AtWork

LEMMA BegunRemover ==
  ASSUME TypeOK, NEW r \in Procs, MayBegin(r), NEW op, NEW t \in Tasks, NEW X \in Seq(AfterRemoval),
         NEW c, Begin(r, op, c), c.op \in Removers, c.task = t, c.work = {},
         c.from = tasks[t].queue, c.rest = Dequeue(tasks[t]) \o X
  PROVE  Begun(r)
<1>1. call'[r] = c /\ c.rest # <<>> BY DEF Begin, TypeOK
<1>2. AtWork(r, t)' BY <1>1, EntryOpsAre DEF AtWork
<1>3. Faithful(t) BY <1>2 DEF MayBegin
<1>4. EntryPlan(c) /\ Phase(c, t) BY <1>1, <1>3, RemoverBegins
<1>5. QED BY <1>1, <1>4, BegunFor

LEMMA EnqueueBegins ==
  ASSUME TasksServiceOnly, Inv, NEW r \in Procs, Enqueue(r), MayBegin(r)
  PROVE  Begun(r)
<1> DEFINE c(t, q, force, op) ==
             [Idle EXCEPT !.op = op, !.task = t, !.to = q, !.force = force,
                !.expect = tasks[t].status, !.new = queued,
                !.enqueue_status = BeforeEnqueue(tasks[t]), !.todo = Queues \ {q},
                !.rest = EnqueueProgram(op, Queues \ {q})]
<1>1. PICK t \in Tasks, q \in Queues, force \in ForceFlags, op \in Enqueuers :
        Begin(r, op, c(t, q, force, op)) /\ Visible(t)
  BY DEF Enqueue, Enqueuers
<1> DEFINE d == c(t, q, force, op)
<1>2. call'[r] = d /\ op \in Ops[r] BY <1>1 DEF Begin, Inv, TypeOK
<1>3. op = "enqueue" BY <1>2 DEF TasksServiceOnly, EntryOps, Enqueuers
<1>4. /\ d.op = op /\ d.to = q /\ d.todo = Queues \ {q} /\ d.task = t /\ d.work = {}
      /\ d.rest = EnqueueProgram(op, Queues \ {q})
  BY DEF Idle
<1> HIDE DEF d
<1>5. Queues \ {q} = {} <=> Queues = {q} OBVIOUS
<1>6. /\ d.rest \in (IF Queues = {q} THEN NotVisiting ELSE Visiting)
      /\ d.rest # <<>> /\ Head(d.rest) = "to_queued"
  <2>1. CASE Queues = {q}
    <3>1. d.rest = <<"to_queued", "check", "push", "metrics", "set_queue">>
      BY <1>3, <1>4, <1>5, <2>1, EnqueueProgramForms DEF Enqueuers
    <3>2. QED BY <2>1, <3>1 DEF NotVisiting
  <2>2. CASE Queues # {q}
    <3>1. d.rest = <<"to_queued", "check", "push", "metrics", "set_queue", "pull_others">>
      BY <1>3, <1>4, <1>5, <2>2, EnqueueProgramForms DEF Enqueuers
    <3>2. QED BY <2>2, <3>1 DEF Visiting
  <2>3. QED BY <2>1, <2>2
<1>7. EntryPlan(d)
  <2>1. "enqueue" \in EntryOps /\ "enqueue" \notin Removers BY EntryOpsAre
  <2>2. QED BY <1>3, <1>4, <1>6, <2>1 DEF EntryPlan
<1>8. AtWork(r, t)' BY <1>2, <1>3, <1>4 DEF AtWork
<1>9. Phase(d, t)
  <2>1. Faithful(t) BY <1>8 DEF MayBegin
  <2>2. EnqueuePhase(d, t) BY <1>1, <1>6, <2>1 DEF EnqueuePhase, Visible
  <2>3. QED BY <1>3, <1>4, <2>2, EntryOpsAre DEF Phase
<1>10. QED BY <1>2, <1>4, <1>7, <1>9, BegunFor

LEMMA DequeueBegins ==
  ASSUME Inv, NEW r \in Procs, DequeueTask(r), MayBegin(r),
         \A t \in Tasks : tasks[t].doc # "present" => Nowhere(t)
  PROVE  Begun(r)
<1>1. TypeOK BY DEF Inv
<1> DEFINE base(t, op) == [Idle EXCEPT !.op = op, !.task = t, !.todo = Queues]
           a(t, op) == [base(t, op) EXCEPT !.rest = <<"pull_others">>]
           d(t, op, asked) ==
             [base(t, op) EXCEPT !.from = tasks[t].queue, !.expect = tasks[t].status,
                !.new = RestoredStatus(tasks[t], asked, NoStatus), !.force = TRUE,
                !.rest = DequeueAndChangeStatus(tasks[t], op = "dequeue_all")]
<1>2. PICK t \in Tasks, op \in {"dequeue", "dequeue_all"}, asked \in AskedStatuses :
        \/ tasks[t].doc = "absent" /\ Begin(r, op, a(t, op))
        \/ Begin(r, op, d(t, op, asked))
  BY DEF DequeueTask
<1>3. /\ a(t, op).op = op /\ a(t, op).task = t /\ a(t, op).work = {} /\ a(t, op).rest = <<"pull_others">>
      /\ d(t, op, asked).op = op /\ d(t, op, asked).task = t /\ d(t, op, asked).work = {}
      /\ d(t, op, asked).from = tasks[t].queue
      /\ d(t, op, asked).rest = DequeueAndChangeStatus(tasks[t], op = "dequeue_all")
  BY DEF Idle
<1> HIDE DEF a, d
<1>4. op \in Removers BY EntryOpsAre
<1>5. CASE tasks[t].doc = "absent" /\ Begin(r, op, a(t, op))
  <2>1. call'[r] = a(t, op) BY <1>1, <1>5 DEF Begin, TypeOK
  <2>2. Removed(a(t, op)) /\ a(t, op).rest # <<>> /\ Head(a(t, op).rest) = "pull_others"
    BY <1>3 DEF Removed, AfterRemoval
  <2>3. EntryPlan(a(t, op)) BY <1>3, <1>4, <2>2, PhaseOfRemover
  <2>4. Phase(a(t, op), t) BY <1>3, <1>4, <1>5, <2>2, EntryOpsAre DEF Phase, RemovePhase
  <2>5. QED BY <1>3, <2>1, <2>3, <2>4, BegunFor
<1>6. CASE Begin(r, op, d(t, op, asked))
  <2> DEFINE all == op = "dequeue_all"
             T == {"find", "pull", "reload", "pull_others", "restore"}
  <2>0. all \in BOOLEAN /\ d(t, op, asked).rest = DequeueAndChangeStatus(tasks[t], all) BY <1>3
  <2> HIDE DEF all
  <2>1. <<>> \in Seq(AfterRemoval) BY EmptySeq
  <2> DEFINE X == Changes(tasks[t], all, <<>>)
  <2>2. /\ X \in Seq(AfterRemoval)
        /\ DequeueAndChangeStatus(tasks[t], all) \o <<>> = Dequeue(tasks[t]) \o X
    BY <2>1, ChangeThen
  <2> HIDE DEF X
  <2>3. DequeueAndChangeStatus(tasks[t], all) \in Seq(T)
    <3>1. tasks[t] \in TaskDoc BY <1>1 DEF TypeOK
    <3>2. QED BY <2>0, <3>1, DequeuePrograms
  <2>4. d(t, op, asked).rest = Dequeue(tasks[t]) \o X BY <2>0, <2>2, <2>3, ConcatEmptySeq
  <2>5. QED BY <1>1, <1>3, <1>4, <1>6, <2>2, <2>4, BegunRemover
<1>7. QED BY <1>2, <1>5, <1>6

LEMMA StopBegins ==
  ASSUME Inv, NEW r \in Procs, StopTask(r), MayBegin(r)
  PROVE  Begun(r)
<1>1. TypeOK BY DEF Inv
<1> DEFINE c(t, force) ==
             [Idle EXCEPT !.op = "stop", !.task = t, !.from = tasks[t].queue,
                !.expect = tasks[t].status, !.new = stopped, !.force = force,
                !.rest = Dequeue(tasks[t]) \o <<"change">>]
<1>2. PICK t \in Tasks, force \in ForceFlags : Begin(r, "stop", c(t, force)) BY DEF StopTask
<1>3. /\ c(t, force).op = "stop" /\ c(t, force).task = t /\ c(t, force).work = {}
      /\ c(t, force).from = tasks[t].queue /\ c(t, force).rest = Dequeue(tasks[t]) \o <<"change">>
  BY DEF Idle
<1> HIDE DEF c
<1>4. <<"change">> \in Seq(AfterRemoval) BY DEF AfterRemoval
<1>5. "stop" \in Removers BY EntryOpsAre
<1>6. QED BY <1>1, <1>2, <1>3, <1>4, <1>5, BegunRemover

LEMMA ArchiveBegins ==
  ASSUME Inv, NEW r \in Procs, ArchiveTask(r), MayBegin(r)
  PROVE  Begun(r)
<1>1. TypeOK BY DEF Inv
<1> DEFINE c(t) ==
             [Idle EXCEPT !.op = "archive", !.task = t, !.from = tasks[t].queue,
                !.expect = tasks[t].status, !.new = RestoredStatus(tasks[t], NoStatus, stopped),
                !.force = TRUE, !.todo = Queues,
                !.rest = DequeueAndChangeStatus(tasks[t], TRUE) \o <<"tag">>]
<1>2. PICK t \in Tasks : Begin(r, "archive", c(t)) BY DEF ArchiveTask
<1>3. /\ c(t).op = "archive" /\ c(t).task = t /\ c(t).work = {} /\ c(t).from = tasks[t].queue
      /\ c(t).rest = DequeueAndChangeStatus(tasks[t], TRUE) \o <<"tag">>
  BY DEF Idle
<1> HIDE DEF c
<1>4. <<"tag">> \in Seq(AfterRemoval) BY DEF AfterRemoval
<1> DEFINE X == Changes(tasks[t], TRUE, <<"tag">>)
<1>5. /\ X \in Seq(AfterRemoval)
      /\ DequeueAndChangeStatus(tasks[t], TRUE) \o <<"tag">> = Dequeue(tasks[t]) \o X
  BY <1>4, ChangeThen
<1> HIDE DEF X
<1>6. "archive" \in Removers BY EntryOpsAre
<1>7. QED BY <1>1, <1>2, <1>3, <1>5, <1>6, BegunRemover

LEMMA DeleteBegins ==
  ASSUME Inv, NEW r \in Procs, DeleteTask(r), MayBegin(r)
  PROVE  Begun(r)
<1>1. TypeOK BY DEF Inv
<1> DEFINE c(t, force) ==
             [Idle EXCEPT !.op = "delete", !.task = t, !.from = tasks[t].queue,
                !.expect = tasks[t].status, !.new = RestoredStatus(tasks[t], NoStatus, NoStatus),
                !.force = force, !.todo = Queues,
                !.rest = DequeueAndChangeStatus(tasks[t], TRUE) \o <<"cleanup", "delete_doc">>]
<1>2. PICK t \in Tasks, force \in ForceFlags : Begin(r, "delete", c(t, force)) BY DEF DeleteTask
<1>3. /\ c(t, force).op = "delete" /\ c(t, force).task = t /\ c(t, force).work = {}
      /\ c(t, force).from = tasks[t].queue
      /\ c(t, force).rest = DequeueAndChangeStatus(tasks[t], TRUE) \o <<"cleanup", "delete_doc">>
  BY DEF Idle
<1> HIDE DEF c
<1>4. <<"cleanup", "delete_doc">> \in Seq(AfterRemoval) BY DEF AfterRemoval
<1> DEFINE X == Changes(tasks[t], TRUE, <<"cleanup", "delete_doc">>)
<1>5. /\ X \in Seq(AfterRemoval)
      /\ DequeueAndChangeStatus(tasks[t], TRUE) \o <<"cleanup", "delete_doc">> = Dequeue(tasks[t]) \o X
  BY <1>4, ChangeThen
<1> HIDE DEF X
<1>6. "delete" \in Removers BY EntryOpsAre
<1>7. QED BY <1>1, <1>2, <1>3, <1>5, <1>6, BegunRemover

Resets(condition) == <<"pull_others", "cleanup">> \o When(condition, <<"to_created">>)

LEMMA ResetThen ==
  ASSUME NEW task, NEW condition
  PROVE  /\ Resets(condition) \in Seq(AfterRemoval)
         /\ Dequeue(task) \o <<"pull_others", "cleanup">> \o When(condition, <<"to_created">>)
              = Dequeue(task) \o Resets(condition)
<1> DEFINE S == AfterRemoval \cup {"find", "pull"}
           D == Dequeue(task)
           A == <<"pull_others", "cleanup">>
           W == When(condition, <<"to_created">>)
<1>1. D \in Seq(S)
  <2>1. RemoveTask \in Seq(S) BY DEF RemoveTask, AfterRemoval
  <2>2. QED BY <2>1, WhenInSeq DEF Dequeue
<1>2. A \in Seq(AfterRemoval) /\ W \in Seq(AfterRemoval)
  <2>1. <<"to_created">> \in Seq(AfterRemoval) /\ A \in Seq(AfterRemoval) BY DEF AfterRemoval
  <2>2. QED BY <2>1, WhenInSeq
<1> HIDE DEF D, A, W
<1>3. A \in Seq(S) /\ W \in Seq(S) BY <1>2, SeqMonotonic
<1>4. (D \o A) \o W = D \o (A \o W) BY <1>1, <1>3, ConcatAssociative
<1>5. A \o W \in Seq(AfterRemoval) BY <1>2, ConcatProperties
<1>6. QED BY <1>4, <1>5 DEF D, A, W, Resets

LEMMA ResetBegins ==
  ASSUME Inv, NEW r \in Procs, ResetTask(r), MayBegin(r)
  PROVE  Begun(r)
<1>1. TypeOK BY DEF Inv
<1> DEFINE legal(t, force) == ValidTransition(force, tasks[t].status, created)
           c(t, force) ==
             [Idle EXCEPT !.op = "reset", !.task = t, !.from = tasks[t].queue,
                !.expect = tasks[t].status, !.new = created, !.force = force, !.todo = Queues,
                !.rest = Dequeue(tasks[t]) \o <<"pull_others", "cleanup">>
                         \o When(legal(t, force), <<"to_created">>)]
<1>2. PICK t \in Tasks, force \in ForceFlags : Begin(r, "reset", c(t, force)) BY DEF ResetTask
<1>3. /\ c(t, force).op = "reset" /\ c(t, force).task = t /\ c(t, force).work = {}
      /\ c(t, force).from = tasks[t].queue
      /\ c(t, force).rest = Dequeue(tasks[t]) \o <<"pull_others", "cleanup">>
                            \o When(legal(t, force), <<"to_created">>)
  BY DEF Idle
<1> DEFINE condition == legal(t, force)
<1> HIDE DEF c
<1>4. c(t, force).rest = Dequeue(tasks[t]) \o <<"pull_others", "cleanup">>
                         \o When(condition, <<"to_created">>)
  BY <1>3
<1> HIDE DEF condition, legal
<1> DEFINE X == Resets(condition)
<1>5. /\ X \in Seq(AfterRemoval)
      /\ Dequeue(tasks[t]) \o <<"pull_others", "cleanup">> \o When(condition, <<"to_created">>)
           = Dequeue(tasks[t]) \o X
  BY ResetThen
<1> HIDE DEF X
<1>6. "reset" \in Removers BY EntryOpsAre
<1>7. QED BY <1>1, <1>2, <1>3, <1>4, <1>5, <1>6, BegunRemover

\* A report of a status and a publication find the task in no queue.
LEMMA ReportBegins ==
  ASSUME Inv, NEW r \in Procs, SetStatusFromCall(r) \/ PublishTask(r), MayBegin(r)
  PROVE  Begun(r)
<1>1. TypeOK BY DEF Inv
<1>2. ASSUME NEW t \in Tasks, NEW c, call'[r] = c, c.op \in {"change", "publish"}, c.task = t,
             c.work = {}, c.rest \in Seq(AfterRemoval), c.rest # <<>>
      PROVE  Begun(r)
  <2>1. AtWork(r, t)' BY <1>2 DEF AtWork
  <2>2. Nowhere(t) BY <1>2, <2>1 DEF MayBegin
  <2>3. c.op \in Removers BY <1>2, EntryOpsAre
  <2>4. EntryPlan(c) BY <1>2, <2>3, PhaseOfRemover DEF Removed
  <2>5. Head(c.rest) \notin {"find", "pull"} BY <1>2, HeadAfterRemoval DEF AfterRemoval
  <2>6. Phase(c, t) BY <2>2, <2>3, <2>5, EntryOpsAre DEF Phase, RemovePhase
  <2>7. QED BY <1>2, <2>4, <2>6, BegunFor
<1>3. CASE SetStatusFromCall(r)
  <2> DEFINE c(t, force, new) ==
               [Idle EXCEPT !.op = "change", !.task = t, !.force = force,
                  !.expect = tasks[t].status, !.new = new, !.rest = <<"change">>]
  <2>1. PICK t \in Tasks, force \in ForceFlags, new \in {in_progress, stopped, failed, closed, completed} :
               Begin(r, "change", c(t, force, new))
    BY <1>3 DEF SetStatusFromCall
  <2> DEFINE d == c(t, force, new)
  <2>2. d.op = "change" /\ d.task = t /\ d.work = {} /\ d.rest = <<"change">> BY DEF Idle
  <2>3. call'[r] = d BY <1>1, <2>1 DEF Begin, TypeOK
  <2> HIDE DEF d
  <2>4. d.rest \in Seq(AfterRemoval) /\ d.rest # <<>> BY <2>2 DEF AfterRemoval
  <2>5. QED BY <1>2, <2>2, <2>3, <2>4
<1>4. CASE PublishTask(r)
  <2> DEFINE W(t) == When(tasks[t].status # publishing, <<"publishing">>)
             c(t, force) ==
               [Idle EXCEPT !.op = "publish", !.task = t, !.force = force,
                  !.expect = tasks[t].status, !.new = published,
                  !.rest = W(t) \o <<"publish_model", "published">>]
  <2>1. PICK t \in Tasks, force \in ForceFlags : Begin(r, "publish", c(t, force))
    BY <1>4 DEF PublishTask
  <2> DEFINE d == c(t, force)
  <2>2. /\ d.op = "publish" /\ d.task = t /\ d.work = {}
        /\ d.rest = W(t) \o <<"publish_model", "published">>
    BY DEF Idle
  <2>3. call'[r] = d /\ d.rest # <<>> BY <1>1, <2>1 DEF Begin, TypeOK
  <2> HIDE DEF d
  <2>4. d.rest \in Seq(AfterRemoval)
    <3>1. <<"publishing">> \in Seq(AfterRemoval) /\ <<"publish_model", "published">> \in Seq(AfterRemoval)
      BY DEF AfterRemoval
    <3>2. W(t) \in Seq(AfterRemoval) BY <3>1, WhenInSeq
    <3> HIDE DEF W
    <3>3. QED BY <2>2, <3>1, <3>2, ConcatProperties
  <2>5. QED BY <1>2, <2>2, <2>3, <2>4
<1>5. QED BY <1>3, <1>4

LEMMA EntriesOfAre ==
  ASSUME NEW entries, NEW t
  PROVE  \A e \in EntriesOf(entries, t) : e.task = t
BY DEF EntriesOf

LEMMA RemoveBegins ==
  ASSUME Inv, NEW r \in Procs, RemoveTaskFromQueue(r), MayBegin(r)
  PROVE  Begun(r)
<1>1. TypeOK BY DEF Inv
<1> DEFINE c(t, q, op) ==
             [Idle EXCEPT !.op = op, !.task = t, !.from = q,
                !.found = EntriesOf(queues[q].entries, t), !.work = {t},
                !.rest = <<"pull">> \o When(op = "remove_update", <<"detach">>)
                         \o <<"reload">>]
<1>2. PICK t \in Tasks, q \in Queues, op \in {"remove", "remove_update"} :
        Holds(q, t) /\ Begin(r, op, c(t, q, op))
  BY DEF RemoveTaskFromQueue
<1> DEFINE d == c(t, q, op)
           W == When(op = "remove_update", <<"detach">>)
<1>3. /\ d.op = op /\ d.task = t /\ d.work = {t} /\ d.from = q
      /\ d.found = EntriesOf(queues[q].entries, t) /\ d.rest = <<"pull">> \o W \o <<"reload">>
  BY DEF Idle
<1>4. call'[r] = d BY <1>1, <1>2 DEF Begin, TypeOK
<1> HIDE DEF d
<1>5. d.rest # <<>> /\ Head(d.rest) = "pull" /\ Tail(d.rest) = W \o <<"reload">>
      /\ W \o <<"reload">> \in Seq(AfterRemoval)
  <2> DEFINE S == AfterRemoval \cup {"pull"}
             A == <<"pull">>
             B == <<"reload">>
             E == <<>>
  <2>1. /\ A \in Seq(S) /\ B \in Seq(AfterRemoval) /\ <<"detach">> \in Seq(AfterRemoval)
        /\ A # <<>> /\ Head(A) = "pull" /\ Tail(A) = E
    BY DEF AfterRemoval
  <2>2. W \in Seq(AfterRemoval) BY <2>1, WhenInSeq
  <2>3. d.rest = (A \o W) \o B BY <1>3
  <2> HIDE DEF A, B, W
  <2>4. W \in Seq(S) /\ B \in Seq(S) BY <2>1, <2>2, SeqMonotonic
  <2>5. (A \o W) \o B = A \o (W \o B) /\ W \o B \in Seq(S) /\ W \o B \in Seq(AfterRemoval)
    BY <2>1, <2>2, <2>4, ConcatAssociative, ConcatProperties
  <2> DEFINE V == W \o B
  <2>6. V \in Seq(S) /\ V \in Seq(AfterRemoval) /\ d.rest = A \o V BY <2>3, <2>5
  <2> HIDE DEF V, S
  <2>7. d.rest # <<>> /\ Head(d.rest) = "pull" /\ Tail(d.rest) = E \o V
    <3>1. A \o V # <<>> /\ Head(A \o V) = Head(A) /\ Tail(A \o V) = Tail(A) \o V
      BY <2>1, <2>6, ConcatHeadTail
    <3>2. QED BY <2>1, <2>6, <3>1
  <2>8. E \o V = V BY <2>6, ConcatEmptySeq
  <2>9. QED BY <2>6, <2>7, <2>8 DEF V, B
<1> HIDE DEF W
<1>6. AtWork(r, t)' /\ op \in Removers BY <1>3, <1>4, EntryOpsAre DEF AtWork
<1>7. AtPull(d) BY <1>5 DEF AtPull
<1>8. EntryPlan(d) BY <1>3, <1>5, <1>6, <1>7, PhaseOfRemover
<1>9. Faithful(t) BY <1>6 DEF MayBegin
<1>10. tasks[t].queue = q BY <1>2, <1>9 DEF Faithful
<1>11. RemovePhase(d, t) BY <1>3, <1>5, <1>9, <1>10, EntriesOfAre DEF RemovePhase
<1>12. Phase(d, t) BY <1>3, <1>6, <1>11, EntryOpsAre DEF Phase
<1>13. QED BY <1>3, <1>4, <1>8, <1>12, BegunFor

LEMMA OthersBegin ==
  ASSUME TasksServiceOnly, Inv, NEW r \in Procs, MayBegin(r),
         \/ UnarchiveTask(r) \/ GetNextTask(r) \/ RepositionTask(r) \/ DeleteQueue(r)
  PROVE  Begun(r)
<1>1. TypeOK BY DEF Inv
<1>2. ASSUME NEW t \in Tasks, NEW c, call'[r] = c, c.task = t, c.work = {},
             \/ c.op = "unarchive" /\ c.rest = <<"tag">>
             \/ c.op = "reposition" /\ c.rest = <<"reposition">>
      PROVE  Begun(r)
  <2>1. AtWork(r, t)' BY <1>2 DEF AtWork
  <2>2. Faithful(t) BY <2>1 DEF MayBegin
  <2>3. EntryPlan(c) BY <1>2, EntryOpsAre DEF EntryPlan
  <2>4. Phase(c, t) BY <1>2, <2>2, EntryOpsAre DEF Phase
  <2>5. QED BY <1>2, <2>3, <2>4, BegunFor
<1>3. CASE UnarchiveTask(r)
  <2>1. PICK t \in Tasks :
          Begin(r, "unarchive", [Idle EXCEPT !.op = "unarchive", !.task = t, !.rest = <<"tag">>])
    BY <1>3 DEF UnarchiveTask
  <2> DEFINE d == [Idle EXCEPT !.op = "unarchive", !.task = t, !.rest = <<"tag">>]
  <2>2. d.op = "unarchive" /\ d.task = t /\ d.work = {} /\ d.rest = <<"tag">> BY DEF Idle
  <2>3. call'[r] = d BY <1>1, <2>1 DEF Begin, TypeOK
  <2> HIDE DEF d
  <2>4. QED BY <1>2, <2>2, <2>3
<1>4. CASE RepositionTask(r)
  <2> DEFINE c(t, q, move) ==
               [Idle EXCEPT !.op = "reposition", !.task = t, !.from = q, !.move = move,
                            !.rest = <<"reposition">>]
  <2>1. PICK t \in Tasks, q \in Queues, move \in Moves : Begin(r, "reposition", c(t, q, move))
    BY <1>4 DEF RepositionTask
  <2> DEFINE d == c(t, q, move)
  <2>2. d.op = "reposition" /\ d.task = t /\ d.work = {} /\ d.rest = <<"reposition">> BY DEF Idle
  <2>3. call'[r] = d BY <1>1, <2>1 DEF Begin, TypeOK
  <2> HIDE DEF d
  <2>4. QED BY <1>2, <2>2, <2>3
<1>5. CASE GetNextTask(r)
  <2> DEFINE c(q) == [Idle EXCEPT !.op = "next", !.task = Head(queues[q].entries).task,
                        !.rest = <<"pop_read">>]
  <2>1. PICK q \in Queues : Begin(r, "next", c(q)) BY <1>5 DEF GetNextTask
  <2> DEFINE d == c(q)
  <2>2. d.op = "next" /\ d.rest = <<"pop_read">> BY DEF Idle
  <2>3. call'[r] = d BY <1>1, <2>1 DEF Begin, TypeOK
  <2> HIDE DEF d
  <2>4. EntryPlan(d) BY <2>2, EntryOpsAre DEF EntryPlan
  <2>5. \A t : ~AtWork(r, t)' BY <2>2, <2>3 DEF AtWork
  <2>6. QED BY <2>3, <2>4, <2>5 DEF Begun
<1>6. CASE DeleteQueue(r)
  <2> DEFINE c(q, op) ==
               [Idle EXCEPT !.op = op, !.from = q, !.found = ToSet(queues[q].entries),
                  !.work = {e.task : e \in ToSet(queues[q].entries)},
                  !.rest = When(queues[q].entries # <<>>, <<"detach">>) \o <<"drop">>]
  <2>1. PICK q \in Queues, op \in {"drop", "drop_forced"} :
          /\ queues[q].entries = <<>> \/ op = "drop_forced"
          /\ Begin(r, op, c(q, op))
    BY <1>6 DEF DeleteQueue
  <2> DEFINE d == c(q, op)
  <2>2. /\ d.op = op /\ d.task = NoTask /\ d.work = {e.task : e \in ToSet(queues[q].entries)}
        /\ d.rest = When(queues[q].entries # <<>>, <<"detach">>) \o <<"drop">>
    BY DEF Idle
  <2>3. call'[r] = d /\ op \in Ops[r] BY <1>1, <2>1 DEF Begin, TypeOK
  <2> HIDE DEF d
  <2>4. op = "drop" BY <2>3 DEF TasksServiceOnly, EntryOps
  <2>5. queues[q].entries = <<>> BY <2>1, <2>4
  <2>6. d.work = {}
    <3>1. DOMAIN <<>> = {} OBVIOUS
    <3>2. ToSet(queues[q].entries) = {} BY <2>5, <3>1 DEF ToSet
    <3>3. QED BY <2>2, <3>2
  <2>7. d.rest = <<"drop">>
    <3> DEFINE D == <<"drop">>
               N == <<>>
    <3>1. D \in Seq({"drop"}) OBVIOUS
    <3>2. When(queues[q].entries # <<>>, <<"detach">>) = N BY <2>5 DEF When
    <3> HIDE DEF D
    <3>3. N \o D = D BY <3>1, ConcatEmptySeq
    <3>4. d.rest = When(queues[q].entries # <<>>, <<"detach">>) \o D BY <2>2 DEF D
    <3>5. QED BY <3>2, <3>3, <3>4 DEF D
  <2>8. EntryPlan(d)
    <3>1. d.op = "drop" /\ d.op \in EntryOps /\ d.op \notin Removers BY <2>2, <2>4, EntryOpsAre
    <3>2. d.rest # <<>> BY <2>7
    <3>3. QED BY <2>2, <2>6, <2>7, <3>1, <3>2 DEF EntryPlan
  <2>9. \A t \in Tasks : ~AtWork(r, t)' BY <2>2, <2>3, <2>6, ConstantsAssumption DEF AtWork
  <2>10. QED BY <2>3, <2>8, <2>9 DEF Begun
<1>7. QED BY <1>3, <1>4, <1>5, <1>6

LEMMA RequestBegins ==
  ASSUME TasksServiceOnly, Inv, NEW r \in Procs, Request(r), MayBegin(r),
         \A t \in Tasks : tasks[t].doc # "present" => Nowhere(t)
  PROVE  Begun(r)
<1>1. ~AddTaskToQueue(r) /\ ~MoveTaskToQueue(r) /\ ~ClearQueue(r)
  BY DEF AddTaskToQueue, MoveTaskToQueue, ClearQueue, Begin, TasksServiceOnly, EntryOps
<1>2. QED
  BY <1>1, EnqueueBegins, DequeueBegins, StopBegins, ArchiveBegins, DeleteBegins, ResetBegins,
     ReportBegins, RemoveBegins, OthersBegin DEF Request

-----------------------------------------------------------------------------
(* What a step changes.                                                    *)

LEMMA RequestsReadTasks ==
  ASSUME NEW r \in Procs, Request(r)
  PROVE  UNCHANGED tasks /\ (~GetNextTask(r) => UNCHANGED queues)
BY DEF Request, Enqueue, DequeueTask, StopTask, SetStatusFromCall, ArchiveTask,
     UnarchiveTask, DeleteTask, ResetTask, PublishTask, GetNextTask, AddTaskToQueue,
     RemoveTaskFromQueue, MoveTaskToQueue, RepositionTask, ClearQueue, DeleteQueue

LEMMA RequestsAreIdle ==
  ASSUME NEW r \in Procs, Request(r)
  PROVE  call[r].rest = <<>>
BY DEF Request, Begin, Enqueue, DequeueTask, StopTask, SetStatusFromCall, ArchiveTask,
     UnarchiveTask, DeleteTask, ResetTask, PublishTask, GetNextTask, AddTaskToQueue,
     RemoveTaskFromQueue, MoveTaskToQueue, RepositionTask, ClearQueue, DeleteQueue

\* A handler writes the document of the task it is about, and no other.
LEMMA OtherTasksStay ==
  ASSUME TypeOK, NEW r \in Procs, Request(r) \/ Step(r), NEW t \in Tasks, call[r].task # t
  PROVE  tasks'[t] = tasks[t]
<1> DEFINE u == call[r].task
<1>1. tasks \in [Tasks -> TaskDoc] BY DEF TypeOK
<1>2. \A current, doc : Execute(u, current, doc) => tasks'[t] = tasks[t] BY <1>1 DEF Execute
<1>3. \A doc : UpdateById(u, doc) => tasks'[t] = tasks[t] BY <1>1 DEF UpdateById
<1>4. \A status : Save(u, status) => tasks'[t] = tasks[t] BY <1>1 DEF Save
<1>5. UNCHANGED tasks => tasks'[t] = tasks[t] OBVIOUS
<1>6. DeleteDocument(r) => tasks'[t] = tasks[t] BY <1>1 DEF DeleteDocument
<1>7. CASE Request(r) BY <1>5, <1>7, RequestsReadTasks
<1>8. CASE Step(r)
  <2>1. CASE ToQueued(r) \/ Revert(r) \/ RestoreStatus(r) \/ ChangeStatus(r) \/ ToCreated(r)
             \/ SetPublished(r) \/ DetachWrite(r)
    BY <1>2, <2>1 DEF ToQueued, Revert, RestoreStatus, ChangeStatus, ToCreated, SetPublished, DetachWrite
  <2>2. CASE SetExecutionQueue(r) \/ TagTask(r) \/ FixPopped(r)
    BY <1>3, <2>2 DEF SetExecutionQueue, TagTask, FixPopped
  <2>3. CASE SetPublishing(r) \/ RollbackPublish(r) BY <1>4, <2>3 DEF SetPublishing, RollbackPublish
  <2>4. CASE CheckQueue(r) \/ PushEntry(r) \/ LogAdded(r) \/ PullFromOthers(r) \/ FindEntry(r)
             \/ PullEntry(r) \/ LogRemoved(r) \/ CleanupTask(r) \/ PublishModel(r)
             \/ ReadPopped(r) \/ MoveEntry(r) \/ DetachRead(r) \/ EmptyQueue(r) \/ DropQueue(r)
    BY <1>5, <2>4 DEF CheckQueue, PushEntry, LogAdded, PullFromOthers, FindEntry, PullEntry,
       LogRemoved, CleanupTask, PublishModel, ReadPopped, MoveEntry, DetachRead, EmptyQueue, DropQueue
  <2>5. QED BY <1>6, <1>8, <2>1, <2>2, <2>3, <2>4 DEF Step
<1>9. QED BY <1>7, <1>8

\* What a handler does next, by the step its program is at.
LEMMA StepAt ==
  ASSUME NEW r \in Procs, Step(r)
  PROVE  /\ call[r].rest # <<>>
         /\ Head(call[r].rest) = "to_queued" => ToQueued(r)
         /\ Head(call[r].rest) = "check" => CheckQueue(r)
         /\ Head(call[r].rest) = "push" => PushEntry(r)
         /\ Head(call[r].rest) = "metrics" => LogAdded(r)
         /\ Head(call[r].rest) = "revert" => Revert(r)
         /\ Head(call[r].rest) = "set_queue" => SetExecutionQueue(r)
         /\ Head(call[r].rest) = "pull_others" => PullFromOthers(r)
         /\ Head(call[r].rest) = "find" => FindEntry(r)
         /\ Head(call[r].rest) = "pull" => PullEntry(r)
         /\ Head(call[r].rest) = "reload" => LogRemoved(r)
         /\ Head(call[r].rest) = "restore" => RestoreStatus(r)
         /\ Head(call[r].rest) = "change" => ChangeStatus(r)
         /\ Head(call[r].rest) = "tag" => TagTask(r)
         /\ Head(call[r].rest) = "cleanup" => CleanupTask(r)
         /\ Head(call[r].rest) = "delete_doc" => DeleteDocument(r)
         /\ Head(call[r].rest) = "to_created" => ToCreated(r)
         /\ Head(call[r].rest) = "publishing" => SetPublishing(r)
         /\ Head(call[r].rest) = "publish_model" => PublishModel(r)
         /\ Head(call[r].rest) = "published" => SetPublished(r)
         /\ Head(call[r].rest) = "rollback" => RollbackPublish(r)
         /\ Head(call[r].rest) = "pop_read" => ReadPopped(r)
         /\ Head(call[r].rest) = "pop_fix" => FixPopped(r)
         /\ Head(call[r].rest) = "reposition" => MoveEntry(r)
         /\ Head(call[r].rest) = "detach" => DetachRead(r) \/ DetachWrite(r)
         /\ Head(call[r].rest) = "drop" => DropQueue(r)
BY DEF At, Step, ToQueued, CheckQueue, PushEntry, LogAdded, Revert,
     SetExecutionQueue, PullFromOthers, FindEntry, PullEntry, LogRemoved, RestoreStatus,
     ChangeStatus, TagTask, CleanupTask, DeleteDocument, ToCreated, SetPublishing,
     PublishModel, SetPublished, RollbackPublish, ReadPopped, FixPopped, MoveEntry,
     DetachRead, DetachWrite, EmptyQueue, DropQueue

\* The entries of a task that stays in a queue are those it had there.
LEMMA SameEntries ==
  ASSUME Inv, [Next]_vars, NEW q \in Queues, NEW t \in Tasks, Holds(q, t)
  PROVE  EntriesOf(queues'[q].entries, t) \subseteq EntriesOf(queues[q].entries, t)
<1> DEFINE s == queues[q].entries
           n == queues'[q].entries
<1>1. s \in Seq(Entry) BY DEF Inv, TypeOK, QueueDoc
<1>2. HasTask(s, t) BY DEF Holds
<1>3. n = s \/ LineStep(s, n)
  <2>1. CASE UNCHANGED queues BY <2>1
  <2>2. CASE OneQueueSteps BY <2>2 DEF OneQueueSteps
  <2>3. QED BY <2>1, <2>2, NextQueues
<1> HIDE DEF s, n
<1>4. Len(s) \in Nat /\ DOMAIN s = 1..Len(s) BY <1>1, LenProperties
<1>5. ASSUME NEW k \in DOMAIN n, n[k].task = t PROVE \E i \in DOMAIN s : s[i] = n[k]
  <2>1. CASE \E e \in Entry : ~HasTask(s, e.task) /\ n = Append(s, e)
    <3>1. PICK e \in Entry : ~HasTask(s, e.task) /\ n = Append(s, e) BY <2>1
    <3>2. n \in Seq(Entry) /\ Len(n) = Len(s) + 1 /\ (\A i \in 1..Len(s) : n[i] = s[i]) /\ n[Len(s) + 1] = e
      BY <1>1, <3>1, AppendProperties
    <3>3. DOMAIN n = 1..(Len(s) + 1) BY <3>2, LenProperties
    <3>4. k # Len(s) + 1 BY <1>2, <1>5, <3>1, <3>2
    <3>5. k \in 1..Len(s) BY <1>4, <3>3, <3>4
    <3>6. QED BY <1>4, <3>2, <3>5
  <2>2. ASSUME NEW i \in DOMAIN s, NEW j \in DOMAIN RemoveAt(s, i)
        PROVE  \E l \in DOMAIN s : s[l] = RemoveAt(s, i)[j]
    <3>1. /\ RemoveAt(s, i) \in Seq(Entry) /\ Len(RemoveAt(s, i)) = Len(s) - 1
          /\ \A l \in 1..(Len(s) - 1) : RemoveAt(s, i)[l] = IF l < i THEN s[l] ELSE s[l + 1]
      BY <1>1, RemoveAtProperties
    <3>2. DOMAIN RemoveAt(s, i) = 1..(Len(s) - 1) BY <3>1, LenProperties
    <3>3. j \in 1..(Len(s) - 1) /\ j \in 1..Len(s) /\ j + 1 \in 1..Len(s) BY <1>4, <3>2
    <3>4. RemoveAt(s, i)[j] = s[j] \/ RemoveAt(s, i)[j] = s[j + 1] BY <3>1, <3>3
    <3>5. QED BY <1>4, <3>3, <3>4
  <2>3. CASE \E i \in DOMAIN s : n = RemoveAt(s, i) BY <1>5, <2>2, <2>3
  <2>4. CASE \E i \in DOMAIN s : \E m \in 0..(Len(s) - 1) : n = Reinsert(s, i, m)
    <3>1. PICK i \in DOMAIN s, m \in 0..(Len(s) - 1) : n = Reinsert(s, i, m) BY <2>4
    <3> DEFINE o == RemoveAt(s, i)
    <3>2. /\ n \in Seq(Entry) /\ Len(n) = Len(s)
          /\ \A j \in 1..Len(s) : n[j] = IF j <= m THEN o[j] ELSE IF j = m + 1 THEN s[i] ELSE o[j - 1]
      BY <1>1, <3>1, ReinsertProperties
    <3>3. DOMAIN n = 1..Len(s) BY <3>2, LenProperties
    <3>4. o \in Seq(Entry) /\ Len(o) = Len(s) - 1 BY <1>1, RemoveAtProperties
    <3>5. DOMAIN o = 1..(Len(s) - 1) BY <3>4, LenProperties
    <3>6. \A j \in DOMAIN o : \E l \in DOMAIN s : s[l] = o[j] BY <2>2
    <3> HIDE DEF o
    <3>7. CASE k <= m
      <4>1. k \in DOMAIN o /\ n[k] = o[k] BY <1>4, <3>2, <3>3, <3>5, <3>7
      <4>2. QED BY <3>6, <4>1
    <3>8. CASE k = m + 1
      <4>1. n[k] = s[i] BY <1>4, <3>2, <3>3, <3>8
      <4>2. QED BY <4>1
    <3>9. CASE k > m + 1
      <4>1. k - 1 \in DOMAIN o /\ n[k] = o[k - 1] BY <1>4, <3>2, <3>3, <3>5, <3>9
      <4>2. QED BY <3>6, <4>1
    <3>10. QED BY <1>4, <3>3, <3>7, <3>8, <3>9
  <2>5. n # <<>> BY <1>5
  <2>6. QED BY <1>3, <1>5, <2>1, <2>3, <2>4, <2>5 DEF LineStep
<1>6. EntriesOf(n, t) \subseteq EntriesOf(s, t) BY <1>5 DEF EntriesOf
<1>7. QED BY <1>6 DEF s, n

\* What may happen to a task that a process is not at work on: its entries go, and an
\* agent that popped it and read it as stopped writes queued.
Left(t) ==
  /\ \/ tasks'[t] = tasks[t]
     \/ tasks[t].doc # "absent" /\ tasks'[t] = [tasks[t] EXCEPT !.status = queued]
  /\ \A q \in Queues : Holds(q, t)' =>
       Holds(q, t) /\ EntriesOf(queues'[q].entries, t) \subseteq EntriesOf(queues[q].entries, t)

LEMMA Bystander ==
  ASSUME Inv, NEW r \in Procs, EntryPlan(call[r]), Request(r) \/ Step(r), NEW t \in Tasks, ~AtWork(r, t)
  PROVE  Left(t)
<1>1. TypeOK BY DEF Inv
<1>2. ASSUME NEW q \in Queues, Holds(q, t)' PROVE Holds(q, t)
  <2> SUFFICES ASSUME ~Holds(q, t) PROVE FALSE OBVIOUS
  <2>1. PushEntry(r) /\ t = call[r].task BY <1>2, OnlyPushBrings
  <2>2. call[r].op = "next" BY <2>1 DEF AtWork
  <2>3. call[r].rest \in {<<"pop_read">>, <<"pop_fix">>} BY <2>2 DEF EntryPlan
  <2>4. QED BY <2>1, <2>3 DEF PushEntry, At
<1>3. [Next]_vars BY DEF Next
<1>4. \A q \in Queues : Holds(q, t)' => 
        Holds(q, t) /\ EntriesOf(queues'[q].entries, t) \subseteq EntriesOf(queues[q].entries, t)
  BY <1>2, <1>3, SameEntries
<1>5. CASE call[r].task # t BY <1>1, <1>4, <1>5, OtherTasksStay DEF Left
<1>6. CASE Request(r) BY <1>4, <1>6, RequestsReadTasks DEF Left
<1>7. CASE call[r].task = t /\ Step(r)
  <2>1. call[r].op = "next" BY <1>7 DEF AtWork
  <2>2. call[r].rest = <<"pop_read">> \/ call[r].rest = <<"pop_fix">> BY <2>1 DEF EntryPlan
  <2>3. ReadPopped(r) \/ FixPopped(r) BY <1>7, <2>2, StepAt
  <2>4. \/ tasks'[t] = tasks[t]
        \/ tasks[t].doc # "absent" /\ tasks'[t] = [tasks[t] EXCEPT !.status = queued]
    BY <1>1, <1>7, <2>3 DEF ReadPopped, FixPopped, UpdateById, TypeOK
  <2>5. QED BY <1>4, <2>4 DEF Left
<1>8. QED BY <1>5, <1>6, <1>7

LEMMA LeftKeeps ==
  ASSUME TypeOK, NEW t \in Tasks, Left(t)
  PROVE  /\ Nowhere(t) => Nowhere(t)'
         /\ Faithful(t) => Faithful(t)'
         /\ tasks'[t].doc = tasks[t].doc /\ tasks'[t].queue = tasks[t].queue
         /\ tasks[t].status = queued => tasks'[t].status = queued
<1>1. tasks[t] \in TaskDoc BY DEF TypeOK
<1>2. /\ tasks'[t].doc = tasks[t].doc /\ tasks'[t].queue = tasks[t].queue
      /\ tasks[t].status = queued => tasks'[t].status = queued
  BY <1>1 DEF Left, TaskDoc
<1>3. Nowhere(t) => Nowhere(t)' BY DEF Left, Nowhere
<1>4. Faithful(t) => Faithful(t)' BY <1>2 DEF Left, Faithful
<1>5. QED BY <1>2, <1>3, <1>4

\* The handler at work on a task finds it as it left it, but for what agents popped.
LEMMA LeftPhase ==
  ASSUME Inv, NEW p \in Procs, NEW t \in Tasks, Left(t), call'[p] = call[p],
         Phase(call[p], t), EntryPlan(call[p])
  PROVE  Phase(call[p], t)'
<1> DEFINE c == call[p]
<1>1. TypeOK /\ c \in Call BY CallFacts DEF Inv
<1>2. /\ Nowhere(t) => Nowhere(t)'
      /\ Faithful(t) => Faithful(t)'
      /\ tasks'[t].doc = tasks[t].doc /\ tasks'[t].queue = tasks[t].queue
      /\ tasks[t].status = queued => tasks'[t].status = queued
  BY <1>1, LeftKeeps
<1>3. \A q \in Queues : Holds(q, t)' => Holds(q, t) BY DEF Left
<1>4. EnqueuePhase(c, t) => EnqueuePhase(c, t)' BY <1>2, <1>3 DEF EnqueuePhase
<1>5. c.op \in Removers /\ RemovePhase(c, t) => RemovePhase(c, t)'
  <2> SUFFICES ASSUME c.op \in Removers, RemovePhase(c, t) PROVE RemovePhase(c, t)' OBVIOUS
  <2>1. ASSUME Head(c.rest) = "pull", Holds(c.from, t)'
        PROVE  EntriesOf(queues'[c.from].entries, t) \subseteq c.found
    <3>1. c.from \in Queues BY <2>1 DEF RemovePhase
    <3>2. Holds(c.from, t) /\ EntriesOf(queues'[c.from].entries, t) \subseteq EntriesOf(queues[c.from].entries, t)
      BY <2>1, <3>1 DEF Left
    <3>3. QED BY <2>1, <3>2 DEF RemovePhase
  <2>2. QED BY <1>2, <2>1 DEF RemovePhase
<1>6. QED BY <1>2, <1>4, <1>5 DEF Phase
-----------------------------------------------------------------------------
(* A handler goes on.                                                      *)

\* It is at work on no task it was not at work on before, and on those for the same end.
LEMMA Onward ==
  ASSUME Inv, NEW r \in Procs, Step(r), EntryPlan(call[r]), NEW t \in Tasks, AtWork(r, t)'
  PROVE  AtWork(r, t) /\ call'[r].op = call[r].op
<1>1. call[r].rest # <<>> BY StepAt
<1>2. call[r].op # "move" BY <1>1, EntryOpsAre DEF EntryPlan
<1>3. Keeps(r) BY <1>2, StepKeeps
<1>4. call'[r] # Idle BY ConstantsAssumption DEF AtWork, Idle
<1>5. Carries(call[r], call'[r]) BY <1>3, <1>4 DEF Keeps
<1>6. QED BY <1>5, ConstantsAssumption DEF Carries, AtWork

\* What is left of a program that has done with the entry, whatever happens.
GoesOn(r) == call'[r] = Idle \/ (call'[r].rest # <<>> /\ Removed(call'[r]))

LEMMA GoesOnTo ==
  ASSUME TypeOK, NEW r \in Procs, NEW d \in Call, NEW rest \in Seq(AfterRemoval), Goto(r, d, rest)
  PROVE  GoesOn(r)
BY GotoIs DEF GoesOn, Removed

LEMMA RemovedGoesOn ==
  ASSUME Inv, NEW r \in Procs, Step(r), Removed(call[r])
  PROVE  GoesOn(r)
<1> DEFINE c == call[r]
<1>1. TypeOK /\ c \in Call BY CallFacts DEF Inv
<1>2. c.rest # <<>> /\ c.rest \in Seq(AfterRemoval) BY StepAt DEF Removed
<1>3. Head(c.rest) \in AfterRemoval /\ Tail(c.rest) \in Seq(AfterRemoval) BY <1>2, HeadAfterRemoval
<1>4. Continue(r) => GoesOn(r) BY <1>1, <1>3, GoesOnTo DEF Continue
<1>5. Done(r) => GoesOn(r)
  <2>1. Idle \in Call BY IdleOK
  <2>2. QED BY <1>1, <2>1, GotoIs DEF Done, GoesOn
<1>6. PublishFails(r) => GoesOn(r)
  <2>1. <<"rollback">> \in Seq(AfterRemoval) BY DEF AfterRemoval
  <2>2. QED BY <1>1, <1>5, <2>1, GoesOnTo DEF PublishFails
<1>7. ASSUME NEW d \in Call, d.rest = c.rest, DetachNext(r, d) PROVE GoesOn(r)
  BY <1>1, <1>2, <1>3, <1>7, GoesOnTo DEF DetachNext
<1>8. CASE PullFromOthers(r)
  <2>1. PICK q \in c.todo : IF c.todo = {q} THEN Continue(r) ELSE call' = [call EXCEPT ![r].todo = @ \ {q}]
    BY <1>8 DEF PullFromOthers
  <2>2. c.todo # {q} => call'[r].rest = c.rest BY <1>1, <2>1 DEF TypeOK, Call
  <2>3. QED BY <1>2, <1>4, <2>1, <2>2 DEF GoesOn, Removed
<1>9. CASE LogRemoved(r) \/ RestoreStatus(r) \/ ChangeStatus(r) \/ ToCreated(r)
           \/ CleanupTask(r) \/ TagTask(r) \/ DeleteDocument(r)
  BY <1>4, <1>5, <1>9 DEF LogRemoved, RestoreStatus, ChangeStatus, ToCreated, CleanupTask, TagTask, DeleteDocument
<1>10. CASE SetPublishing(r) \/ PublishModel(r) \/ SetPublished(r) \/ RollbackPublish(r)
  BY <1>4, <1>5, <1>6, <1>10 DEF SetPublishing, PublishModel, SetPublished, RollbackPublish
<1>11. CASE DetachRead(r)
  <2>1. PICK t \in c.work :
          LET rest == [c EXCEPT !.work = @ \ {t}] IN
          IF Visible(t) /\ tasks[t].queue = c.from
          THEN Goto(r, [rest EXCEPT !.task = t, !.expect = tasks[t].status,
                          !.new = RestoredStatus(tasks[t], NoStatus, NoStatus)], c.rest)
          ELSE DetachNext(r, rest)
    BY <1>11 DEF DetachRead
  <2> DEFINE d == [c EXCEPT !.work = @ \ {t}]
             f == [d EXCEPT !.task = t, !.expect = tasks[t].status,
                            !.new = RestoredStatus(tasks[t], NoStatus, NoStatus)]
  <2>2. d \in Call /\ d.rest = c.rest BY <1>1 DEF Call
  <2>3. f \in Call
    <3>1. t \in Tasks BY <1>1 DEF Call
    <3>2. tasks[t] \in TaskDoc /\ tasks[t].status \in Statuses BY <1>1, <3>1 DEF TypeOK, TaskDoc
    <3>3. RestoredStatus(tasks[t], NoStatus, NoStatus) \in Statuses BY <3>2, RestoredStatusType
    <3>4. QED BY <1>1, <3>1, <3>2, <3>3 DEF Call
  <2>4. Goto(r, f, c.rest) \/ DetachNext(r, d) BY <2>1
  <2> HIDE DEF d, f
  <2>5. QED BY <1>1, <1>2, <1>7, <2>2, <2>3, <2>4, GoesOnTo
<1>12. CASE DetachWrite(r)
  <2> DEFINE d == [c EXCEPT !.task = NoTask]
  <2>1. DetachNext(r, d) BY <1>12 DEF DetachWrite
  <2>2. d \in Call /\ d.rest = c.rest BY <1>1 DEF Call
  <2> HIDE DEF d
  <2>3. QED BY <1>7, <2>1, <2>2
<1>13. QED BY <1>3, <1>8, <1>9, <1>10, <1>11, <1>12, StepAt DEF AfterRemoval

\* The pull, and a search that finds nothing, leave that too.
LEMMA PullGoesOn ==
  ASSUME Inv, NEW r \in Procs, PullEntry(r), AtPull(call[r])
  PROVE  GoesOn(r)
<1> DEFINE c == call[r]
           d == [c EXCEPT !.found = {}, !.task = IF c.op = "remove_update" THEN NoTask ELSE @]
<1>1. TypeOK /\ c \in Call BY CallFacts DEF Inv
<1>2. Tail(c.rest) \in Seq(AfterRemoval) BY DEF AtPull
<1>3. <<"reload">> \in Seq(AfterRemoval) BY DEF AfterRemoval
<1>4. PICK rest \in {<<"reload">>, Tail(c.rest)} : Goto(r, d, rest) BY DEF PullEntry
<1>5. d \in Call BY <1>1 DEF Call
<1> HIDE DEF d
<1>6. QED BY <1>1, <1>2, <1>3, <1>4, <1>5, GoesOnTo

LEMMA FindGoesOn ==
  ASSUME Inv, NEW r \in Procs, FindEntry(r), AtFind(call[r])
  PROVE  \/ /\ Holds(call[r].from, call[r].task)
            /\ AtPull(call'[r]) /\ Head(call'[r].rest) = "pull"
            /\ call'[r].from = call[r].from /\ call'[r].task = call[r].task
            /\ call'[r].found = EntriesOf(queues[call[r].from].entries, call[r].task)
            /\ call'[r].op = call[r].op
         \/ ~Holds(call[r].from, call[r].task) /\ GoesOn(r)
<1> DEFINE c == call[r]
           E == EntriesOf(queues[c.from].entries, c.task)
           d == [c EXCEPT !.found = E]
<1>1. TypeOK /\ c \in Call BY CallFacts DEF Inv
<1>2. /\ c.rest # <<>> /\ Head(c.rest) = "find"
      /\ Tail(c.rest) # <<>> /\ Head(Tail(c.rest)) = "pull"
      /\ Tail(Tail(c.rest)) \in Seq(AfterRemoval)
  BY DEF AtFind
<1>3. \/ Holds(c.from, c.task) /\ Goto(r, d, Tail(c.rest))
      \/ ~Holds(c.from, c.task) /\ Goto(r, c, SubSeq(c.rest, Len(RemoveTask) + 1, Len(c.rest)))
      \/ ~Holds(c.from, c.task) /\ Done(r)
  BY DEF FindEntry
<1>4. CASE Goto(r, d, Tail(c.rest)) /\ Holds(c.from, c.task)
  <2>1. call'[r] = [d EXCEPT !.rest = Tail(c.rest)] BY <1>1, <1>2, <1>4 DEF Goto, TypeOK
  <2>2. /\ call'[r].rest = Tail(c.rest) /\ call'[r].from = c.from /\ call'[r].task = c.task
        /\ call'[r].found = E /\ call'[r].op = c.op
    BY <1>1, <2>1 DEF Call
  <2>3. QED BY <1>2, <1>4, <2>2 DEF AtPull
<1>5. CASE Goto(r, c, SubSeq(c.rest, Len(RemoveTask) + 1, Len(c.rest)))
  <2> DEFINE u == SubSeq(c.rest, Len(RemoveTask) + 1, Len(c.rest))
             v == Tail(Tail(c.rest))
  <2>1. Len(RemoveTask) = 3 BY DEF RemoveTask
  <2>2. c.rest \in Seq(Steps) /\ Len(c.rest) \in Nat BY <1>1, LenProperties DEF Call
  <2>3. u = SubSeq(c.rest, 4, Len(c.rest)) BY <2>1
  <2>4. u \in Seq(AfterRemoval)
    <3>1. /\ Tail(c.rest) \in Seq(Steps) /\ Len(Tail(c.rest)) = Len(c.rest) - 1
          /\ \A i \in 1..Len(Tail(c.rest)) : Tail(c.rest)[i] = c.rest[i + 1]
      BY <1>2, <2>2, HeadTailProperties
    <3>2. /\ v \in Seq(Steps) /\ Len(v) = Len(Tail(c.rest)) - 1
          /\ \A i \in 1..Len(v) : v[i] = Tail(c.rest)[i + 1]
      BY <1>2, <3>1, HeadTailProperties
    <3>3. v \in Seq(AfterRemoval) BY <1>2
    <3>4. Len(v) \in Nat /\ \A i \in 1..Len(v) : v[i] \in AfterRemoval BY <3>3, LenProperties, ElementOfSeq
    <3> HIDE DEF v, u
    <3>5. /\ u \in Seq(Steps) /\ Len(u) = IF 4 <= Len(c.rest) THEN Len(c.rest) - 4 + 1 ELSE 0
          /\ \A i \in 1..(Len(c.rest) - 4 + 1) : u[i] = c.rest[4 + i - 1]
      BY <2>2, <2>3
    <3>6. ASSUME NEW i \in 1..Len(u) PROVE u[i] \in AfterRemoval
      <4>1. u[i] = c.rest[4 + i - 1] BY <2>2, <3>5
      <4>2. i + 1 \in 1..Len(v) BY <2>2, <3>1, <3>2, <3>4, <3>5
      <4>3. v[i + 1] = Tail(c.rest)[i + 1 + 1] BY <3>2, <4>2
      <4>4. i + 1 + 1 \in 1..Len(Tail(c.rest)) BY <2>2, <3>1, <3>2, <3>4, <4>2
      <4>5. Tail(c.rest)[i + 1 + 1] = c.rest[i + 1 + 1 + 1] BY <3>1, <4>4
      <4>6. 4 + i - 1 = i + 1 + 1 + 1 OBVIOUS
      <4>7. QED BY <3>4, <4>1, <4>2, <4>3, <4>5, <4>6
    <3>7. QED BY <3>5, <3>6, SeqDef
  <2>5. ~Holds(c.from, c.task) \/ Done(r) \/ Goto(r, d, Tail(c.rest)) BY <1>3
  <2> HIDE DEF u
  <2>6. GoesOn(r) BY <1>1, <1>5, <2>4, GoesOnTo DEF u
  <2>7. QED BY <1>3, <1>4, <2>6
<1>6. CASE Done(r) /\ ~Holds(c.from, c.task)
  <2>1. Idle \in Call BY IdleOK
  <2>2. QED BY <1>1, <1>6, <2>1, GotoIs DEF Done, GoesOn
<1>7. QED BY <1>3, <1>4, <1>5, <1>6
-----------------------------------------------------------------------------
(* The handler at work on a task.                                          *)

LEMMA PullLeavesNone ==
  ASSUME NEW s \in Seq(Entry), Distinct(s), NEW t, NEW S,
         \A e \in S : e.task = t, EntriesOf(s, t) \subseteq S
  PROVE  ~HasTask(PullOne(s, S), t)
<1>1. \A i \in DOMAIN s : s[i] \in S <=> s[i].task = t BY DEF EntriesOf
<1>2. CASE \E i \in DOMAIN s : s[i] \in S
  <2> DEFINE i == CHOOSE j \in DOMAIN s : s[j] \in S
  <2>1. i \in DOMAIN s /\ s[i] \in S BY <1>2
  <2>2. PullOne(s, S) = RemoveAt(s, i) BY <1>2 DEF PullOne
  <2> HIDE DEF i
  <2>3. s[i].task = t BY <1>1, <2>1
  <2>4. \A j \in DOMAIN RemoveAt(s, i) : RemoveAt(s, i)[j].task # s[i].task BY <2>1, RemoveAtDistinct
  <2>5. QED BY <2>2, <2>3, <2>4 DEF HasTask
<1>3. CASE ~ \E i \in DOMAIN s : s[i] \in S
  <2>1. PullOne(s, S) = s BY <1>3 DEF PullOne
  <2>2. QED BY <1>1, <1>3, <2>1 DEF HasTask
<1>4. QED BY <1>2, <1>3

\* What the invariant says of a task once the step of the handler at work on it is made.
Worked(r, t) ==
  /\ EntryPlan(call'[r])
  /\ tasks'[t].doc # "present" => Nowhere(t)'
  /\ ~AtWork(r, t)' => Faithful(t)'
  /\ AtWork(r, t)' => Phase(call[r], t)'

LEMMA RemovedWorked ==
  ASSUME Inv, NEW r \in Procs, Step(r), EntryPlan(call[r]), call[r].op \in Removers,
         NEW t \in Tasks, Nowhere(t)', GoesOn(r)
  PROVE  Worked(r, t)
<1>1. Faithful(t)' BY DEF Nowhere, Faithful
<1>2. CASE call'[r] = Idle
  <2>1. ~AtWork(r, t)' BY <1>2, ConstantsAssumption DEF AtWork, Idle
  <2>2. QED BY <1>1, <1>2, <2>1, IdlePlan DEF Worked
<1>3. CASE call'[r] # Idle
  <2>1. call'[r].rest # <<>> /\ Removed(call'[r]) BY <1>3 DEF GoesOn
  <2>2. call'[r].op = call[r].op
    <3>1. call[r].rest # <<>> BY StepAt
    <3>2. call[r].op # "move" BY EntryOpsAre
    <3>3. QED BY <1>3, <3>2, StepKeeps DEF Keeps, Carries
  <2>3. EntryPlan(call'[r]) BY <2>1, <2>2, PhaseOfRemover
  <2>4. Head(call'[r].rest) \notin {"find", "pull"} BY <2>1, HeadAfterRemoval DEF Removed, AfterRemoval
  <2>5. RemovePhase(call[r], t)' BY <2>4 DEF RemovePhase
  <2>6. Phase(call[r], t)' BY <2>2, <2>5, EntryOpsAre DEF Phase
  <2>7. QED BY <1>1, <2>3, <2>6 DEF Worked
<1>4. QED BY <1>2, <1>3

\* The entry goes when it is pulled, the one of the queue the task names is the only one,
\* and nothing the handler does after that puts the task into a queue.
LEMMA RemoverWorks ==
  ASSUME Inv, NoDuplicateEntries, NEW r \in Procs, Step(r), EntryPlan(call[r]),
         call[r].op \in Removers, NEW t \in Tasks, Phase(call[r], t),
         tasks[t].doc # "present" => Nowhere(t)
  PROVE  Worked(r, t)
<1> DEFINE c == call[r]
<1>1. TypeOK /\ c \in Call BY CallFacts DEF Inv
<1>2. RemovePhase(c, t) /\ c.rest # <<>> BY StepAt DEF Phase
<1>3. AtFind(c) \/ AtPull(c) \/ Removed(c) BY EntryOpsAre DEF EntryPlan
<1>4. ~PushEntry(r) => \A q \in Queues : Holds(q, t)' => Holds(q, t) BY OnlyPushBrings
<1>5. ASSUME Head(c.rest) # "push" PROVE Nowhere(t) => Nowhere(t)'
  BY <1>4, <1>5 DEF Nowhere, PushEntry, At
<1>6. CASE Removed(c)
  <2>1. Head(c.rest) \in AfterRemoval BY <1>2, <1>6, HeadAfterRemoval DEF Removed
  <2>2. Nowhere(t) BY <1>2, <2>1 DEF RemovePhase, AfterRemoval
  <2>3. Nowhere(t)' BY <1>5, <2>1, <2>2 DEF AfterRemoval
  <2>4. QED BY <1>6, <2>3, RemovedGoesOn, RemovedWorked
<1>7. CASE AtPull(c)
  <2>1. Head(c.rest) = "pull" BY <1>7 DEF AtPull
  <2>2. PullEntry(r) BY <2>1, StepAt
  <2>3. /\ Faithful(t) /\ c.from \in Queues /\ c.from = tasks[t].queue /\ c.task = t
        /\ \A e \in c.found : e.task = t
        /\ Holds(c.from, t) => EntriesOf(queues[c.from].entries, t) \subseteq c.found
    BY <1>2, <2>1 DEF RemovePhase
  <2>4. \A q \in Queues : q = c.from => ~Holds(q, t)'
    <3>1. CASE Holds(c.from, t)
      <4>1. queues' = [queues EXCEPT ![c.from].entries = PullOne(queues[c.from].entries, c.found)]
        BY <2>2, <2>3, <3>1 DEF PullEntry
      <4>2. queues'[c.from].entries = PullOne(queues[c.from].entries, c.found)
        BY <1>1, <2>3, <4>1 DEF TypeOK, QueueDoc
      <4>3. queues[c.from].entries \in Seq(Entry) BY <1>1, <2>3 DEF TypeOK, QueueDoc
      <4>4. Distinct(queues[c.from].entries) BY <2>3 DEF NoDuplicateEntries, Distinct
      <4>5. ~HasTask(queues'[c.from].entries, t) BY <2>3, <3>1, <4>2, <4>3, <4>4, PullLeavesNone
      <4>6. QED BY <4>5 DEF Holds
    <3>2. CASE ~Holds(c.from, t) BY <1>4, <2>1, <3>2 DEF PushEntry, At
    <3>3. QED BY <3>1, <3>2
  <2>5. Nowhere(t)' BY <1>4, <2>1, <2>3, <2>4 DEF Nowhere, Faithful, PushEntry, At
  <2>6. QED BY <1>7, <2>2, <2>5, PullGoesOn, RemovedWorked
<1>8. CASE AtFind(c)
  <2>1. Head(c.rest) = "find" BY <1>8 DEF AtFind
  <2>2. FindEntry(r) BY <2>1, StepAt
  <2>3. Faithful(t) /\ c.from \in Queues /\ c.from = tasks[t].queue /\ c.task = t
    BY <1>2, <2>1 DEF RemovePhase
  <2>4. UNCHANGED <<tasks, queues>> BY <2>2 DEF FindEntry
  <2>5. CASE ~Holds(c.from, c.task) /\ GoesOn(r)
    <3>1. Nowhere(t) BY <2>3, <2>5 DEF Nowhere, Faithful
    <3>2. Nowhere(t)' BY <1>5, <2>1, <3>1
    <3>3. QED BY <2>5, <3>2, RemovedWorked
  <2>6. CASE /\ AtPull(call'[r]) /\ Head(call'[r].rest) = "pull"
             /\ call'[r].from = c.from /\ call'[r].task = c.task
             /\ call'[r].found = EntriesOf(queues[c.from].entries, c.task)
             /\ call'[r].op = c.op
    <3>1. Faithful(t)' /\ (Nowhere(t) => Nowhere(t)') BY <2>3, <2>4 DEF Faithful, Nowhere, Holds
    <3>2. \A e \in call'[r].found : e.task = t BY <2>3, <2>6, EntriesOfAre
    <3>3. RemovePhase(call[r], t)' BY <2>3, <2>4, <2>6, <3>1, <3>2 DEF RemovePhase
    <3>4. Phase(call[r], t)' BY <2>6, <3>3, EntryOpsAre DEF Phase
    <3>5. EntryPlan(call'[r]) BY <2>6, PhaseOfRemover DEF AtPull
    <3>6. QED BY <2>4, <3>1, <3>4, <3>5 DEF Worked
  <2>7. QED BY <1>8, <2>2, <2>5, <2>6, FindGoesOn
<1>9. QED BY <1>3, <1>6, <1>7, <1>8
\* An enqueue goes on with the next step of its program, or takes the status back.
Advances(r) == call'[r] = IF Tail(call[r].rest) = <<>> THEN Idle
                          ELSE [call[r] EXCEPT !.rest = Tail(call[r].rest)]
TakesBack(r) == call'[r] = [call[r] EXCEPT !.rest = <<"revert">>]

LEMMA EnqueueMoves ==
  ASSUME TypeOK, NEW r \in Procs, call[r].op = "enqueue"
  PROVE  /\ Continue(r) => Advances(r)
         /\ AddFails(r) => TakesBack(r)
         /\ Done(r) => call'[r] = Idle
<1>1. <<"revert">> # <<>> OBVIOUS
<1>2. QED BY <1>1 DEF Continue, AddFails, Done, Goto, Advances, TakesBack, TypeOK

LEMMA RestingWorked ==
  ASSUME NEW r \in Procs, NEW t \in Tasks, call'[r] = Idle, Faithful(t)', tasks'[t].doc = "present"
  PROVE  Worked(r, t)
<1>1. ~AtWork(r, t)' BY ConstantsAssumption DEF AtWork, Idle
<1>2. QED BY <1>1, IdlePlan DEF Worked

\* What the enqueue that has not ended must show.
LEMMA EnqueueWorked ==
  ASSUME NEW r \in Procs, NEW t \in Tasks, EntryPlan(call'[r]), call'[r].op = "enqueue",
         call'[r].task = t, EnqueuePhase(call[r], t)', tasks'[t].doc = "present"
  PROVE  Worked(r, t)
<1>1. AtWork(r, t)' BY DEF AtWork
<1>2. Phase(call[r], t)' BY EntryOpsAre DEF Phase
<1>3. QED BY <1>1, <1>2 DEF Worked

\* The plan holds of the program that is left.
LEMMA AdvancesPlanned ==
  ASSUME TypeOK, NEW r \in Procs, EntryPlan(call[r]), call[r].op = "enqueue",
         call[r].rest # <<"revert">>, Head(call[r].rest) # "pull_others",
         Advances(r), Tail(call[r].rest) # <<>>
  PROVE  /\ EntryPlan(call'[r])
         /\ call'[r].rest = Tail(call[r].rest) /\ call'[r].op = "enqueue"
         /\ call'[r].task = call[r].task /\ call'[r].to = call[r].to
         /\ call'[r].todo = Queues \ {call[r].to} /\ call'[r].expect = call[r].expect
<1> DEFINE c == call[r]
<1>1. c \in Call BY DEF TypeOK
<1>2. /\ call'[r].rest = Tail(c.rest) /\ call'[r].op = c.op /\ call'[r].task = c.task
      /\ call'[r].to = c.to /\ call'[r].todo = c.todo /\ call'[r].expect = c.expect
      /\ call'[r].work = c.work
  BY <1>1 DEF Advances, Call
<1>3. Tail(c.rest) \in (IF Queues = {c.to} THEN NotVisiting ELSE Visiting) BY EnqueueOrder
<1>4. "enqueue" \in EntryOps /\ "enqueue" \notin Removers BY EntryOpsAre
<1>5. c.todo = Queues \ {c.to} /\ c.to \in Queues /\ c.task \in Tasks /\ c.work = {} BY DEF EntryPlan
<1>6. EntryPlan(call'[r]) BY <1>2, <1>3, <1>4, <1>5 DEF EntryPlan
<1>7. QED BY <1>2, <1>5, <1>6

LEMMA TakesBackPlanned ==
  ASSUME TypeOK, NEW r \in Procs, EntryPlan(call[r]), call[r].op = "enqueue",
         call[r].rest # <<"revert">>, Head(call[r].rest) # "pull_others", TakesBack(r)
  PROVE  /\ EntryPlan(call'[r])
         /\ call'[r].rest = <<"revert">> /\ Head(call'[r].rest) = "revert" /\ call'[r].op = "enqueue"
         /\ call'[r].task = call[r].task /\ call'[r].expect = call[r].expect
<1> DEFINE c == call[r]
<1>1. c \in Call BY DEF TypeOK
<1>2. /\ call'[r].rest = <<"revert">> /\ call'[r].op = c.op /\ call'[r].task = c.task
      /\ call'[r].to = c.to /\ call'[r].todo = c.todo /\ call'[r].expect = c.expect
      /\ call'[r].work = c.work
  BY <1>1 DEF TakesBack, Call
<1>3. "enqueue" \in EntryOps /\ "enqueue" \notin Removers BY EntryOpsAre
<1>4. c.todo = Queues \ {c.to} /\ c.to \in Queues /\ c.task \in Tasks /\ c.work = {} BY DEF EntryPlan
<1>5. Head(<<"revert">>) = "revert" /\ <<"revert">> # <<>> OBVIOUS
<1>6. EntryPlan(call'[r]) BY <1>2, <1>3, <1>4, <1>5 DEF EntryPlan
<1>7. QED BY <1>2, <1>5, <1>6

LEMMA EnqueueWorks ==
  ASSUME Inv, NoDuplicateEntries, ~MetricsMayFail, NEW r \in Procs, Step(r), EntryPlan(call[r]),
         call[r].op = "enqueue", NEW t \in Tasks, call[r].task = t, Phase(call[r], t)
  PROVE  Worked(r, t)
<1> DEFINE c == call[r]
<1>1. TypeOK /\ c \in Call BY CallFacts DEF Inv
<1>2. EnqueuePhase(c, t) /\ tasks[t].doc = "present" BY DEF Phase, EnqueuePhase
<1>3. /\ Continue(r) => Advances(r)
      /\ AddFails(r) => TakesBack(r)
      /\ Done(r) => call'[r] = Idle
  BY <1>1, EnqueueMoves
<1>4. tasks \in [Tasks -> TaskDoc] /\ tasks[t] \in TaskDoc BY <1>1 DEF TypeOK
<1>5. ASSUME Head(c.rest) # "push", NEW q \in Queues, Holds(q, t)' PROVE Holds(q, t)
  BY <1>5, OnlyPushBrings DEF PushEntry, At
<1>6. CASE c.rest = <<"revert">>
  <2>1. Head(c.rest) = "revert" BY <1>6
  <2>2. Faithful(t) /\ tasks[t].status = queued /\ (c.expect = queued \/ Nowhere(t))
    BY <1>2, <2>1 DEF EnqueuePhase
  <2>3. Revert(r) BY <2>1, StepAt
  <2>4. tasks' = [tasks EXCEPT ![t] = [tasks[t] EXCEPT !.status = c.expect, !.enqueue_status = NoStatus]]
    BY <1>2, <2>2, <2>3 DEF Revert, Execute, Matches
  <2>5. /\ tasks'[t].status = c.expect /\ tasks'[t].queue = tasks[t].queue
        /\ tasks'[t].doc = tasks[t].doc
    BY <1>4, <2>4 DEF TaskDoc
  <2>6. Faithful(t)' BY <1>5, <2>1, <2>2, <2>5 DEF Faithful, Nowhere
  <2>7. call'[r] = Idle BY <1>3, <2>3 DEF Revert
  <2>8. QED BY <1>2, <2>5, <2>6, <2>7, RestingWorked
<1>7. ASSUME c.rest # <<"revert">>
      PROVE  /\ Head(c.rest) \in {"to_queued", "check", "push", "metrics", "set_queue", "pull_others"}
             /\ Head(c.rest) = "to_queued" => Head(Tail(c.rest)) = "check"
             /\ Head(c.rest) = "check" => Head(Tail(c.rest)) = "push"
             /\ Head(c.rest) = "push" => Head(Tail(c.rest)) = "metrics"
             /\ Head(c.rest) = "metrics" => Head(Tail(c.rest)) = "set_queue"
             /\ Head(c.rest) = "set_queue" => IF Queues = {c.to} THEN Tail(c.rest) = <<>>
                                              ELSE Head(Tail(c.rest)) = "pull_others"
             /\ Head(c.rest) = "pull_others" => Tail(c.rest) = <<>>
             /\ \/ Tail(c.rest) = <<>>
                \/ Tail(c.rest) \in (IF Queues = {c.to} THEN NotVisiting ELSE Visiting)
  BY <1>7, EnqueueOrder
<1>8. ASSUME c.rest # <<"revert">>, Head(c.rest) \in {"to_queued", "check", "push", "metrics"}
      PROVE  Tail(c.rest) # <<>>
  <2>1. c.rest \in Visiting \cup NotVisiting BY <1>8 DEF EntryPlan
  <2>2. CASE c.rest \in Visiting
    <3>1. Tail(c.rest) \in Visiting BY <1>8, <2>2, VisitingSteps
    <3>2. QED BY <3>1, VisitingSteps
  <2>3. CASE c.rest \in NotVisiting
    <3>1. Tail(c.rest) \in NotVisiting BY <1>8, <2>3, NotVisitingSteps
    <3>2. QED BY <3>1, NotVisitingSteps
  <2>4. QED BY <2>1, <2>2, <2>3
<1>9. ASSUME c.rest # <<"revert">>, Head(c.rest) # "pull_others", Advances(r), Tail(c.rest) # <<>>
      PROVE  /\ EntryPlan(call'[r])
             /\ call'[r].rest = Tail(c.rest) /\ call'[r].op = "enqueue"
             /\ call'[r].task = t /\ call'[r].to = c.to
             /\ call'[r].todo = Queues \ {c.to} /\ call'[r].expect = c.expect
  BY <1>1, <1>9, AdvancesPlanned
<1>10. ASSUME c.rest # <<"revert">>, Head(c.rest) # "pull_others", TakesBack(r)
       PROVE  /\ EntryPlan(call'[r])
              /\ Head(call'[r].rest) = "revert" /\ call'[r].op = "enqueue"
              /\ call'[r].task = t /\ call'[r].expect = c.expect
  BY <1>1, <1>10, TakesBackPlanned
<1>11. CASE c.rest # <<"revert">> /\ Head(c.rest) = "to_queued"
  <2>1. ToQueued(r) /\ Faithful(t) BY <1>2, <1>11, StepAt DEF EnqueuePhase
  <2>2. CASE ~Matches(t, c.expect)
    <3>1. tasks' = tasks /\ UNCHANGED queues /\ call'[r] = Idle BY <1>3, <2>1, <2>2 DEF ToQueued, Execute
    <3>2. Faithful(t)' BY <2>1, <3>1 DEF Faithful, Holds
    <3>3. QED BY <1>2, <3>1, <3>2, RestingWorked
  <2>3. CASE Matches(t, c.expect)
    <3>1. /\ tasks' = [tasks EXCEPT ![t] = [tasks[t] EXCEPT !.status = queued, !.enqueue_status = c.enqueue_status]]
          /\ UNCHANGED queues /\ Advances(r)
      BY <1>3, <2>1, <2>3 DEF ToQueued, Execute
    <3>2. /\ tasks'[t].status = queued /\ tasks'[t].queue = tasks[t].queue
          /\ tasks'[t].doc = tasks[t].doc
      BY <1>4, <3>1 DEF TaskDoc
    <3>3. tasks[t].status = c.expect BY <2>3 DEF Matches
    <3>4. \A q \in Queues : Holds(q, t)' => Holds(q, t) BY <1>5, <1>11
    <3>5. Faithful(t)' BY <2>1, <3>2, <3>4 DEF Faithful
    <3>6. c.expect = queued \/ Nowhere(t)' BY <2>1, <3>3, <3>4 DEF Faithful, Nowhere
    <3>7. /\ EntryPlan(call'[r]) /\ Head(call'[r].rest) = "check" /\ call'[r].op = "enqueue"
          /\ call'[r].task = t /\ call'[r].expect = c.expect
      BY <1>7, <1>8, <1>9, <1>11, <3>1
    <3>8. EnqueuePhase(call[r], t)' BY <1>2, <3>2, <3>5, <3>6, <3>7 DEF EnqueuePhase
    <3>9. QED BY <1>2, <3>2, <3>7, <3>8, EnqueueWorked
  <2>4. QED BY <2>2, <2>3
<1>12. ASSUME c.rest # <<"revert">>, Head(c.rest) # "pull_others", TakesBack(r), UNCHANGED <<tasks, queues>>,
              Faithful(t), tasks[t].status = queued, c.expect = queued \/ Nowhere(t)
       PROVE  Worked(r, t)
  <2>1. Faithful(t)' /\ (Nowhere(t) => Nowhere(t)') BY <1>12 DEF Faithful, Nowhere, Holds
  <2>2. EnqueuePhase(call[r], t)' BY <1>2, <1>10, <1>12, <2>1 DEF EnqueuePhase
  <2>3. QED BY <1>2, <1>10, <1>12, <2>2, EnqueueWorked
<1>13. CASE c.rest # <<"revert">> /\ Head(c.rest) = "check"
  <2>1. /\ CheckQueue(r) /\ Faithful(t) /\ tasks[t].status = queued
        /\ c.expect = queued \/ Nowhere(t)
    BY <1>2, <1>13, StepAt DEF EnqueuePhase
  <2>2. UNCHANGED <<tasks, queues>> /\ (Advances(r) \/ TakesBack(r)) BY <1>3, <2>1 DEF CheckQueue
  <2>3. CASE Advances(r)
    <3>1. /\ EntryPlan(call'[r]) /\ Head(call'[r].rest) = "push" /\ call'[r].op = "enqueue"
          /\ call'[r].task = t /\ call'[r].expect = c.expect
      BY <1>7, <1>8, <1>9, <1>13, <2>3
    <3>2. Faithful(t)' /\ (Nowhere(t) => Nowhere(t)') BY <2>1, <2>2 DEF Faithful, Nowhere, Holds
    <3>3. EnqueuePhase(call[r], t)' BY <1>2, <2>1, <2>2, <3>1, <3>2 DEF EnqueuePhase
    <3>4. QED BY <1>2, <2>2, <3>1, <3>3, EnqueueWorked
  <2>4. QED BY <1>12, <1>13, <2>1, <2>2, <2>3
<1>14. CASE c.rest # <<"revert">> /\ Head(c.rest) = "push"
  <2>1. /\ PushEntry(r) /\ Faithful(t) /\ tasks[t].status = queued
        /\ c.expect = queued \/ Nowhere(t)
    BY <1>2, <1>14, StepAt DEF EnqueuePhase
  <2>2. CASE MayPush(c.to, c.task)
    <3>1. UNCHANGED tasks /\ Advances(r) BY <1>3, <2>1, <2>2 DEF PushEntry
    <3>2. /\ EntryPlan(call'[r]) /\ Head(call'[r].rest) = "metrics" /\ call'[r].op = "enqueue"
          /\ call'[r].task = t /\ call'[r].expect = c.expect /\ call'[r].to = c.to
      BY <1>7, <1>8, <1>9, <1>14, <3>1
    <3>3. \A q \in Queues : Holds(q, t)' => Holds(q, t) \/ q = c.to BY OnlyPushBrings
    <3>4. \A q \in Queues : Holds(q, t)' => q = c.to \/ (c.expect = queued /\ q = tasks[t].queue)
      BY <2>1, <3>3 DEF Faithful, Nowhere
    <3>5. EnqueuePhase(call[r], t)' BY <1>2, <2>1, <3>1, <3>2, <3>4 DEF EnqueuePhase
    <3>6. QED BY <1>2, <3>1, <3>2, <3>5, EnqueueWorked
  <2>3. CASE ~MayPush(c.to, c.task)
    <3>1. UNCHANGED <<tasks, queues>> /\ TakesBack(r) BY <1>3, <2>1, <2>3 DEF PushEntry
    <3>2. QED BY <1>12, <1>14, <2>1, <3>1
  <2>4. QED BY <2>2, <2>3
<1>15. CASE c.rest # <<"revert">> /\ Head(c.rest) = "metrics"
  <2>1. /\ LogAdded(r) /\ tasks[t].status = queued
        /\ \A q \in Queues : Holds(q, t) => q = c.to \/ (c.expect = queued /\ q = tasks[t].queue)
    BY <1>2, <1>15, StepAt DEF EnqueuePhase
  <2>2. /\ UNCHANGED <<tasks, queues>>
        /\ Advances(r) \/ (TakesBack(r) /\ ~queues[c.to].exists)
    BY <1>3, <2>1 DEF LogAdded
  <2>3. CASE Advances(r)
    <3>1. /\ EntryPlan(call'[r]) /\ Head(call'[r].rest) = "set_queue" /\ call'[r].op = "enqueue"
          /\ call'[r].task = t /\ call'[r].expect = c.expect /\ call'[r].to = c.to
      BY <1>7, <1>8, <1>9, <1>15, <2>3
    <3>2. \A q \in Queues : Holds(q, t)' => Holds(q, t) BY <2>2 DEF Holds
    <3>3. EnqueuePhase(call[r], t)' BY <1>2, <2>1, <2>2, <3>1, <3>2 DEF EnqueuePhase
    <3>4. QED BY <1>2, <2>2, <3>1, <3>3, EnqueueWorked
  <2>4. CASE TakesBack(r) /\ ~queues[c.to].exists
    <3>1. ~Holds(c.to, t) BY <2>4 DEF Holds
    <3>2. Faithful(t) /\ (c.expect = queued \/ Nowhere(t)) BY <2>1, <3>1 DEF Faithful, Nowhere
    <3>3. QED BY <1>12, <1>15, <2>1, <2>2, <2>4, <3>2
  <2>5. QED BY <2>2, <2>3, <2>4
<1>16. CASE c.rest # <<"revert">> /\ Head(c.rest) = "set_queue"
  <2>1. /\ SetExecutionQueue(r) /\ tasks[t].status = queued
    BY <1>2, <1>16, StepAt DEF EnqueuePhase
  <2>2. /\ tasks' = [tasks EXCEPT ![t] = [tasks[t] EXCEPT !.queue = c.to]]
        /\ UNCHANGED queues /\ Advances(r)
    BY <1>2, <1>3, <2>1 DEF SetExecutionQueue, UpdateById
  <2>3. /\ tasks'[t].queue = c.to /\ tasks'[t].status = queued /\ tasks'[t].doc = tasks[t].doc
    <3>1. c.to \in Queues BY DEF EntryPlan
    <3>2. QED BY <1>4, <2>1, <2>2, <3>1 DEF TaskDoc
  <2>4. CASE Queues = {c.to}
    <3>1. call'[r] = Idle BY <1>7, <1>16, <2>2, <2>4 DEF Advances
    <3>2. Faithful(t)' BY <2>3, <2>4 DEF Faithful
    <3>3. QED BY <1>2, <2>3, <3>1, <3>2, RestingWorked
  <2>5. CASE Queues # {c.to}
    <3>1. Head(Tail(c.rest)) = "pull_others" BY <1>7, <1>16, <2>5
    <3>2. Tail(c.rest) # <<>>
      <4>1. c.rest \in Visiting BY <1>16, <2>5 DEF EntryPlan
      <4>2. Tail(c.rest) \in Visiting BY <1>16, <4>1, VisitingSteps
      <4>3. QED BY <4>2, VisitingSteps
    <3>3. /\ EntryPlan(call'[r]) /\ Head(call'[r].rest) = "pull_others" /\ call'[r].op = "enqueue"
          /\ call'[r].task = t /\ call'[r].to = c.to /\ call'[r].todo = Queues \ {c.to}
      BY <1>9, <1>16, <2>2, <3>1, <3>2
    <3>4. EnqueuePhase(call[r], t)' BY <1>2, <2>3, <3>3 DEF EnqueuePhase
    <3>5. QED BY <1>2, <2>3, <3>3, <3>4, EnqueueWorked
  <2>6. QED BY <2>4, <2>5
<1>17. CASE c.rest # <<"revert">> /\ Head(c.rest) = "pull_others"
  <2>1. /\ PullFromOthers(r) /\ tasks[t].status = queued /\ tasks[t].queue = c.to
        /\ \A q \in Queues : Holds(q, t) => q = c.to \/ q \in c.todo
    BY <1>2, <1>17, StepAt DEF EnqueuePhase
  <2>2. PICK k \in c.todo :
          /\ queues' = [queues EXCEPT ![k].entries = PullTask(queues[k].entries, t)]
          /\ IF c.todo = {k} THEN Continue(r) ELSE call' = [call EXCEPT ![r].todo = @ \ {k}]
          /\ UNCHANGED tasks
    BY <2>1 DEF PullFromOthers
  <2>3. k \in Queues BY <1>1 DEF Call
  <2>4. ~Holds(k, t)'
    <3>1. queues'[k].entries = PullTask(queues[k].entries, t) BY <1>1, <2>2, <2>3 DEF TypeOK, QueueDoc
    <3>2. queues[k].entries \in Seq(Entry) BY <1>1, <2>3 DEF TypeOK, QueueDoc
    <3>3. Distinct(queues[k].entries) BY <2>3 DEF NoDuplicateEntries, Distinct
    <3>4. ~HasTask(queues'[k].entries, t) BY <3>1, <3>2, <3>3, PullTakesAll
    <3>5. QED BY <3>4 DEF Holds
  <2>5. \A q \in Queues : Holds(q, t)' => q = c.to \/ (q \in c.todo /\ q # k)
    BY <1>5, <1>17, <2>1, <2>4
  <2>6. CASE c.todo = {k}
    <3>1. Advances(r) BY <1>3, <2>2, <2>6
    <3>2. call'[r] = Idle BY <1>7, <1>17, <3>1 DEF Advances
    <3>3. Faithful(t)' BY <2>1, <2>2, <2>5, <2>6 DEF Faithful
    <3>4. QED BY <1>2, <2>2, <3>2, <3>3, RestingWorked
  <2>7. CASE c.todo # {k}
    <3>1. /\ call'[r].rest = c.rest /\ call'[r].op = c.op /\ call'[r].task = c.task
          /\ call'[r].to = c.to /\ call'[r].todo = c.todo \ {k} /\ call'[r].expect = c.expect
          /\ call'[r].work = c.work
      BY <1>1, <2>2, <2>7 DEF Call, TypeOK
    <3>2. EntryPlan(call'[r])
      <4>1. "enqueue" \in EntryOps /\ "enqueue" \notin Removers BY EntryOpsAre
      <4>2. c.rest # <<>> BY StepAt
      <4>3. QED BY <1>17, <3>1, <4>1, <4>2 DEF EntryPlan
    <3>3. EnqueuePhase(call[r], t)' BY <1>2, <1>17, <2>1, <2>2, <2>5, <3>1 DEF EnqueuePhase
    <3>4. QED BY <1>2, <2>2, <3>1, <3>2, <3>3, EnqueueWorked
  <2>8. QED BY <2>6, <2>7
<1>18. QED BY <1>6, <1>7, <1>11, <1>13, <1>14, <1>15, <1>16, <1>17
LEMMA ShortPrograms ==
  /\ Head(<<"tag">>) = "tag" /\ Tail(<<"tag">>) = <<>>
  /\ Head(<<"reposition">>) = "reposition" /\ Tail(<<"reposition">>) = <<>>
OBVIOUS

\* The rest: a task is tagged, an entry changes its place.
LEMMA OtherWorks ==
  ASSUME Inv, NEW r \in Procs, Step(r), EntryPlan(call[r]), NEW t \in Tasks, Phase(call[r], t),
         call[r].op \in {"unarchive", "reposition"},
         tasks[t].doc # "present" => Nowhere(t)
  PROVE  Worked(r, t)
<1> DEFINE c == call[r]
<1>1. TypeOK /\ c \in Call BY CallFacts DEF Inv
<1>2. c.rest = <<"tag">> \/ c.rest = <<"reposition">> BY DEF EntryPlan
<1>3. Faithful(t) BY DEF Phase
<1>4. (Head(c.rest) = "tag" \/ Head(c.rest) = "reposition") /\ Tail(c.rest) = <<>>
  BY <1>2, ShortPrograms
<1>5. TagTask(r) \/ MoveEntry(r) BY <1>4, StepAt
<1>6. call'[r] = Idle
  <2>1. Continue(r) => call'[r] = Idle BY <1>1, <1>4 DEF Continue, Goto, TypeOK
  <2>2. Done(r) => call'[r] = Idle BY <1>1 DEF Done, Goto, TypeOK
  <2>3. QED BY <1>5, <2>1, <2>2 DEF TagTask, MoveEntry
<1>7. \A q \in Queues : Holds(q, t)' => Holds(q, t)
  BY <1>4, OnlyPushBrings DEF PushEntry, At
<1>8. /\ tasks'[t].doc = tasks[t].doc /\ tasks'[t].status = tasks[t].status
      /\ tasks'[t].queue = tasks[t].queue
  <2>1. tasks \in [Tasks -> TaskDoc] /\ tasks[t] \in TaskDoc BY <1>1 DEF TypeOK
  <2>2. CASE MoveEntry(r) BY <2>2 DEF MoveEntry
  <2>3. CASE TagTask(r)
    <3>1. CASE c.task # t BY <1>1, <3>1, OtherTasksStay
    <3>2. CASE c.task = t
      <4>1. \/ tasks' = tasks
            \/ tasks' = [tasks EXCEPT ![t] = [tasks[t] EXCEPT !.archived = (c.op = "archive")]]
        BY <2>3, <3>2 DEF TagTask, UpdateById
      <4>2. QED BY <2>1, <4>1 DEF TaskDoc
    <3>3. QED BY <3>1, <3>2
  <2>4. QED BY <1>5, <2>2, <2>3
<1>9. Faithful(t)' BY <1>3, <1>7, <1>8 DEF Faithful
<1>10. tasks'[t].doc # "present" => Nowhere(t)' BY <1>7, <1>8 DEF Nowhere
<1>11. ~AtWork(r, t)' BY <1>6, ConstantsAssumption DEF AtWork, Idle
<1>12. QED BY <1>6, <1>9, <1>10, <1>11, IdlePlan DEF Worked

LEMMA Works ==
  ASSUME TasksServiceOnly, Inv, NoDuplicateEntries, NEW r \in Procs, Step(r), EntryPlan(call[r]),
         NEW t \in Tasks, AtWork(r, t), Phase(call[r], t),
         tasks[t].doc # "present" => Nowhere(t)
  PROVE  Worked(r, t)
<1>1. call[r].rest # <<>> BY StepAt
<1>2. call[r].op \in Removers \cup {"enqueue", "unarchive", "reposition", "drop", "next"}
  BY <1>1, EntryOpsAre DEF EntryPlan
<1>3. call[r].op # "next" /\ call[r].op # "drop" BY ConstantsAssumption DEF AtWork, EntryPlan
<1>4. CASE call[r].op = "enqueue"
  <2>1. call[r].task = t BY <1>4 DEF AtWork, EntryPlan
  <2>2. QED BY <1>4, <2>1, EnqueueWorks DEF TasksServiceOnly
<1>5. QED BY <1>2, <1>3, <1>4, RemoverWorks, OtherWorks

\* A handler at work on no task: an agent's, or one that deletes an empty queue.  One that
\* takes tasks out of queues may have nothing left to take out.
LEMMA PlanGoesOn ==
  ASSUME TasksServiceOnly, Inv, NEW r \in Procs, Step(r), EntryPlan(call[r]),
         \A t \in Tasks : ~AtWork(r, t)
  PROVE  EntryPlan(call'[r])
<1> DEFINE c == call[r]
<1>1. TypeOK /\ c \in Call BY CallFacts DEF Inv
<1>2. c.rest # <<>> BY StepAt
<1>3. c.op \in Removers \cup {"enqueue", "unarchive", "reposition", "drop", "next"}
  BY <1>2, EntryOpsAre DEF EntryPlan
<1>4. Done(r) => call'[r] = Idle BY <1>1 DEF Done, Goto, TypeOK
<1>5. c.op # "enqueue" BY DEF AtWork, EntryPlan
<1>6. CASE c.op = "drop"
  <2>1. c.rest = <<"drop">> BY <1>6 DEF EntryPlan
  <2>2. DropQueue(r) BY <2>1, StepAt
  <2>3. QED BY <1>4, <2>2, IdlePlan DEF DropQueue
<1>7. CASE c.op = "next"
  <2>1. c.rest = <<"pop_read">> \/ c.rest = <<"pop_fix">> BY <1>7 DEF EntryPlan
  <2>2. ReadPopped(r) \/ FixPopped(r) BY <2>1, StepAt
  <2>3. Done(r) \/ Goto(r, c, <<"pop_fix">>) BY <2>2 DEF ReadPopped, FixPopped
  <2>4. CASE Goto(r, c, <<"pop_fix">>)
    <3>1. call'[r].rest = <<"pop_fix">> /\ call'[r].op = "next"
      <4>1. <<"pop_fix">> # <<>> OBVIOUS
      <4>2. QED BY <1>1, <1>7, <2>4, <4>1, GotoIs
    <3>2. "next" \in EntryOps /\ "next" \notin Removers /\ <<"pop_fix">> # <<>> BY EntryOpsAre
    <3>3. QED BY <3>1, <3>2 DEF EntryPlan
  <2>5. QED BY <1>4, <2>3, <2>4, IdlePlan
<1>8. CASE c.op \in {"unarchive", "reposition"}
  <2>1. c.rest = <<"tag">> \/ c.rest = <<"reposition">> BY <1>8 DEF EntryPlan
  <2>2. (Head(c.rest) = "tag" \/ Head(c.rest) = "reposition") /\ Tail(c.rest) = <<>>
    BY <2>1, ShortPrograms
  <2>3. TagTask(r) \/ MoveEntry(r) BY <2>2, StepAt
  <2>4. Continue(r) => call'[r] = Idle BY <1>1, <2>2 DEF Continue, Goto, TypeOK
  <2>5. call'[r] = Idle BY <1>4, <2>3, <2>4 DEF TagTask, MoveEntry
  <2>6. QED BY <2>5, IdlePlan
<1>9. CASE c.op \in Removers
  <2>1. CASE call'[r] = Idle BY <2>1, IdlePlan
  <2>2. CASE call'[r] # Idle
    <3>1. call'[r].op = c.op
      <4>1. c.op # "move" BY <1>9, EntryOpsAre
      <4>2. QED BY <2>2, <4>1, StepKeeps DEF Keeps, Carries
    <3>2. ASSUME GoesOn(r) PROVE EntryPlan(call'[r])
      <4>1. call'[r].rest # <<>> /\ Removed(call'[r]) BY <2>2, <3>2 DEF GoesOn
      <4>2. QED BY <1>9, <3>1, <4>1, PhaseOfRemover
    <3>3. AtFind(c) \/ AtPull(c) \/ Removed(c) BY <1>9 DEF EntryPlan
    <3>4. CASE Removed(c) BY <3>2, <3>4, RemovedGoesOn
    <3>5. CASE AtPull(c)
      <4>1. Head(c.rest) = "pull" BY <3>5 DEF AtPull
      <4>2. QED BY <3>2, <3>5, <4>1, PullGoesOn, StepAt
    <3>6. CASE AtFind(c)
      <4>1. Head(c.rest) = "find" BY <3>6 DEF AtFind
      <4>2. FindEntry(r) BY <4>1, StepAt
      <4>3. GoesOn(r) \/ AtPull(call'[r]) BY <3>6, <4>2, FindGoesOn
      <4>4. AtPull(call'[r]) => EntryPlan(call'[r]) BY <1>9, <3>1, PhaseOfRemover DEF AtPull
      <4>5. QED BY <3>2, <4>3, <4>4
    <3>7. QED BY <3>3, <3>4, <3>5, <3>6
  <2>3. QED BY <2>1, <2>2
<1>10. QED BY <1>3, <1>5, <1>6, <1>7, <1>8, <1>9

-----------------------------------------------------------------------------
(* The invariant holds.                                                    *)

LEMMA EntriesInit == Init => EntriesInv
<1> SUFFICES ASSUME Init PROVE EntriesInv OBVIOUS
<1>1. \A p \in Procs : call[p] = Idle BY DEF Init
<1>2. \A q \in Queues, t \in Tasks : ~Holds(q, t) BY DEF Init, Holds, HasTask
<1>3. \A p \in Procs, t \in Tasks : ~AtWork(p, t) BY <1>1, ConstantsAssumption DEF AtWork, Idle
<1>4. EntryPlansOK BY <1>1, IdlePlan DEF EntryPlansOK
<1>5. \A t \in Tasks : Nowhere(t) /\ Faithful(t) BY <1>2 DEF Nowhere, Faithful
<1>6. QED BY <1>3, <1>4, <1>5 DEF EntriesInv

\* A request that is about a task reads; only an agent's, which is not, pops.
LEMMA RequestsRead ==
  ASSUME TypeOK, NEW r \in Procs, Request(r), NEW t \in Tasks, AtWork(r, t)'
  PROVE  UNCHANGED <<tasks, queues>>
<1>1. ~GetNextTask(r)
  <2> SUFFICES ASSUME GetNextTask(r) PROVE FALSE OBVIOUS
  <2>1. PICK q \in Queues :
          Begin(r, "next", [Idle EXCEPT !.op = "next", !.task = Head(queues[q].entries).task,
                                        !.rest = <<"pop_read">>])
    BY DEF GetNextTask
  <2>2. call'[r].op = "next" BY <2>1 DEF Begin, TypeOK, Idle
  <2>3. QED BY <2>2 DEF AtWork
<1>2. QED BY <1>1, RequestsReadTasks

LEMMA BegunAfter ==
  ASSUME TypeOK, NEW r \in Procs, Request(r), Begun(r), NEW t \in Tasks, AtWork(r, t)'
  PROVE  Phase(call[r], t)'
<1>1. UNCHANGED <<tasks, queues>> BY RequestsRead
<1>2. Phase(call'[r], t) BY DEF Begun
<1>3. QED BY <1>1, <1>2 DEF Phase, EnqueuePhase, RemovePhase, Faithful, Nowhere, Holds

\* A process that begins a request finds no other at work on the task.
LEMMA ClientsWait ==
  ASSUME TasksServiceOnly, Inv, EntriesInv, Disciplined', NEW r \in Procs, Request(r)
  PROVE  MayBegin(r)
<1> SUFFICES ASSUME NEW t \in Tasks, AtWork(r, t)'
             PROVE  Faithful(t) /\ (call'[r].op \in {"change", "publish"} => Nowhere(t))
  BY DEF MayBegin
<1>1. TypeOK BY DEF Inv
<1>2. call[r] = Idle BY RequestsAreIdle DEF EntriesInv, EntryPlansOK, EntryPlan
<1>3. ASSUME NEW p \in Procs PROVE ~AtWork(p, t)
  <2>1. CASE p = r BY <1>2, <2>1, ConstantsAssumption DEF AtWork, Idle
  <2>2. CASE p # r
    <3>1. call'[p] = call[p] BY <2>2, OwnStep
    <3>2. AtWork(p, t) => AtWork(p, t)' BY <3>1 DEF AtWork
    <3>3. QED BY <2>2, <3>2 DEF Disciplined
  <2>3. QED BY <2>1, <2>2
<1>4. Faithful(t) BY <1>3 DEF EntriesInv
<1>6. UNCHANGED queues BY <1>1, RequestsRead
<1>7. call'[r].op \in {"change", "publish"} => Nowhere(t)' BY DEF Disciplined
<1>8. Nowhere(t)' => Nowhere(t) BY <1>6 DEF Nowhere, Holds
<1>9. QED BY <1>4, <1>7, <1>8

LEMMA EntriesNext ==
  ASSUME TasksServiceOnly, Inv, NoDuplicateEntries, EntriesInv, Disciplined, Disciplined', [Next]_vars
  PROVE  EntriesInv'
<1>1. CASE UNCHANGED vars
  BY <1>1 DEF vars, EntriesInv, EntryPlansOK, Nowhere, Faithful, Holds, AtWork, Phase,
     EnqueuePhase, RemovePhase
<1>2. CASE Next
  <2>1. PICK r \in Procs : Request(r) \/ Step(r) BY <1>2 DEF Next
  <2>2. TypeOK BY DEF Inv
  <2>3. \A p \in Procs \ {r} : call'[p] = call[p] BY <2>1, OwnStep
  <2>4. \A p \in Procs : EntryPlan(call[p]) BY DEF EntriesInv, EntryPlansOK
  <2>5. \A t \in Tasks : tasks[t].doc # "present" => Nowhere(t) BY DEF EntriesInv
  <2>6. Request(r) => call[r] = Idle /\ Begun(r)
    <3> SUFFICES ASSUME Request(r) PROVE call[r] = Idle /\ Begun(r) OBVIOUS
    <3>1. call[r] = Idle BY <2>4, RequestsAreIdle DEF EntryPlan
    <3>2. MayBegin(r) BY ClientsWait
    <3>3. QED BY <2>5, <3>1, <3>2, RequestBegins
  <2>7. \A p \in Procs \ {r}, t \in Tasks : AtWork(p, t)' <=> AtWork(p, t) BY <2>3 DEF AtWork
  <2>8. ASSUME NEW t \in Tasks, AtWork(r, t), Step(r)
        PROVE  Worked(r, t) /\ \A p \in Procs \ {r} : ~AtWork(p, t)'
    <3>1. Phase(call[r], t) BY <2>8 DEF EntriesInv
    <3>2. Worked(r, t) BY <2>4, <2>5, <2>8, <3>1, Works
    <3>3. QED BY <2>7, <2>8, <3>2 DEF Disciplined
  <2>9. ASSUME NEW t \in Tasks, Request(r) \/ ~AtWork(r, t)
        PROVE  /\ Left(t) /\ ~AtWork(r, t)
               /\ tasks'[t].doc # "present" => Nowhere(t)'
               /\ Faithful(t) => Faithful(t)'
               /\ \A p \in Procs \ {r} : Phase(call[p], t) => Phase(call[p], t)'
    <3>1. ~AtWork(r, t) BY <2>6, <2>9, ConstantsAssumption DEF AtWork, Idle
    <3>2. Left(t) BY <2>1, <2>4, <3>1, Bystander
    <3>3. /\ Nowhere(t) => Nowhere(t)'
          /\ Faithful(t) => Faithful(t)'
          /\ tasks'[t].doc = tasks[t].doc
      BY <2>2, <3>2, LeftKeeps
    <3>4. \A p \in Procs \ {r} : Phase(call[p], t) => Phase(call[p], t)'
      BY <2>3, <2>4, <3>2, LeftPhase
    <3>5. QED BY <2>5, <3>1, <3>2, <3>3, <3>4
  <2>10. EntryPlansOK'
    <3>1. CASE Request(r) BY <2>3, <2>4, <2>6, <3>1 DEF EntryPlansOK, Begun
    <3>2. CASE Step(r)
      <4>1. EntryPlan(call'[r])
        <5>1. CASE \E t \in Tasks : AtWork(r, t) BY <2>8, <3>2, <5>1 DEF Worked
        <5>2. CASE \A t \in Tasks : ~AtWork(r, t) BY <2>4, <3>2, <5>2, PlanGoesOn
        <5>3. QED BY <5>1, <5>2
      <4>2. QED BY <2>3, <2>4, <4>1 DEF EntryPlansOK
    <3>3. QED BY <2>1, <3>1, <3>2
  <2>11. ASSUME NEW t \in Tasks
         PROVE  /\ tasks'[t].doc # "present" => Nowhere(t)'
                /\ (\A p \in Procs : ~AtWork(p, t)') => Faithful(t)'
                /\ \A p \in Procs : AtWork(p, t)' => Phase(call[p], t)'
    <3>1. CASE AtWork(r, t) /\ Step(r)
      <4>1. Worked(r, t) /\ \A p \in Procs \ {r} : ~AtWork(p, t)' BY <2>8, <3>1
      <4>2. QED BY <4>1 DEF Worked
    <3>2. CASE Request(r) \/ ~AtWork(r, t)
      <4>1. /\ ~AtWork(r, t)
            /\ tasks'[t].doc # "present" => Nowhere(t)'
            /\ Faithful(t) => Faithful(t)'
            /\ \A p \in Procs \ {r} : Phase(call[p], t) => Phase(call[p], t)'
        BY <2>9, <3>2
      <4>2. ASSUME \A p \in Procs : ~AtWork(p, t)' PROVE Faithful(t)'
        <5>1. \A p \in Procs : ~AtWork(p, t) BY <2>7, <4>1, <4>2
        <5>2. QED BY <4>1, <5>1 DEF EntriesInv
      <4>3. ASSUME NEW p \in Procs, AtWork(p, t)' PROVE Phase(call[p], t)'
        <5>1. CASE p # r
          <6>1. Phase(call[p], t) BY <2>7, <4>3, <5>1 DEF EntriesInv
          <6>2. QED BY <4>1, <5>1, <6>1
        <5>2. CASE p = r
          <6>1. Request(r)
            <7>1. Step(r) => FALSE BY <2>4, <4>1, <4>3, <5>2, Onward
            <7>2. QED BY <2>1, <7>1
          <6>2. QED BY <2>2, <2>6, <4>3, <5>2, <6>1, BegunAfter
        <5>3. QED BY <5>1, <5>2
      <4>4. QED BY <4>1, <4>2, <4>3
    <3>3. QED BY <2>1, <3>1, <3>2
  <2>12. QED BY <2>10, <2>11 DEF EntriesInv
<1>3. QED BY <1>1, <1>2
LEMMA FaithfulEntries == EntriesInv => EntryMeansQueued
<1> SUFFICES ASSUME EntriesInv, NEW t \in Tasks, NEW q \in Queues, Quiet(t), Holds(q, t)
             PROVE  tasks[t].status = queued /\ tasks[t].queue = q
  BY DEF EntryMeansQueued
<1>1. \A p \in Procs : ~AtWork(p, t) BY DEF Quiet, AtWork
<1>2. Faithful(t) BY <1>1 DEF EntriesInv
<1>3. QED BY <1>2 DEF Faithful

\* A waiting entry belongs to a task that is queued, and in that queue: of any number of
\* clients of the tasks service and of agents that pop at any moment, provided that nobody
\* asks about a task while another request about it is unanswered, and that statuses are
\* reported only of tasks that have left the queues.
THEOREM EntriesBelong ==
  ASSUME TasksServiceOnly
  PROVE  Spec /\ []Disciplined => []EntryMeansQueued
<1>1. Inv /\ NoDuplicateEntries /\ EntriesInv /\ Disciplined /\ Disciplined' /\ [Next]_vars
      => EntriesInv'
  BY EntriesNext
<1>2. Spec => []Inv BY InitOK, NextOK, PTL DEF Spec
<1>3. Spec /\ []Disciplined => []EntriesInv BY <1>1, <1>2, NoDuplicates, EntriesInit, PTL DEF Spec
<1>4. QED BY <1>3, FaithfulEntries, PTL

-----------------------------------------------------------------------------
(* One client, which waits for each answer, and any number of agents.      *)

SingleClient ==
  /\ \E s \in Procs : \A p \in Procs \ {s} : Ops[p] \subseteq {"next"}
  /\ \A p \in Procs : Ops[p] \cap {"change", "publish"} = {}

Served == \A p \in Procs : call[p] = Idle \/ call[p].op \in Ops[p]

LEMMA ServedNext ==
  ASSUME TasksServiceOnly, Inv, Served, [Next]_vars
  PROVE  Served'
<1>1. CASE UNCHANGED vars BY <1>1 DEF vars, Served
<1>2. CASE Next
  <2>1. PICK r \in Procs : Request(r) \/ Step(r) BY <1>2 DEF Next
  <2>2. TypeOK BY DEF Inv
  <2>3. \A p \in Procs \ {r} : call'[p] = call[p] BY <2>1, OwnStep
  <2>4. CASE Step(r)
    <3>1. call[r].rest # <<>> BY <2>4, StepAt
    <3>2. call[r].op \in Ops[r] BY <3>1 DEF Served, Idle
    <3>3. call[r].op # "move" BY <3>2 DEF TasksServiceOnly, EntryOps
    <3>4. Keeps(r) BY <2>4, <3>3, StepKeeps
    <3>5. QED BY <2>3, <3>2, <3>4 DEF Served, Keeps, Carries
  <2>5. CASE Request(r)
    <3>1. call \in [Procs -> Call] BY <2>2 DEF TypeOK
    <3>2. call'[r].op \in Ops[r]
      <4>1. CASE Enqueue(r)
        <5>1. PICK t \in Tasks, q \in Queues, force \in ForceFlags, op \in {"enqueue", "enqueue_keep"} :
                Begin(r, op,
                  [Idle EXCEPT !.op = op, !.task = t, !.to = q, !.force = force,
                     !.expect = tasks[t].status, !.new = queued,
                     !.enqueue_status = BeforeEnqueue(tasks[t]), !.todo = Queues \ {q},
                     !.rest = EnqueueProgram(op, Queues \ {q})])
          BY <4>1 DEF Enqueue
        <5>2. QED BY <3>1, <5>1 DEF Begin, Idle
      <4>2. CASE DequeueTask(r)
        <5> DEFINE base(t, op) == [Idle EXCEPT !.op = op, !.task = t, !.todo = Queues]
        <5>1. PICK t \in Tasks, op \in {"dequeue", "dequeue_all"}, asked \in AskedStatuses :
                \/ Begin(r, op, [base(t, op) EXCEPT !.rest = <<"pull_others">>])
                \/ Begin(r, op,
                     [base(t, op) EXCEPT !.from = tasks[t].queue, !.expect = tasks[t].status,
                        !.new = RestoredStatus(tasks[t], asked, NoStatus), !.force = TRUE,
                        !.rest = DequeueAndChangeStatus(tasks[t], op = "dequeue_all")])
          BY <4>2 DEF DequeueTask
        <5> DEFINE a == [base(t, op) EXCEPT !.rest = <<"pull_others">>]
                   d == [base(t, op) EXCEPT !.from = tasks[t].queue, !.expect = tasks[t].status,
                           !.new = RestoredStatus(tasks[t], asked, NoStatus), !.force = TRUE,
                           !.rest = DequeueAndChangeStatus(tasks[t], op = "dequeue_all")]
        <5>2. a.op = op /\ d.op = op BY DEF Idle
        <5>3. Begin(r, op, a) \/ Begin(r, op, d) BY <5>1
        <5> HIDE DEF a, d
        <5>4. QED BY <3>1, <5>2, <5>3 DEF Begin
      <4>3. CASE StopTask(r) BY <3>1, <4>3 DEF StopTask, Begin, Idle
      <4>4. CASE SetStatusFromCall(r) BY <3>1, <4>4 DEF SetStatusFromCall, Begin, Idle
      <4>5. CASE ArchiveTask(r) BY <3>1, <4>5 DEF ArchiveTask, Begin, Idle
      <4>6. CASE UnarchiveTask(r) BY <3>1, <4>6 DEF UnarchiveTask, Begin, Idle
      <4>7. CASE DeleteTask(r) BY <3>1, <4>7 DEF DeleteTask, Begin, Idle
      <4>8. CASE ResetTask(r) BY <3>1, <4>8 DEF ResetTask, Begin, Idle
      <4>9. CASE PublishTask(r) BY <3>1, <4>9 DEF PublishTask, Begin, Idle
      <4>10. CASE GetNextTask(r) BY <3>1, <4>10 DEF GetNextTask, Begin, Idle
      <4>11. CASE RemoveTaskFromQueue(r) BY <3>1, <4>11 DEF RemoveTaskFromQueue, Begin, Idle
      <4>12. CASE RepositionTask(r) BY <3>1, <4>12 DEF RepositionTask, Begin, Idle
      <4>13. CASE DeleteQueue(r) BY <3>1, <4>13 DEF DeleteQueue, Begin, Idle
      <4>14. ~AddTaskToQueue(r) /\ ~MoveTaskToQueue(r) /\ ~ClearQueue(r)
        BY DEF AddTaskToQueue, MoveTaskToQueue, ClearQueue, Begin, TasksServiceOnly, EntryOps
      <4>15. QED
        BY <2>5, <4>1, <4>2, <4>3, <4>4, <4>5, <4>6, <4>7, <4>8, <4>9, <4>10, <4>11,
           <4>12, <4>13, <4>14 DEF Request
    <3>3. QED BY <2>3, <3>2 DEF Served
  <2>6. QED BY <2>1, <2>4, <2>5
<1>3. QED BY <1>1, <1>2

LEMMA OneClientIsDisciplined ==
  ASSUME SingleClient, Served
  PROVE  Disciplined
<1>1. PICK s \in Procs : \A p \in Procs \ {s} : Ops[p] \subseteq {"next"} BY DEF SingleClient
<1>2. ASSUME NEW p \in Procs, NEW t \in Tasks, AtWork(p, t)
      PROVE  p = s /\ call[p].op \notin {"change", "publish"}
  <2>1. call[p] # Idle BY <1>2, ConstantsAssumption DEF AtWork, Idle
  <2>2. call[p].op \in Ops[p] /\ call[p].op # "next" BY <1>2, <2>1 DEF Served, AtWork
  <2>3. QED BY <1>1, <2>2 DEF SingleClient
<1>3. QED BY <1>2 DEF Disciplined

\* What the run tq_one checks, for any number of agents, tasks, queues and stamps: one
\* client that waits for its answers needs no other discipline.
THEOREM OneClientsEntriesBelong ==
  ASSUME TasksServiceOnly, SingleClient
  PROVE  Spec => []EntryMeansQueued
<1>1. Inv /\ Served /\ [Next]_vars => Served' BY ServedNext
<1>2. Init => Served BY DEF Init, Served
<1>3. Spec => []Inv BY InitOK, NextOK, PTL DEF Spec
<1>4. Served => Disciplined BY OneClientIsDisciplined
<1>5. Spec => []Disciplined BY <1>1, <1>2, <1>3, <1>4, PTL DEF Spec
<1>6. QED BY <1>5, EntriesBelong, PTL

-----------------------------------------------------------------------------
(* The tasks that wait.                                                    *)

\* No request may take a task out of its queue and end before the task is restored:
\* remove_task does not restore at all, a reset is validated after the cleanup, which
\* raises unless forced, and what drops a queue drops the entries pushed meanwhile.
EveryRemovalRestores ==
  /\ \A p \in Procs : Ops[p] \subseteq EntryOps \ {"remove", "drop"}
  /\ ~MetricsMayFail
  /\ (\E p \in Procs : "reset" \in Ops[p]) => FALSE \notin ForceFlags

\* The requests that take a task out of the queue it names.
Withdrawers == {"dequeue", "dequeue_all", "archive", "delete", "reset", "stop"}

WithAgent(t) == t \in handed \/ \E p \in Procs : call[p].op = "next" /\ call[p].task = t

Accounted(t) == WithAgent(t) \/ ~Nowhere(t)

Unrestored(t) == tasks[t].status = queued /\ tasks[t].enqueue_status # NoStatus

Safe(t) == Unrestored(t) => Accounted(t)

-----------------------------------------------------------------------------
(* The inductive invariant.                                                *)

\* A program that restores the status of a task it read as queued, whatever comes before.
Restores == {"restore", "change", "to_created"}
Passes(force) ==
  {"find", "pull", "reload", "pull_others"} \cup (IF force THEN {"cleanup"} ELSE {})

Settles(force, rest) ==
  \E i \in DOMAIN rest : rest[i] \in Restores /\ \A j \in 1..(i - 1) : rest[j] \in Passes(force)

WillRestore(c, t) ==
  /\ c.expect = queued /\ c.from \in Queues /\ tasks[t].doc # "absent"
  /\ Settles(c.force, c.rest)

\* remove_task with a status to update, once the entry is gone.
WillDetach(c, t) ==
  /\ Head(c.rest) = "detach"
  /\ \/ t \in c.work /\ tasks[t].queue = c.from /\ Visible(t)
     \/ c.task = t /\ c.expect = queued /\ tasks[t].doc # "absent"

Account(c, t) ==
  /\ c.op = "enqueue" =>
       /\ Head(c.rest) = "to_queued" => Safe(t)
       /\ Head(c.rest) \in {"metrics", "set_queue", "pull_others"} => WithAgent(t) \/ Holds(c.to, t)
  /\ c.op \in {"unarchive", "reposition", "change"} => Safe(t)
  /\ c.op = "publish" =>
       /\ Safe(t)
       /\ c.expect = queued /\ tasks[t].enqueue_status # NoStatus => Accounted(t)
  /\ c.op = "remove_update" => Safe(t) \/ WillDetach(c, t)
  /\ c.op \in Withdrawers =>
       /\ Safe(t) \/ WillRestore(c, t)
       /\ Head(c.rest) \in {"find", "pull"} => WillRestore(c, t)

\* The calls a program may still have to make.
Publishing == {"publishing", "publish_model", "published", "rollback"}
StepsOf(op) ==
  {"find", "pull", "reload"} \cup
  (IF op = "stop" THEN {"change"}
   ELSE {"pull_others", "restore", "to_created", "cleanup", "tag", "delete_doc"})

AccountPlan(c) ==
  /\ c.op = "enqueue" => c.to \notin c.todo
  /\ c.op = "change" => c.rest = <<"change">> /\ c.new # queued /\ c.work = {}
  /\ c.op = "publish" => c.rest \in Seq(Publishing) /\ c.work = {}
  /\ c.op = "remove_update" =>
       /\ c.rest \in {<<"pull", "detach", "reload">>, <<"detach", "reload">>, <<"reload">>}
       /\ Head(c.rest) = "pull" => c.work = {c.task}
  /\ c.op \in Withdrawers => c.rest \in Seq(StepsOf(c.op)) /\ c.work = {}
  /\ c.op = "stop" => c.new # queued

AccountInv ==
  /\ \A q \in Queues : queues[q].exists
  /\ \A p \in Procs : AccountPlan(call[p])
  /\ \A t \in Tasks : (\A p \in Procs : ~AtWork(p, t)) => Safe(t)
  /\ \A t \in Tasks, p \in Procs : AtWork(p, t) => Account(call[p], t)

-----------------------------------------------------------------------------
(* Programs that restore.                                                  *)

LEMMA PassesAreNot ==
  \A force : Passes(force) \cap Restores = {} /\ Passes(force) \subseteq Steps /\ Restores \subseteq Steps
BY DEF Passes, Restores, Steps

LEMMA SettleStep ==
  ASSUME NEW force, NEW rest \in Seq(Steps), Settles(force, rest)
  PROVE  /\ rest # <<>>
         /\ \/ Head(rest) \in Restores
            \/ Head(rest) \in Passes(force) /\ Settles(force, Tail(rest))
<1>1. PICK i \in DOMAIN rest : rest[i] \in Restores /\ \A j \in 1..(i - 1) : rest[j] \in Passes(force)
  BY DEF Settles
<1>2. DOMAIN rest = 1..Len(rest) /\ Len(rest) \in Nat BY LenProperties
<1>3. rest # <<>> /\ i \in 1..Len(rest) /\ Head(rest) = rest[1] BY <1>1, <1>2
<1>4. CASE i = 1 BY <1>1, <1>3, <1>4
<1>5. CASE i # 1
  <2>1. Head(rest) \in Passes(force) BY <1>1, <1>2, <1>3, <1>5
  <2> DEFINE u == Tail(rest)
  <2>2. /\ u \in Seq(Steps) /\ Len(u) = Len(rest) - 1 /\ \A j \in 1..Len(u) : u[j] = rest[j + 1]
    BY <1>3, HeadTailProperties
  <2>3. DOMAIN u = 1..Len(u) BY <2>2, LenProperties
  <2> HIDE DEF u
  <2>4. i - 1 \in DOMAIN u /\ u[i - 1] = rest[i] BY <1>2, <1>3, <1>5, <2>2, <2>3
  <2>5. \A j \in 1..(i - 1 - 1) : u[j] \in Passes(force)
    <3> TAKE j \in 1..(i - 1 - 1)
    <3>1. j \in 1..Len(u) /\ j + 1 \in 1..(i - 1) BY <1>2, <1>3, <2>2
    <3>2. QED BY <1>1, <2>2, <3>1
  <2>6. Settles(force, u) BY <1>1, <2>4, <2>5 DEF Settles
  <2>7. QED BY <1>3, <2>1, <2>6 DEF u
<1>6. QED BY <1>3, <1>4, <1>5

LEMMA SettlesAtOnce ==
  ASSUME NEW force, NEW rest \in Seq(Steps), rest # <<>>, Head(rest) \in Restores
  PROVE  Settles(force, rest)
<1>1. 1 \in DOMAIN rest /\ Head(rest) = rest[1] BY LenProperties, EmptySeq
<1>2. \A j \in 1..(1 - 1) : FALSE OBVIOUS
<1>3. rest[1] \in Restores /\ \A j \in 1..(1 - 1) : rest[j] \in Passes(force) BY <1>1, <1>2
<1>4. QED BY <1>1, <1>3 DEF Settles

LEMMA SettlesAfter ==
  ASSUME NEW force, NEW s \in Seq(Passes(force)), NEW u \in Seq(Steps), Settles(force, u)
  PROVE  Settles(force, s \o u)
<1> DEFINE v == s \o u
<1>1. s \in Seq(Steps)
  <2>1. Passes(force) \subseteq Steps BY PassesAreNot
  <2>2. QED BY <2>1, SeqMonotonic
<1>2. /\ v \in Seq(Steps) /\ Len(v) = Len(s) + Len(u)
      /\ \A j \in 1..(Len(s) + Len(u)) : v[j] = IF j <= Len(s) THEN s[j] ELSE u[j - Len(s)]
  BY <1>1, ConcatProperties
<1>3. Len(s) \in Nat /\ Len(u) \in Nat /\ DOMAIN u = 1..Len(u) /\ DOMAIN v = 1..Len(v)
  BY <1>1, <1>2, LenProperties
<1>4. \A j \in 1..Len(s) : s[j] \in Passes(force) BY ElementOfSeq
<1> HIDE DEF v
<1>5. PICK i \in DOMAIN u : u[i] \in Restores /\ \A j \in 1..(i - 1) : u[j] \in Passes(force)
  BY DEF Settles
<1> DEFINE k == Len(s) + i
<1>6. k \in DOMAIN v /\ v[k] = u[i] BY <1>2, <1>3
<1>7. ASSUME NEW j \in 1..(k - 1) PROVE v[j] \in Passes(force)
  <2>1. CASE j <= Len(s) BY <1>2, <1>3, <1>4, <2>1
  <2>2. CASE ~(j <= Len(s))
    <3>1. v[j] = u[j - Len(s)] /\ j - Len(s) \in 1..(i - 1) BY <1>2, <1>3, <2>2
    <3>2. QED BY <1>5, <3>1
  <2>3. QED BY <2>1, <2>2
<1> HIDE DEF k
<1>8. Settles(force, v) BY <1>5, <1>6, <1>7 DEF Settles
<1>9. QED BY <1>8 DEF v

-----------------------------------------------------------------------------
(* What an agent and the other processes may do to a task.                 *)

LEMMA HeadsOf ==
  ASSUME NEW c, EntryPlan(c), c.rest # <<>>
  PROVE  /\ c.op \in Removers \cup {"enqueue", "unarchive", "reposition", "drop", "next"}
         /\ c.op = "enqueue" => Head(c.rest) \in
              {"to_queued", "check", "push", "metrics", "set_queue", "pull_others", "revert"}
         /\ c.op = "next" => c.rest \in {<<"pop_read">>, <<"pop_fix">>} /\ Head(c.rest) \in {"pop_read", "pop_fix"}
         /\ c.op = "unarchive" => Head(c.rest) = "tag"
         /\ c.op = "reposition" => Head(c.rest) = "reposition"
         /\ c.op = "drop" => Head(c.rest) = "drop"
         /\ c.op \in Removers => Head(c.rest) \in {"find", "pull"} \cup AfterRemoval
<1>1. c.op \in Removers \cup {"enqueue", "unarchive", "reposition", "drop", "next"}
  BY EntryOpsAre DEF EntryPlan
<1>2. c.op = "enqueue" => Head(c.rest) \in
        {"to_queued", "check", "push", "metrics", "set_queue", "pull_others", "revert"}
  <2> SUFFICES ASSUME c.op = "enqueue"
               PROVE  Head(c.rest) \in
                        {"to_queued", "check", "push", "metrics", "set_queue", "pull_others", "revert"}
    OBVIOUS
  <2>1. CASE c.rest = <<"revert">> BY <2>1
  <2>2. CASE c.rest # <<"revert">> BY <2>2, EnqueueOrder
  <2>3. QED BY <2>1, <2>2
<1>3. c.op = "next" => c.rest \in {<<"pop_read">>, <<"pop_fix">>} /\ Head(c.rest) \in {"pop_read", "pop_fix"}
  BY DEF EntryPlan
<1>4. /\ c.op = "unarchive" => Head(c.rest) = "tag"
      /\ c.op = "reposition" => Head(c.rest) = "reposition"
      /\ c.op = "drop" => Head(c.rest) = "drop"
  BY DEF EntryPlan
<1>5. c.op \in Removers => Head(c.rest) \in {"find", "pull"} \cup AfterRemoval
  <2> SUFFICES ASSUME c.op \in Removers PROVE Head(c.rest) \in {"find", "pull"} \cup AfterRemoval
    OBVIOUS
  <2>1. AtFind(c) \/ AtPull(c) \/ Removed(c) BY DEF EntryPlan
  <2>2. Removed(c) => Head(c.rest) \in AfterRemoval BY HeadAfterRemoval DEF Removed
  <2>3. QED BY <2>1, <2>2 DEF AtFind, AtPull
<1>6. QED BY <1>1, <1>2, <1>3, <1>4, <1>5

LEMMA NoneDrops ==
  ASSUME NEW r \in Procs, EntryPlan(call[r]), call[r].op # "drop"
  PROVE  ~EmptyQueue(r) /\ ~DropQueue(r)
BY HeadsOf DEF EmptyQueue, DropQueue, At, AfterRemoval

\* An agent at its first call or its second.
LEMMA AgentSteps ==
  ASSUME Inv, NEW r \in Procs, EntryPlan(call[r]), call[r].op = "next", Request(r) \/ Step(r)
  PROVE  /\ ReadPopped(r) \/ FixPopped(r)
         /\ \/ call'[r] = Idle
            \/ call'[r].op = "next" /\ call'[r].task = call[r].task
         /\ UNCHANGED queues
<1>1. TypeOK BY DEF Inv
<1>2. ~Request(r) BY RequestsAreIdle DEF EntryPlan, Idle
<1>3. call[r].rest # <<>> BY <1>2, StepAt
<1>4. ReadPopped(r) \/ FixPopped(r) BY <1>2, <1>3, HeadsOf, StepAt
<1>5. Done(r) \/ Goto(r, call[r], <<"pop_fix">>) BY <1>4 DEF ReadPopped, FixPopped
<1>6. Done(r) => call'[r] = Idle BY <1>1 DEF Done, Goto, TypeOK
<1>7. Goto(r, call[r], <<"pop_fix">>) => call'[r].op = "next" /\ call'[r].task = call[r].task
  <2>1. <<"pop_fix">> # <<>> /\ call[r] \in Call BY <1>1 DEF TypeOK
  <2>2. QED BY <1>1, <2>1, GotoIs
<1>8. QED BY <1>4, <1>5, <1>6, <1>7 DEF ReadPopped, FixPopped

Hands == handed' = (handed \cup Received) \ Enqueued

\* A task with an agent stays so until somebody enqueues it.
LEMMA AgentKeeps ==
  ASSUME Inv, NEW r \in Procs, EntryPlan(call[r]), Request(r) \/ Step(r), Hands, NEW t \in Tasks,
         ~(At(r, "to_queued") /\ call[r].task = t /\ Matches(t, call[r].expect)),
         WithAgent(t)
  PROVE  WithAgent(t)'
<1>1. t \notin Enqueued BY OwnStep DEF Enqueued
<1>2. CASE t \in handed BY <1>1, <1>2 DEF Hands, WithAgent
<1>3. CASE \E p \in Procs : call[p].op = "next" /\ call[p].task = t
  <2>1. PICK p \in Procs : call[p].op = "next" /\ call[p].task = t BY <1>3
  <2>2. CASE call'[p] = call[p] BY <2>1, <2>2 DEF WithAgent
  <2>3. CASE call'[p] # call[p]
    <3>1. p = r BY <2>3, OwnStep
    <3>2. call'[r] = Idle \/ (call'[r].op = "next" /\ call'[r].task = t) BY <2>1, <3>1, AgentSteps
    <3>3. CASE call'[r] = Idle
      <4>1. call'[r].op = "none" BY <3>3 DEF Idle
      <4>2. t \in Received BY <2>1, <3>1, <4>1 DEF Received
      <4>3. QED BY <1>1, <4>2 DEF Hands, WithAgent
    <3>4. QED BY <3>2, <3>3 DEF WithAgent
  <2>4. QED BY <2>2, <2>3
<1>4. QED BY <1>2, <1>3 DEF WithAgent

\* Who takes an entry: an agent, or the handler at work on its task.
LEMMA Takes ==
  ASSUME Inv, EntriesInv, NEW r \in Procs, Request(r) \/ Step(r), call[r].op # "drop",
         NEW q \in Queues, NEW e \in Gone(q)
  PROVE  AtWork(r, e.task) \/ (call'[r].op = "next" /\ call'[r].task = e.task)
<1> DEFINE c == call[r]
<1>1. TypeOK /\ c \in Call BY CallFacts DEF Inv
<1>2. EntryPlan(c) BY DEF EntriesInv, EntryPlansOK
<1>3. ~(UNCHANGED queues) BY DEF Gone
<1>4. e \in Entry
  <2>1. queues[q].entries \in Seq(Entry) BY <1>1 DEF TypeOK, QueueDoc
  <2>2. QED BY <2>1, ToSetType DEF Gone
<1>5. CASE Request(r)
  <2>1. GetNextTask(r) BY <1>3, <1>5, RequestsReadTasks
  <2>2. PICK k \in Queues :
          /\ queues[k].entries # <<>>
          /\ Begin(r, "next", [Idle EXCEPT !.op = "next", !.task = Head(queues[k].entries).task,
                                           !.rest = <<"pop_read">>])
          /\ queues' = [queues EXCEPT ![k].entries = Tail(queues[k].entries)]
    BY <2>1 DEF GetNextTask
  <2>3. q = k BY <1>1, <2>2, GoneFrom
  <2>4. call'[r].op = "next" /\ call'[r].task = Head(queues[k].entries).task
    BY <1>1, <2>2 DEF Begin, TypeOK, Idle
  <2>5. TakesOnPurpose(r, q, e) BY <2>1, AgentsTakeTheFirst
  <2>6. call[r] = Idle BY <1>2, <1>5, RequestsAreIdle DEF EntryPlan
  <2>7. e = Head(queues[q].entries)
    <3>1. call[r].task = NoTask /\ call[r].found = {} BY <2>6 DEF Idle
    <3>2. e.task # NoTask BY <1>4, ConstantsAssumption DEF Entry
    <3>3. QED BY <2>5, <3>1, <3>2 DEF TakesOnPurpose
  <2>8. QED BY <2>3, <2>4, <2>7
<1>6. CASE Step(r)
  <2>1. c.rest # <<>> BY <1>6, StepAt
  <2>2. c.op # "next" BY <1>2, <1>3, AgentSteps
  <2>3. CASE PullFromOthers(r)
    <3>1. PICK k \in c.todo : queues' = [queues EXCEPT ![k].entries = PullTask(queues[k].entries, c.task)]
      BY <2>3 DEF PullFromOthers
    <3>2. /\ q = k /\ queues[q].entries \in Seq(Entry)
          /\ e \in ToSet(queues[q].entries) \ ToSet(PullTask(queues[k].entries, c.task))
      BY <1>1, <3>1, GoneFrom
    <3>3. e \in EntriesOf(queues[q].entries, c.task) BY <3>2, LeavesByPull DEF PullTask
    <3>4. e.task = c.task BY <3>3, EntriesOfAre
    <3>5. QED BY <2>2, <3>4 DEF AtWork
  <2>4. CASE PullEntry(r)
    <3> DEFINE new == PullOne(queues[c.from].entries, c.found)
    <3>1. Holds(c.from, c.task) /\ queues' = [queues EXCEPT ![c.from].entries = new]
      BY <1>3, <2>4 DEF PullEntry
    <3>2. /\ q = c.from /\ queues[q].entries \in Seq(Entry) /\ e \in ToSet(queues[q].entries) \ ToSet(new)
      BY <1>1, <3>1, GoneFrom
    <3>3. e \in c.found BY <3>2, LeavesByPull
    <3>4. c.task \in Tasks
      <4>1. PICK i \in DOMAIN queues[q].entries : queues[q].entries[i].task = c.task
        BY <3>1, <3>2 DEF Holds, HasTask
      <4>2. DOMAIN queues[q].entries = 1..Len(queues[q].entries) BY <3>2, LenProperties
      <4>3. queues[q].entries[i] \in Entry BY <3>2, <4>1, <4>2, ElementOfSeq
      <4>4. QED BY <4>1, <4>3 DEF Entry
    <3>5. AtWork(r, c.task) BY <2>2 DEF AtWork
    <3>6. Head(c.rest) = "pull" BY <2>4 DEF PullEntry, At
    <3>7. c.op \in Removers BY <1>2, <2>1, <3>6, HeadsOf
    <3>8. RemovePhase(c, c.task) BY <3>4, <3>5, <3>7 DEF EntriesInv, Phase
    <3>9. e.task = c.task BY <3>3, <3>6, <3>8 DEF RemovePhase
    <3>10. QED BY <3>5, <3>9
  <2>5. ~PushEntry(r) /\ ~MoveEntry(r) BY PushTakesNone, MoveTakesNone
  <2>6. ~EmptyQueue(r) /\ ~DropQueue(r) BY <1>2, NoneDrops
  <2>7. PullFromOthers(r) \/ PullEntry(r)
    BY <1>3, <1>6, <2>5, <2>6 DEF Step, ToQueued, CheckQueue, LogAdded, Revert,
       SetExecutionQueue, FindEntry, LogRemoved, RestoreStatus, ChangeStatus, TagTask, CleanupTask,
       DeleteDocument, ToCreated, SetPublishing, PublishModel, SetPublished, RollbackPublish,
       ReadPopped, FixPopped, DetachRead, DetachWrite
  <2>8. QED BY <2>3, <2>4, <2>7
<1>7. QED BY <1>5, <1>6

\* Queues stay, when nobody deletes one.
LEMMA QueuesStay ==
  ASSUME Inv, NEW r \in Procs, Request(r) \/ Step(r), ~DropQueue(r), NEW q \in Queues
  PROVE  queues'[q].exists = queues[q].exists
<1>1. queues \in [Queues -> QueueDoc] BY DEF Inv, TypeOK
<1>2. ASSUME NEW k, NEW entries, queues' = [queues EXCEPT ![k].entries = entries]
      PROVE  queues'[q].exists = queues[q].exists
  BY <1>1, <1>2 DEF QueueDoc
<1>3. CASE UNCHANGED queues BY <1>3
<1>4. CASE GetNextTask(r)
  <2>1. PICK k \in Queues : queues' = [queues EXCEPT ![k].entries = Tail(queues[k].entries)]
    BY <1>4 DEF GetNextTask
  <2>2. QED BY <1>2, <2>1
<1>5. CASE PushEntry(r)
  <2>1. \/ UNCHANGED queues
        \/ \E n \in 1..MaxAdded :
             queues' = [queues EXCEPT ![call[r].to].entries =
                          Push(queues[call[r].to].entries, [task |-> call[r].task, added |-> n])]
    BY <1>5 DEF PushEntry
  <2>2. QED BY <1>2, <1>3, <2>1
<1>6. CASE PullFromOthers(r)
  <2>1. PICK k \in call[r].todo :
          queues' = [queues EXCEPT ![k].entries = PullTask(queues[k].entries, call[r].task)]
    BY <1>6 DEF PullFromOthers
  <2>2. QED BY <1>2, <2>1
<1>7. CASE PullEntry(r)
  <2>1. \/ UNCHANGED queues
        \/ queues' = [queues EXCEPT ![call[r].from].entries =
                        PullOne(queues[call[r].from].entries, call[r].found)]
    BY <1>7 DEF PullEntry
  <2>2. QED BY <1>2, <1>3, <2>1
<1>8. CASE MoveEntry(r)
  <2>1. \/ UNCHANGED queues
        \/ queues' = [queues EXCEPT ![call[r].from].entries =
                        Reposition(queues[call[r].from].entries, call[r].task, call[r].move)]
    BY <1>8 DEF MoveEntry
  <2>2. QED BY <1>2, <1>3, <2>1
<1>9. CASE EmptyQueue(r)
  <2>1. UNCHANGED queues \/ queues' = [queues EXCEPT ![call[r].from].entries = <<>>]
    BY <1>9 DEF EmptyQueue
  <2>2. QED BY <1>2, <1>3, <2>1
<1>10. CASE Request(r) BY <1>3, <1>4, <1>10, RequestsReadTasks
<1>11. CASE Step(r)
  BY <1>3, <1>5, <1>6, <1>7, <1>8, <1>9, <1>11 DEF Step, ToQueued, CheckQueue, LogAdded, Revert,
     SetExecutionQueue, FindEntry, LogRemoved, RestoreStatus, ChangeStatus, TagTask, CleanupTask,
     DeleteDocument, ToCreated, SetPublishing, PublishModel, SetPublished, RollbackPublish,
     ReadPopped, FixPopped, DetachRead, DetachWrite
<1>12. QED BY <1>10, <1>11

\* A process that is not at work on a task takes its entry only to hand it to an agent.
LEMMA EntryStays ==
  ASSUME Inv, EntriesInv, NEW r \in Procs, Request(r) \/ Step(r), call[r].op # "drop",
         NEW t \in Tasks, ~AtWork(r, t), NEW q \in Queues, Holds(q, t)
  PROVE  Holds(q, t)' \/ WithAgent(t)'
<1> SUFFICES ASSUME ~Holds(q, t)' PROVE WithAgent(t)' OBVIOUS
<1>1. EntryPlan(call[r]) BY DEF EntriesInv, EntryPlansOK
<1>2. queues'[q].exists BY <1>1, NoneDrops, QueuesStay DEF Holds
<1>3. PICK i \in DOMAIN queues[q].entries : queues[q].entries[i].task = t BY DEF Holds, HasTask
<1> DEFINE e == queues[q].entries[i]
<1>4. e \in ToSet(queues[q].entries) BY <1>3 DEF ToSet
<1>5. e \notin ToSet(queues'[q].entries) BY <1>2, <1>3 DEF Holds, HasTask, ToSet
<1>6. e \in Gone(q) /\ e.task = t BY <1>3, <1>4, <1>5 DEF Gone
<1> HIDE DEF e
<1>7. call'[r].op = "next" /\ call'[r].task = t BY <1>6, Takes
<1>8. QED BY <1>7 DEF WithAgent

\* What a task keeps when a process takes a step that is not about it.
LEMMA LeftSafe ==
  ASSUME Inv, EntriesInv, NEW r \in Procs, Request(r) \/ Step(r), call[r].op # "drop", Hands,
         NEW t \in Tasks, ~AtWork(r, t)
  PROVE  /\ tasks'[t] = tasks[t] \/ WithAgent(t)'
         /\ tasks'[t].doc = tasks[t].doc /\ tasks'[t].queue = tasks[t].queue
         /\ tasks'[t].enqueue_status = tasks[t].enqueue_status
         /\ WithAgent(t) => WithAgent(t)'
         /\ Accounted(t) => Accounted(t)'
         /\ Safe(t) => Safe(t)'
         /\ \A q \in Queues : Holds(q, t) => Holds(q, t)' \/ WithAgent(t)'
<1>1. TypeOK /\ tasks[t] \in TaskDoc BY DEF Inv, TypeOK
<1>2. EntryPlan(call[r]) BY DEF EntriesInv, EntryPlansOK
<1>3. ~(At(r, "to_queued") /\ call[r].task = t)
  <2> SUFFICES ASSUME At(r, "to_queued"), call[r].task = t PROVE FALSE OBVIOUS
  <2>1. call[r].rest # <<>> /\ Head(call[r].rest) = "to_queued" BY DEF At
  <2>2. call[r].op = "enqueue" BY <1>2, <2>1, HeadsOf DEF AfterRemoval
  <2>3. QED BY <2>2 DEF AtWork
<1>4. WithAgent(t) => WithAgent(t)' BY <1>2, <1>3, AgentKeeps
<1>5. \A q \in Queues : Holds(q, t) => Holds(q, t)' \/ WithAgent(t)' BY EntryStays
<1>6. Left(t) BY <1>2, Bystander
<1>7. /\ tasks'[t].doc = tasks[t].doc /\ tasks'[t].queue = tasks[t].queue
      /\ tasks'[t].enqueue_status = tasks[t].enqueue_status
  BY <1>1, <1>6 DEF Left, TaskDoc
<1>8. tasks'[t] = tasks[t] \/ WithAgent(t)'
  <2>1. CASE call[r].task # t BY <1>1, <2>1, OtherTasksStay
  <2>2. CASE Request(r) BY <2>2, RequestsReadTasks
  <2>3. CASE call[r].task = t /\ Step(r)
    <3>1. call[r].op = "next" BY <2>3 DEF AtWork
    <3>2. WithAgent(t) BY <2>3, <3>1 DEF WithAgent
    <3>3. QED BY <1>4, <3>2
  <2>4. QED BY <2>1, <2>2, <2>3
<1>9. Accounted(t) => Accounted(t)' BY <1>4, <1>5 DEF Accounted, Nowhere
<1>10. Safe(t) => Safe(t)' BY <1>8, <1>9 DEF Safe, Unrestored, Accounted
<1>11. QED BY <1>4, <1>5, <1>7, <1>8, <1>9, <1>10

\* The handler at work on the task finds what it relies on.
LEMMA LeftAccount ==
  ASSUME Inv, EntriesInv, NEW r \in Procs, Request(r) \/ Step(r), call[r].op # "drop", Hands,
         NEW t \in Tasks, ~AtWork(r, t),
         NEW p \in Procs, call'[p] = call[p], Account(call[p], t)
  PROVE  Account(call[p], t)'
<1> DEFINE c == call[p]
<1>1. /\ tasks'[t] = tasks[t] \/ WithAgent(t)'
      /\ tasks'[t].doc = tasks[t].doc /\ tasks'[t].queue = tasks[t].queue
      /\ tasks'[t].enqueue_status = tasks[t].enqueue_status
      /\ WithAgent(t) => WithAgent(t)'
      /\ Accounted(t) => Accounted(t)'
      /\ Safe(t) => Safe(t)'
      /\ \A q \in Queues : Holds(q, t) => Holds(q, t)' \/ WithAgent(t)'
  BY LeftSafe
<1>2. EntryPlan(c) BY DEF EntriesInv, EntryPlansOK
<1>3. c.op = "enqueue" => c.to \in Queues BY <1>2 DEF EntryPlan
<1>4. \A q \in Queues : q = c.to => (Holds(q, t) => Holds(q, t)' \/ WithAgent(t)') BY <1>1
<1>5. WillRestore(c, t) => WillRestore(call[p], t)' BY <1>1 DEF WillRestore
<1>6. WillDetach(c, t) => WillDetach(call[p], t)' BY <1>1 DEF WillDetach, Visible
<1>7. ASSUME c.op = "enqueue", Head(c.rest) \in {"metrics", "set_queue", "pull_others"}
      PROVE  (WithAgent(t) \/ Holds(call[p].to, t))'
  <2>1. WithAgent(t) \/ Holds(c.to, t) BY <1>7 DEF Account
  <2>2. \A q \in Queues : q = c.to => Holds(q, t)' \/ WithAgent(t)' BY <1>1, <2>1
  <2>3. QED BY <1>3, <1>7, <2>2
<1>8. QED BY <1>1, <1>5, <1>6, <1>7 DEF Account

-----------------------------------------------------------------------------
(* A request begins.                                                       *)

MayAccount(r) == \A t \in Tasks : AtWork(r, t)' => Safe(t)

Accounts(r) == AccountPlan(call'[r]) /\ \A t \in Tasks : AtWork(r, t)' => Account(call'[r], t)

LEMMA AccountsFor ==
  ASSUME NEW r \in Procs, NEW t \in Tasks, call'[r].task = t, call'[r].work \in {{}, {t}},
         AccountPlan(call'[r]), AtWork(r, t)' => Account(call'[r], t)
  PROVE  Accounts(r)
BY DEF Accounts, AtWork

\* The calls after the removal.
Rest(op) == StepsOf(op) \ {"find", "pull"}

LEMMA RestIs ==
  /\ \A op : Rest(op) \subseteq AfterRemoval /\ Rest(op) \subseteq Steps /\ StepsOf(op) \subseteq Steps
  /\ \A op : Rest(op) \subseteq StepsOf(op) /\ {"find", "pull", "reload"} \subseteq StepsOf(op)
  /\ \A op : op # "stop" =>
       {"pull_others", "restore", "to_created", "cleanup", "tag", "delete_doc"} \subseteq Rest(op)
  /\ "change" \in Rest("stop")
BY DEF Rest, StepsOf, AfterRemoval, Steps

LEMMA WithdrawersAre ==
  ASSUME NEW op \in Withdrawers
  PROVE  op \notin {"none", "enqueue", "unarchive", "reposition", "change", "publish", "remove_update", "next", "drop"}
         /\ op \in Removers
BY EntryOpsAre DEF Withdrawers

LEMMA WithdrawerBegins ==
  ASSUME TypeOK, NEW r \in Procs, MayAccount(r), NEW t \in Tasks, Visible(t),
         NEW op, NEW c, Begin(r, op, c), c.op \in Withdrawers, NEW X \in Seq(Rest(c.op)),
         c.task = t, c.work = {}, c.from = tasks[t].queue, c.expect = tasks[t].status,
         c.rest = Dequeue(tasks[t]) \o X, c.op = "stop" => c.new # queued,
         tasks[t].status = queued => Settles(c.force, X)
  PROVE  Accounts(r)
<1>1. call'[r] = c /\ c.rest # <<>> BY DEF Begin, TypeOK
<1>2. AtWork(r, t)' BY <1>1, WithdrawersAre DEF AtWork
<1>3. Safe(t) BY <1>2 DEF MayAccount
<1>4. tasks[t] \in TaskDoc BY DEF TypeOK
<1>5. X \in Seq(Steps) /\ X \in Seq(AfterRemoval) /\ X \in Seq(StepsOf(c.op)) BY RestIs, SeqMonotonic
<1>6. RemoveTask \in Seq(Passes(c.force)) /\ RemoveTask \in Seq(StepsOf(c.op))
  BY DEF RemoveTask, Passes, StepsOf
<1>7. c.rest \in Seq(StepsOf(c.op))
  <2>1. Dequeue(tasks[t]) \in Seq(StepsOf(c.op)) BY <1>6, WhenInSeq DEF Dequeue
  <2>2. QED BY <1>5, <2>1, ConcatProperties
<1>8. /\ Safe(t) \/ WillRestore(c, t)
      /\ Head(c.rest) \in {"find", "pull"} => WillRestore(c, t)
  <2>1. CASE tasks[t].status = queued /\ tasks[t].queue # NoQueue
    <3>1. c.rest = RemoveTask \o X BY <2>1 DEF Dequeue, When
    <3>2. Settles(c.force, RemoveTask \o X) BY <1>5, <1>6, <2>1, SettlesAfter
    <3>3. c.from \in Queues BY <1>4, <2>1 DEF TaskDoc
    <3>4. WillRestore(c, t) BY <2>1, <3>1, <3>2, <3>3 DEF WillRestore, Visible
    <3>5. QED BY <3>4
  <2>2. CASE ~(tasks[t].status = queued /\ tasks[t].queue # NoQueue)
    <3>1. Dequeue(tasks[t]) = <<>> BY <2>2 DEF Dequeue, When
    <3>2. c.rest = X BY <3>1, ConcatEmptySeq
    <3>3. Head(c.rest) \notin {"find", "pull"} BY <1>1, <1>5, <3>2, HeadAfterRemoval DEF AfterRemoval
    <3>4. QED BY <1>3, <3>3
  <2>3. QED BY <2>1, <2>2
<1>9. AccountPlan(c) BY <1>7, WithdrawersAre DEF AccountPlan
<1>10. Account(c, t) BY <1>8, WithdrawersAre DEF Account
<1>11. QED BY <1>1, <1>9, <1>10, AccountsFor

LEMMA ChangesSettle ==
  ASSUME NEW op, op # "stop", NEW task, NEW all, NEW Y \in Seq(Rest(op)), NEW force
  PROVE  /\ Changes(task, all, Y) \in Seq(Rest(op))
         /\ task.status = queued => Settles(force, Changes(task, all, Y))
<1> DEFINE W == When(all, <<"pull_others">>)
           R == When(task.status \in RunningStatuses, <<"restore">>)
           P == <<"restore">>
<1>1. W \in Seq(Rest(op)) /\ R \in Seq(Rest(op)) /\ P \in Seq(Rest(op))
  <2>1. <<"pull_others">> \in Seq(Rest(op)) /\ <<"restore">> \in Seq(Rest(op)) BY RestIs
  <2>2. QED BY <2>1, WhenInSeq
<1>2. W \in Seq(Passes(force))
  <2>1. <<"pull_others">> \in Seq(Passes(force)) BY DEF Passes
  <2>2. QED BY <2>1, WhenInSeq
<1>3. task.status = queued => R = P BY DEF When, RunningStatuses
<1>4. P # <<>> /\ Head(P) = "restore" OBVIOUS
<1>5. Changes(task, all, Y) = (W \o R) \o Y BY DEF Changes
<1> HIDE DEF W, R, P
<1>6. (W \o R) \o Y = W \o (R \o Y) /\ R \o Y \in Seq(Rest(op)) BY <1>1, ConcatAssociative, ConcatProperties
<1>7. W \o (R \o Y) \in Seq(Rest(op)) BY <1>1, <1>6, ConcatProperties
<1>8. ASSUME task.status = queued PROVE Settles(force, W \o (R \o Y))
  <2>1. R = P BY <1>3, <1>8
  <2>2. R \o Y # <<>> /\ Head(R \o Y) = "restore" BY <1>1, <1>4, <2>1, ConcatHeadTail
  <2>3. R \o Y \in Seq(Steps) BY <1>6, RestIs, SeqMonotonic
  <2>4. Settles(force, R \o Y) BY <2>2, <2>3, SettlesAtOnce DEF Restores
  <2>5. QED BY <1>2, <2>3, <2>4, SettlesAfter
<1>9. QED BY <1>5, <1>6, <1>7, <1>8

LEMMA EnqueueAccounts ==
  ASSUME TasksServiceOnly, Inv, NEW r \in Procs, Enqueue(r), MayAccount(r)
  PROVE  Accounts(r)
<1> DEFINE c(t, q, force, op) ==
             [Idle EXCEPT !.op = op, !.task = t, !.to = q, !.force = force,
                !.expect = tasks[t].status, !.new = queued,
                !.enqueue_status = BeforeEnqueue(tasks[t]), !.todo = Queues \ {q},
                !.rest = EnqueueProgram(op, Queues \ {q})]
<1>1. PICK t \in Tasks, q \in Queues, force \in ForceFlags, op \in Enqueuers :
        Begin(r, op, c(t, q, force, op))
  BY DEF Enqueue, Enqueuers
<1> DEFINE d == c(t, q, force, op)
<1>2. call'[r] = d /\ op \in Ops[r] BY <1>1 DEF Begin, Inv, TypeOK
<1>3. op = "enqueue" BY <1>2 DEF TasksServiceOnly, EntryOps, Enqueuers
<1>4. /\ d.op = op /\ d.to = q /\ d.todo = Queues \ {q} /\ d.task = t /\ d.work = {}
      /\ d.rest = EnqueueProgram(op, Queues \ {q})
  BY DEF Idle
<1> HIDE DEF d
<1>5. Head(d.rest) = "to_queued"
  <2>1. d.rest = IF Queues \ {q} # {}
                 THEN <<"to_queued", "check", "push", "metrics", "set_queue", "pull_others">>
                 ELSE <<"to_queued", "check", "push", "metrics", "set_queue">>
    BY <1>3, <1>4, EnqueueProgramForms DEF Enqueuers
  <2>2. QED BY <2>1
<1>6. d.op \notin Withdrawers BY <1>3, <1>4 DEF Withdrawers
<1>7. AccountPlan(d) BY <1>3, <1>4, <1>6 DEF AccountPlan
<1>8. AtWork(r, t)' BY <1>2, <1>3, <1>4 DEF AtWork
<1>9. Account(d, t) BY <1>3, <1>4, <1>5, <1>6, <1>8 DEF Account, MayAccount
<1>10. QED BY <1>2, <1>4, <1>7, <1>9, AccountsFor

LEMMA DequeueAccounts ==
  ASSUME Inv, NEW r \in Procs, DequeueTask(r), MayAccount(r)
  PROVE  Accounts(r)
<1>1. TypeOK BY DEF Inv
<1> DEFINE base(t, op) == [Idle EXCEPT !.op = op, !.task = t, !.todo = Queues]
           a(t, op) == [base(t, op) EXCEPT !.rest = <<"pull_others">>]
           d(t, op, asked) ==
             [base(t, op) EXCEPT !.from = tasks[t].queue, !.expect = tasks[t].status,
                !.new = RestoredStatus(tasks[t], asked, NoStatus), !.force = TRUE,
                !.rest = DequeueAndChangeStatus(tasks[t], op = "dequeue_all")]
<1>2. PICK t \in Tasks, op \in {"dequeue", "dequeue_all"}, asked \in AskedStatuses :
        \/ Begin(r, op, a(t, op))
        \/ Visible(t) /\ Begin(r, op, d(t, op, asked))
  BY DEF DequeueTask
<1>3. /\ a(t, op).op = op /\ a(t, op).task = t /\ a(t, op).work = {} /\ a(t, op).rest = <<"pull_others">>
      /\ d(t, op, asked).op = op /\ d(t, op, asked).task = t /\ d(t, op, asked).work = {}
      /\ d(t, op, asked).from = tasks[t].queue /\ d(t, op, asked).expect = tasks[t].status
      /\ d(t, op, asked).rest = DequeueAndChangeStatus(tasks[t], op = "dequeue_all")
  BY DEF Idle
<1> HIDE DEF a, d
<1>4. op \in Withdrawers /\ op # "stop" BY DEF Withdrawers
<1>5. CASE Begin(r, op, a(t, op))
  <2>1. call'[r] = a(t, op) BY <1>1, <1>5 DEF Begin, TypeOK
  <2>2. AtWork(r, t)' BY <1>3, <1>4, <2>1, WithdrawersAre DEF AtWork
  <2>3. <<"pull_others">> \in Seq(StepsOf(op)) /\ Head(<<"pull_others">>) = "pull_others"
    BY <1>4 DEF StepsOf
  <2>4. AccountPlan(a(t, op)) BY <1>3, <1>4, <2>3, WithdrawersAre DEF AccountPlan
  <2>5. Safe(t) BY <2>2 DEF MayAccount
  <2>6. Account(a(t, op), t) BY <1>3, <1>4, <2>3, <2>5, WithdrawersAre DEF Account
  <2>7. QED BY <1>3, <2>1, <2>4, <2>6, AccountsFor
<1>6. CASE Visible(t) /\ Begin(r, op, d(t, op, asked))
  <2> DEFINE all == op = "dequeue_all"
             T == {"find", "pull", "reload", "pull_others", "restore"}
  <2>0. all \in BOOLEAN /\ d(t, op, asked).rest = DequeueAndChangeStatus(tasks[t], all) BY <1>3
  <2> HIDE DEF all
  <2>1. <<>> \in Seq(AfterRemoval) /\ <<>> \in Seq(Rest(op)) BY EmptySeq
  <2> DEFINE X == Changes(tasks[t], all, <<>>)
             force == d(t, op, asked).force
  <2>2. DequeueAndChangeStatus(tasks[t], all) \o <<>> = Dequeue(tasks[t]) \o X BY <2>1, ChangeThen
  <2>3. X \in Seq(Rest(op)) /\ (tasks[t].status = queued => Settles(force, X))
    BY <1>4, <2>1, ChangesSettle
  <2> HIDE DEF X
  <2>4. DequeueAndChangeStatus(tasks[t], all) \in Seq(T)
    <3>1. tasks[t] \in TaskDoc BY <1>1 DEF TypeOK
    <3>2. QED BY <2>0, <3>1, DequeuePrograms
  <2>5. d(t, op, asked).rest = Dequeue(tasks[t]) \o X BY <2>0, <2>2, <2>4, ConcatEmptySeq
  <2>6. QED BY <1>1, <1>3, <1>4, <1>6, <2>3, <2>5, WithdrawerBegins
<1>7. QED BY <1>2, <1>5, <1>6

LEMMA StopAccounts ==
  ASSUME Inv, NEW r \in Procs, StopTask(r), MayAccount(r)
  PROVE  Accounts(r)
<1>1. TypeOK BY DEF Inv
<1> DEFINE c(t, force) ==
             [Idle EXCEPT !.op = "stop", !.task = t, !.from = tasks[t].queue,
                !.expect = tasks[t].status, !.new = stopped, !.force = force,
                !.rest = Dequeue(tasks[t]) \o <<"change">>]
<1>2. PICK t \in Tasks, force \in ForceFlags : Visible(t) /\ Begin(r, "stop", c(t, force)) BY DEF StopTask
<1> DEFINE d == c(t, force)
<1>3. /\ d.op = "stop" /\ d.task = t /\ d.work = {} /\ d.from = tasks[t].queue
      /\ d.expect = tasks[t].status /\ d.new = stopped /\ d.rest = Dequeue(tasks[t]) \o <<"change">>
  BY DEF Idle
<1> HIDE DEF d
<1> DEFINE X == <<"change">>
<1>4. X \in Seq(Rest(d.op)) /\ X \in Seq(Steps) /\ X # <<>> /\ Head(X) = "change" BY <1>3, RestIs DEF Steps
<1>5. Settles(d.force, X) BY <1>4, SettlesAtOnce DEF Restores
<1>6. d.op \in Withdrawers BY <1>3 DEF Withdrawers
<1>7. stopped # queued BY DEF stopped, queued
<1>8. Begin(r, "stop", d) BY <1>2 DEF d
<1> HIDE DEF X
<1>9. d.rest = Dequeue(tasks[t]) \o X BY <1>3 DEF X
<1>10. QED BY <1>1, <1>2, <1>3, <1>4, <1>5, <1>6, <1>7, <1>8, <1>9, WithdrawerBegins

LEMMA ArchiveAccounts ==
  ASSUME Inv, NEW r \in Procs, ArchiveTask(r), MayAccount(r)
  PROVE  Accounts(r)
<1>1. TypeOK BY DEF Inv
<1> DEFINE c(t) ==
             [Idle EXCEPT !.op = "archive", !.task = t, !.from = tasks[t].queue,
                !.expect = tasks[t].status, !.new = RestoredStatus(tasks[t], NoStatus, stopped),
                !.force = TRUE, !.todo = Queues,
                !.rest = DequeueAndChangeStatus(tasks[t], TRUE) \o <<"tag">>]
<1>2. PICK t \in Tasks : Visible(t) /\ Begin(r, "archive", c(t)) BY DEF ArchiveTask
<1> DEFINE d == c(t)
           Y == <<"tag">>
           X == Changes(tasks[t], TRUE, Y)
<1>3. /\ d.op = "archive" /\ d.task = t /\ d.work = {} /\ d.from = tasks[t].queue
      /\ d.expect = tasks[t].status
      /\ d.rest = DequeueAndChangeStatus(tasks[t], TRUE) \o Y
  BY DEF Idle
<1>4. Begin(r, "archive", d) BY <1>2
<1> HIDE DEF d
<1>5. Y \in Seq(Rest(d.op)) /\ Y \in Seq(AfterRemoval) BY <1>3, RestIs DEF AfterRemoval
<1> HIDE DEF Y
<1>6. d.rest = Dequeue(tasks[t]) \o X BY <1>3, <1>5, ChangeThen
<1>7. X \in Seq(Rest(d.op)) /\ (tasks[t].status = queued => Settles(d.force, X))
  BY <1>3, <1>5, ChangesSettle
<1> HIDE DEF X
<1>8. d.op \in Withdrawers BY <1>3 DEF Withdrawers
<1>9. QED BY <1>1, <1>2, <1>3, <1>4, <1>6, <1>7, <1>8, WithdrawerBegins

LEMMA DeleteAccounts ==
  ASSUME Inv, NEW r \in Procs, DeleteTask(r), MayAccount(r)
  PROVE  Accounts(r)
<1>1. TypeOK BY DEF Inv
<1> DEFINE c(t, force) ==
             [Idle EXCEPT !.op = "delete", !.task = t, !.from = tasks[t].queue,
                !.expect = tasks[t].status, !.new = RestoredStatus(tasks[t], NoStatus, NoStatus),
                !.force = force, !.todo = Queues,
                !.rest = DequeueAndChangeStatus(tasks[t], TRUE) \o <<"cleanup", "delete_doc">>]
<1>2. PICK t \in Tasks, force \in ForceFlags : Visible(t) /\ Begin(r, "delete", c(t, force))
  BY DEF DeleteTask
<1> DEFINE d == c(t, force)
           Y == <<"cleanup", "delete_doc">>
           X == Changes(tasks[t], TRUE, Y)
<1>3. /\ d.op = "delete" /\ d.task = t /\ d.work = {} /\ d.from = tasks[t].queue
      /\ d.expect = tasks[t].status
      /\ d.rest = DequeueAndChangeStatus(tasks[t], TRUE) \o Y
  BY DEF Idle
<1>4. Begin(r, "delete", d) BY <1>2
<1> HIDE DEF d
<1>5. Y \in Seq(Rest(d.op)) /\ Y \in Seq(AfterRemoval) BY <1>3, RestIs DEF AfterRemoval
<1> HIDE DEF Y
<1>6. d.rest = Dequeue(tasks[t]) \o X BY <1>3, <1>5, ChangeThen
<1>7. X \in Seq(Rest(d.op)) /\ (tasks[t].status = queued => Settles(d.force, X))
  BY <1>3, <1>5, ChangesSettle
<1> HIDE DEF X
<1>8. d.op \in Withdrawers BY <1>3 DEF Withdrawers
<1>9. QED BY <1>1, <1>2, <1>3, <1>4, <1>6, <1>7, <1>8, WithdrawerBegins

\* A forced reset passes its cleanup and the validation of the transition.
LEMMA ResetAccounts ==
  ASSUME EveryRemovalRestores, Inv, NEW r \in Procs, ResetTask(r), MayAccount(r)
  PROVE  Accounts(r)
<1>1. TypeOK BY DEF Inv
<1> DEFINE legal(t, force) == ValidTransition(force, tasks[t].status, created)
           c(t, force) ==
             [Idle EXCEPT !.op = "reset", !.task = t, !.from = tasks[t].queue,
                !.expect = tasks[t].status, !.new = created, !.force = force, !.todo = Queues,
                !.rest = Dequeue(tasks[t]) \o <<"pull_others", "cleanup">>
                         \o When(legal(t, force), <<"to_created">>)]
<1>2. PICK t \in Tasks, force \in ForceFlags : Visible(t) /\ Begin(r, "reset", c(t, force)) BY DEF ResetTask
<1>3. force = TRUE
  <2>1. "reset" \in Ops[r] BY <1>2 DEF Begin
  <2>2. QED BY <2>1, ConstantsAssumption DEF EveryRemovalRestores
<1> DEFINE d == c(t, force)
           condition == legal(t, force)
<1>4. condition BY <1>3 DEF ValidTransition
<1>5. /\ d.op = "reset" /\ d.task = t /\ d.work = {} /\ d.from = tasks[t].queue
      /\ d.expect = tasks[t].status /\ d.force = force
      /\ d.rest = Dequeue(tasks[t]) \o <<"pull_others", "cleanup">> \o When(condition, <<"to_created">>)
  BY DEF Idle
<1>6. Begin(r, "reset", d) BY <1>2
<1> HIDE DEF d, legal, condition
<1> DEFINE X == Resets(condition)
<1>7. d.rest = Dequeue(tasks[t]) \o X BY <1>5, ResetThen
<1>8. X \in Seq(Rest(d.op)) /\ Settles(TRUE, X)
  <2> DEFINE A == <<"pull_others", "cleanup">>
             B == <<"to_created">>
  <2>1. X = A \o B BY <1>4 DEF Resets, When
  <2>2. /\ A \in Seq(Passes(TRUE)) /\ A \in Seq(Rest(d.op)) /\ B \in Seq(Rest(d.op)) /\ B \in Seq(Steps)
        /\ B # <<>> /\ Head(B) = "to_created"
    BY <1>5, RestIs DEF Passes, Steps
  <2> HIDE DEF A, B, X
  <2>3. Settles(TRUE, B) BY <2>2, SettlesAtOnce DEF Restores
  <2>4. QED BY <2>1, <2>2, <2>3, SettlesAfter, ConcatProperties
<1> HIDE DEF X
<1>9. d.op \in Withdrawers /\ d.op # "stop" BY <1>5 DEF Withdrawers
<1>10. QED BY <1>1, <1>2, <1>3, <1>5, <1>6, <1>7, <1>8, <1>9, WithdrawerBegins

LEMMA ReportAccounts ==
  ASSUME Inv, NEW r \in Procs, SetStatusFromCall(r) \/ PublishTask(r), MayAccount(r)
  PROVE  Accounts(r)
<1>1. TypeOK BY DEF Inv
<1>2. CASE SetStatusFromCall(r)
  <2> DEFINE c(t, force, new) ==
               [Idle EXCEPT !.op = "change", !.task = t, !.force = force,
                  !.expect = tasks[t].status, !.new = new, !.rest = <<"change">>]
  <2>1. PICK t \in Tasks, force \in ForceFlags,
              new \in {in_progress, stopped, failed, closed, completed} : Begin(r, "change", c(t, force, new))
    BY <1>2 DEF SetStatusFromCall
  <2> DEFINE d == c(t, force, new)
  <2>2. d.op = "change" /\ d.task = t /\ d.work = {} /\ d.rest = <<"change">> /\ d.new = new BY DEF Idle
  <2>3. call'[r] = d BY <1>1, <2>1 DEF Begin, TypeOK
  <2> HIDE DEF d
  <2>4. new # queued BY DEF in_progress, stopped, failed, closed, completed, queued
  <2>5. d.op \notin Withdrawers BY <2>2 DEF Withdrawers
  <2>6. AccountPlan(d) BY <2>2, <2>4, <2>5 DEF AccountPlan
  <2>7. AtWork(r, t)' BY <2>2, <2>3 DEF AtWork
  <2>8. Account(d, t) BY <2>2, <2>5, <2>7 DEF Account, MayAccount
  <2>9. QED BY <2>2, <2>3, <2>6, <2>8, AccountsFor
<1>3. CASE PublishTask(r)
  <2> DEFINE W(t) == When(tasks[t].status # publishing, <<"publishing">>)
             c(t, force) ==
               [Idle EXCEPT !.op = "publish", !.task = t, !.force = force,
                  !.expect = tasks[t].status, !.new = published,
                  !.rest = W(t) \o <<"publish_model", "published">>]
  <2>1. PICK t \in Tasks, force \in ForceFlags : Begin(r, "publish", c(t, force))
    BY <1>3 DEF PublishTask
  <2> DEFINE d == c(t, force)
  <2>2. /\ d.op = "publish" /\ d.task = t /\ d.work = {} /\ d.expect = tasks[t].status
        /\ d.rest = W(t) \o <<"publish_model", "published">>
    BY DEF Idle
  <2>3. call'[r] = d BY <1>1, <2>1 DEF Begin, TypeOK
  <2> HIDE DEF d
  <2>4. d.rest \in Seq(Publishing)
    <3>1. <<"publishing">> \in Seq(Publishing) /\ <<"publish_model", "published">> \in Seq(Publishing)
      BY DEF Publishing
    <3>2. W(t) \in Seq(Publishing) BY <3>1, WhenInSeq
    <3> HIDE DEF W
    <3>3. QED BY <2>2, <3>1, <3>2, ConcatProperties
  <2>5. d.op \notin Withdrawers BY <2>2 DEF Withdrawers
  <2>6. AccountPlan(d) BY <2>2, <2>4, <2>5 DEF AccountPlan
  <2>7. AtWork(r, t)' BY <2>2, <2>3 DEF AtWork
  <2>8. Safe(t) BY <2>7 DEF MayAccount
  <2>9. d.expect = queued /\ tasks[t].enqueue_status # NoStatus => Accounted(t)
    BY <2>2, <2>8 DEF Safe, Unrestored
  <2>10. Account(d, t) BY <2>2, <2>5, <2>8, <2>9 DEF Account
  <2>11. QED BY <2>2, <2>3, <2>6, <2>10, AccountsFor
<1>4. QED BY <1>2, <1>3

LEMMA RemoveAccounts ==
  ASSUME EveryRemovalRestores, Inv, NEW r \in Procs, RemoveTaskFromQueue(r), MayAccount(r)
  PROVE  Accounts(r)
<1>1. TypeOK BY DEF Inv
<1> DEFINE W(op) == When(op = "remove_update", <<"detach">>)
           c(t, q, op) ==
             [Idle EXCEPT !.op = op, !.task = t, !.from = q,
                !.found = EntriesOf(queues[q].entries, t), !.work = {t},
                !.rest = <<"pull">> \o W(op) \o <<"reload">>]
<1>2. PICK t \in Tasks, q \in Queues, op \in {"remove", "remove_update"} : Begin(r, op, c(t, q, op))
  BY DEF RemoveTaskFromQueue
<1> DEFINE d == c(t, q, op)
<1>3. /\ d.op = op /\ d.task = t /\ d.work = {t} /\ d.from = q
      /\ d.rest = <<"pull">> \o W(op) \o <<"reload">>
  BY DEF Idle
<1>4. call'[r] = d /\ op \in Ops[r] BY <1>1, <1>2 DEF Begin, TypeOK
<1> HIDE DEF d
<1>5. op = "remove_update" BY <1>4 DEF EveryRemovalRestores
<1>6. d.rest = <<"pull", "detach", "reload">>
  <2> DEFINE A == <<"pull">>
             B == <<"detach">>
             C == <<"reload">>
             AB == <<"pull", "detach">>
             ABC == <<"pull", "detach", "reload">>
  <2>1. /\ A \in Seq(Steps) /\ B \in Seq(Steps) /\ C \in Seq(Steps)
        /\ AB \in Seq(Steps) /\ ABC \in Seq(Steps)
    BY DEF Steps
  <2>2. /\ Len(A) = 1 /\ Len(B) = 1 /\ Len(C) = 1 /\ Len(AB) = 2 /\ Len(ABC) = 3
        /\ A[1] = AB[1] /\ B[1] = AB[2] /\ AB[1] = ABC[1] /\ AB[2] = ABC[2] /\ C[1] = ABC[3]
    OBVIOUS
  <2>3. d.rest = (A \o B) \o C BY <1>3, <1>5 DEF When
  <2> HIDE DEF A, B, C, AB, ABC
  <2>4. A \o B = AB
    <3>1. /\ Len(AB) = Len(A) + Len(B)
          /\ \A i \in 1..Len(A) : AB[i] = A[i]
          /\ \A i \in 1..Len(B) : AB[Len(A) + i] = B[i]
      BY <2>2
    <3>2. QED BY <2>1, <3>1, ConcatIs
  <2>5. AB \o C = ABC
    <3>1. /\ Len(ABC) = Len(AB) + Len(C)
          /\ \A i \in 1..Len(AB) : ABC[i] = AB[i]
          /\ \A i \in 1..Len(C) : ABC[Len(AB) + i] = C[i]
      BY <2>2
    <3>2. QED BY <2>1, <3>1, ConcatIs
  <2>6. QED BY <2>3, <2>4, <2>5 DEF ABC
<1>7. d.op \notin Withdrawers BY <1>3, <1>5 DEF Withdrawers
<1>8. AccountPlan(d) BY <1>3, <1>5, <1>6, <1>7 DEF AccountPlan
<1>9. AtWork(r, t)' BY <1>3, <1>4, <1>5 DEF AtWork
<1>10. Account(d, t) BY <1>3, <1>5, <1>7, <1>9 DEF Account, MayAccount
<1>11. QED BY <1>3, <1>4, <1>8, <1>10, AccountsFor

LEMMA OthersAccount ==
  ASSUME Inv, NEW r \in Procs, UnarchiveTask(r) \/ GetNextTask(r) \/ RepositionTask(r), MayAccount(r)
  PROVE  Accounts(r)
<1>1. TypeOK BY DEF Inv
<1>2. ASSUME NEW t \in Tasks, NEW c, call'[r] = c, c.task = t, c.work = {},
             c.op \in {"unarchive", "reposition"}
      PROVE  Accounts(r)
  <2>1. AtWork(r, t)' BY <1>2 DEF AtWork
  <2>2. c.op \notin Withdrawers BY <1>2 DEF Withdrawers
  <2>3. AccountPlan(c) BY <1>2, <2>2 DEF AccountPlan
  <2>4. Account(c, t) BY <1>2, <2>1, <2>2 DEF Account, MayAccount
  <2>5. QED BY <1>2, <2>3, <2>4, AccountsFor
<1>3. CASE UnarchiveTask(r)
  <2> DEFINE c(t) == [Idle EXCEPT !.op = "unarchive", !.task = t, !.rest = <<"tag">>]
  <2>1. PICK t \in Tasks : Begin(r, "unarchive", c(t)) BY <1>3 DEF UnarchiveTask
  <2> DEFINE d == c(t)
  <2>2. d.op = "unarchive" /\ d.task = t /\ d.work = {} BY DEF Idle
  <2>3. call'[r] = d BY <1>1, <2>1 DEF Begin, TypeOK
  <2> HIDE DEF d
  <2>4. QED BY <1>2, <2>2, <2>3
<1>4. CASE RepositionTask(r)
  <2> DEFINE c(t, q, move) ==
               [Idle EXCEPT !.op = "reposition", !.task = t, !.from = q, !.move = move,
                            !.rest = <<"reposition">>]
  <2>1. PICK t \in Tasks, q \in Queues, move \in Moves : Begin(r, "reposition", c(t, q, move))
    BY <1>4 DEF RepositionTask
  <2> DEFINE d == c(t, q, move)
  <2>2. d.op = "reposition" /\ d.task = t /\ d.work = {} BY DEF Idle
  <2>3. call'[r] = d BY <1>1, <2>1 DEF Begin, TypeOK
  <2> HIDE DEF d
  <2>4. QED BY <1>2, <2>2, <2>3
<1>5. CASE GetNextTask(r)
  <2> DEFINE c(q) == [Idle EXCEPT !.op = "next", !.task = Head(queues[q].entries).task,
                        !.rest = <<"pop_read">>]
  <2>1. PICK q \in Queues : Begin(r, "next", c(q)) BY <1>5 DEF GetNextTask
  <2> DEFINE d == c(q)
  <2>2. d.op = "next" BY DEF Idle
  <2>3. call'[r] = d BY <1>1, <2>1 DEF Begin, TypeOK
  <2> HIDE DEF d
  <2>4. AccountPlan(d) BY <2>2 DEF AccountPlan, Withdrawers
  <2>5. \A t : ~AtWork(r, t)' BY <2>2, <2>3 DEF AtWork
  <2>6. QED BY <2>3, <2>4, <2>5 DEF Accounts
<1>6. QED BY <1>3, <1>4, <1>5

LEMMA RestoresIsService == EveryRemovalRestores => TasksServiceOnly
BY DEF EveryRemovalRestores, TasksServiceOnly

LEMMA RequestAccounts ==
  ASSUME EveryRemovalRestores, Inv, NEW r \in Procs, Request(r), MayAccount(r)
  PROVE  Accounts(r)
<1>1. ~AddTaskToQueue(r) /\ ~MoveTaskToQueue(r) /\ ~ClearQueue(r) /\ ~DeleteQueue(r)
  BY DEF AddTaskToQueue, MoveTaskToQueue, ClearQueue, DeleteQueue, Begin, EveryRemovalRestores, EntryOps
<1>2. TasksServiceOnly BY RestoresIsService
<1>3. QED
  BY <1>1, <1>2, EnqueueAccounts, DequeueAccounts, StopAccounts, ArchiveAccounts, DeleteAccounts,
     ResetAccounts, ReportAccounts, RemoveAccounts, OthersAccount DEF Request

-----------------------------------------------------------------------------
(* The requests that take a task out of its queue.                         *)

\* What the invariant says of a task once the step of the handler at work on it is made.
Kept(r, t) ==
  /\ ~AtWork(r, t)' => Safe(t)'
  /\ AtWork(r, t)' => Account(call[r], t)'

LEMMA WithdrawerHead ==
  ASSUME NEW c, AccountPlan(c), c.op \in Withdrawers, c.rest # <<>>
  PROVE  /\ Head(c.rest) \in StepsOf(c.op) /\ c.rest \in Seq(Steps)
         /\ Tail(c.rest) \in Seq(StepsOf(c.op)) /\ c.work = {}
         /\ Head(c.rest) # "detach"
<1>1. c.rest \in Seq(StepsOf(c.op)) /\ c.work = {} BY DEF AccountPlan
<1>2. Head(c.rest) \in StepsOf(c.op) /\ Tail(c.rest) \in Seq(StepsOf(c.op)) BY <1>1, HeadTailProperties
<1>3. c.rest \in Seq(Steps) BY <1>1, RestIs, SeqMonotonic
<1>4. QED BY <1>1, <1>2, <1>3 DEF StepsOf

LEMMA SubSeqIsTails ==
  ASSUME NEW S, NEW s \in Seq(S), s # <<>>, Tail(s) # <<>>, Tail(Tail(s)) # <<>>
  PROVE  /\ SubSeq(s, Len(RemoveTask) + 1, Len(s)) = Tail(Tail(Tail(s)))
         /\ Tail(Tail(Tail(s))) \in Seq(S)
<1> DEFINE u == Tail(s)
           v == Tail(Tail(s))
           w == Tail(Tail(Tail(s)))
           x == SubSeq(s, 4, Len(s))
<1>1. Len(RemoveTask) = 3 BY DEF RemoveTask
<1>2. u \in Seq(S) /\ Len(u) = Len(s) - 1 /\ \A i \in 1..Len(u) : u[i] = s[i + 1] BY HeadTailProperties
<1>3. v \in Seq(S) /\ Len(v) = Len(u) - 1 /\ \A i \in 1..Len(v) : v[i] = u[i + 1]
  BY <1>2, HeadTailProperties
<1>4. w \in Seq(S) /\ Len(w) = Len(v) - 1 /\ \A i \in 1..Len(w) : w[i] = v[i + 1]
  BY <1>3, HeadTailProperties
<1>5. Len(s) \in Nat /\ Len(u) \in Nat /\ Len(v) \in Nat /\ Len(w) \in Nat
  BY <1>2, <1>3, <1>4, LenProperties
<1>6. /\ x \in Seq(S) /\ Len(x) = IF 4 <= Len(s) THEN Len(s) - 4 + 1 ELSE 0
      /\ \A i \in 1..(Len(s) - 4 + 1) : x[i] = s[4 + i - 1]
  OBVIOUS
<1> HIDE DEF u, v, w, x
<1>7. Len(x) = Len(w) BY <1>2, <1>3, <1>4, <1>5, <1>6
<1>8. \A i \in 1..Len(w) : x[i] = w[i]
  <2> TAKE i \in 1..Len(w)
  <2>1. w[i] = v[i + 1] /\ i + 1 \in 1..Len(v) BY <1>4, <1>5
  <2>2. v[i + 1] = u[i + 1 + 1] /\ i + 1 + 1 \in 1..Len(u) BY <1>3, <1>5, <2>1
  <2>3. u[i + 1 + 1] = s[i + 1 + 1 + 1] BY <1>2, <2>2
  <2>4. x[i] = s[4 + i - 1] BY <1>2, <1>3, <1>4, <1>5, <1>6
  <2>5. 4 + i - 1 = i + 1 + 1 + 1 OBVIOUS
  <2>6. QED BY <2>1, <2>2, <2>3, <2>4, <2>5
<1>9. x = w BY <1>4, <1>6, <1>7, <1>8, SeqEqual
<1>10. SubSeq(s, Len(RemoveTask) + 1, Len(s)) = SubSeq(s, 4, Len(s)) BY <1>1
<1>11. QED BY <1>4, <1>9, <1>10 DEF x, w

\* A handler that goes on with its program, without or with the step it is at.
LEMMA WithdrawerMoves ==
  ASSUME Inv, NEW r \in Procs, Step(r), EntryPlan(call[r]), AccountPlan(call[r]),
         call[r].op \in Withdrawers, call'[r] # Idle
  PROVE  /\ call'[r].op = call[r].op /\ call'[r].from = call[r].from /\ call'[r].force = call[r].force
         /\ call'[r].expect = call[r].expect /\ call'[r].new = call[r].new /\ call'[r].work = {}
         /\ call'[r].task = call[r].task
         /\ call'[r].rest \in Seq(StepsOf(call[r].op))
         /\ \/ call'[r].rest = Tail(call[r].rest)
            \/ call'[r].rest = call[r].rest /\ Head(call[r].rest) = "pull_others"
            \/ call'[r].rest = Tail(Tail(Tail(call[r].rest))) /\ Head(call[r].rest) = "find"
<1> DEFINE c == call[r]
           n == call'[r]
<1>1. TypeOK /\ c \in Call BY CallFacts DEF Inv
<1>2. c.rest # <<>> BY StepAt
<1>3. /\ Head(c.rest) \in StepsOf(c.op) /\ c.rest \in Seq(Steps) /\ c.rest \in Seq(StepsOf(c.op))
      /\ Tail(c.rest) \in Seq(StepsOf(c.op)) /\ c.work = {} /\ Head(c.rest) # "detach"
  BY <1>2, WithdrawerHead DEF AccountPlan
<1>4. Carries(c, n)
  <2>1. c.op # "move" BY DEF Withdrawers
  <2>2. QED BY <2>1, StepKeeps DEF Keeps
<1>5. /\ n.op = c.op /\ n.from = c.from /\ n.force = c.force
      /\ n.expect = c.expect /\ n.new = c.new /\ n.work = {}
  BY <1>3, <1>4 DEF Carries
<1>6. Continue(r) => n.rest = Tail(c.rest) /\ n.task = c.task BY <1>1, GotoIs DEF Continue
<1>7. ~Done(r) BY <1>1 DEF Done, Goto, TypeOK
<1>8. /\ n.rest \in Seq(StepsOf(c.op)) /\ n.task = c.task
      /\ \/ n.rest = Tail(c.rest)
         \/ n.rest = c.rest /\ Head(c.rest) = "pull_others"
         \/ n.rest = Tail(Tail(Tail(c.rest))) /\ Head(c.rest) = "find"
  <2>1. CASE Head(c.rest) = "find"
    <3> DEFINE d == [c EXCEPT !.found = EntriesOf(queues[c.from].entries, c.task)]
    <3>1. FindEntry(r) BY <2>1, StepAt
    <3>2. \/ Goto(r, d, Tail(c.rest)) /\ Holds(c.from, c.task)
          \/ Goto(r, c, SubSeq(c.rest, Len(RemoveTask) + 1, Len(c.rest)))
      BY <1>7, <3>1 DEF FindEntry
    <3>3. Goto(r, d, Tail(c.rest)) => n.rest = Tail(c.rest) /\ n.task = c.task
      BY <1>1 DEF Goto, TypeOK, Call
    <3>4. AtFind(c)
      <4>1. AtFind(c) \/ AtPull(c) \/ Removed(c) BY WithdrawersAre DEF EntryPlan
      <4>2. Removed(c) => Head(c.rest) \in AfterRemoval BY <1>2, HeadAfterRemoval DEF Removed
      <4>3. QED BY <2>1, <4>1, <4>2 DEF AtPull, AfterRemoval
    <3>5. /\ SubSeq(c.rest, Len(RemoveTask) + 1, Len(c.rest)) = Tail(Tail(Tail(c.rest)))
          /\ Tail(Tail(Tail(c.rest))) \in Seq(StepsOf(c.op))
      BY <1>3, <3>4, SubSeqIsTails DEF AtFind
    <3>6. Goto(r, c, SubSeq(c.rest, Len(RemoveTask) + 1, Len(c.rest)))
          => n.rest = Tail(Tail(Tail(c.rest))) /\ n.task = c.task
      BY <1>1, <3>5, GotoIs
    <3>7. QED BY <1>3, <2>1, <3>2, <3>3, <3>5, <3>6
  <2>2. CASE Head(c.rest) = "pull"
    <3> DEFINE d == [c EXCEPT !.found = {}, !.task = IF c.op = "remove_update" THEN NoTask ELSE @]
    <3>1. PullEntry(r) BY <2>2, StepAt
    <3>2. c.op \notin {"move", "remove_update"} BY DEF Withdrawers
    <3>3. Goto(r, d, Tail(c.rest)) BY <3>1, <3>2 DEF PullEntry
    <3>4. n.rest = Tail(c.rest) /\ n.task = c.task
      <4>1. d \in Call /\ d.task = c.task BY <1>1, <3>2 DEF Call
      <4> HIDE DEF d
      <4>2. QED BY <1>1, <3>3, <4>1, GotoIs
    <3>5. QED BY <1>3, <3>4
  <2>3. CASE Head(c.rest) = "pull_others"
    <3>1. PullFromOthers(r) BY <2>3, StepAt
    <3>2. PICK q \in c.todo : IF c.todo = {q} THEN Continue(r) ELSE call' = [call EXCEPT ![r].todo = @ \ {q}]
      BY <3>1 DEF PullFromOthers
    <3>3. c.todo # {q} => n.rest = c.rest /\ n.task = c.task BY <1>1, <3>2 DEF TypeOK, Call
    <3>4. QED BY <1>3, <1>6, <2>3, <3>2, <3>3
  <2>4. CASE Head(c.rest) \in {"reload", "change", "restore", "to_created", "cleanup", "tag", "delete_doc"}
    <3>1. Continue(r)
      BY <1>7, <2>4, StepAt DEF LogRemoved, ChangeStatus, RestoreStatus, ToCreated, CleanupTask,
         TagTask, DeleteDocument
    <3>2. QED BY <1>3, <1>6, <3>1
  <2>5. QED BY <1>3, <2>1, <2>2, <2>3, <2>4 DEF StepsOf
<1>9. QED BY <1>5, <1>8

\* A handler that has nothing left to restore, or that goes on to restore.
LEMMA KeptSafe ==
  ASSUME NEW r \in Procs, NEW t \in Tasks, Safe(t)', call'[r] = Idle \/ call'[r].op \in Withdrawers,
         GoesOn(r)
  PROVE  Kept(r, t)
<1>1. CASE call'[r] = Idle
  <2>1. ~AtWork(r, t)' BY <1>1, ConstantsAssumption DEF AtWork, Idle
  <2>2. QED BY <2>1 DEF Kept
<1>2. CASE call'[r] # Idle
  <2>1. call'[r].op \in Withdrawers /\ Removed(call'[r]) BY <1>2 DEF GoesOn
  <2>2. Head(call'[r].rest) \notin {"find", "pull"}
    BY <1>2, <2>1, HeadAfterRemoval DEF GoesOn, Removed, AfterRemoval
  <2>3. Account(call[r], t)' BY <2>1, <2>2, WithdrawersAre DEF Account
  <2>4. QED BY <2>3 DEF Kept
<1>3. QED BY <1>1, <1>2

LEMMA KeptWilling ==
  ASSUME NEW r \in Procs, NEW t \in Tasks, call'[r].op \in Withdrawers, call'[r].task = t,
         WillRestore(call[r], t)'
  PROVE  Kept(r, t)
<1>1. AtWork(r, t)' BY WithdrawersAre DEF AtWork
<1>2. Account(call[r], t)' BY WithdrawersAre DEF Account
<1>3. QED BY <1>1, <1>2 DEF Kept

LEMMA SafeUnchanged ==
  ASSUME NEW t \in Tasks, tasks'[t].status = tasks[t].status,
         tasks'[t].enqueue_status = tasks[t].enqueue_status,
         Nowhere(t) \/ UNCHANGED queues, WithAgent(t) => WithAgent(t)', Safe(t)
  PROVE  Safe(t)'
BY DEF Safe, Unrestored, Accounted, Nowhere, Holds

LEMMA WithdrawerKept ==
  ASSUME ~MetricsMayFail, Inv, EntriesInv, \A q \in Queues : queues[q].exists,
         NEW r \in Procs, Step(r), Hands, call[r].op \in Withdrawers, AccountPlan(call[r]),
         NEW t \in Tasks, AtWork(r, t), Account(call[r], t)
  PROVE  Kept(r, t)
<1> DEFINE c == call[r]
           n == call'[r]
<1>1. TypeOK /\ c \in Call BY CallFacts DEF Inv
<1>2. EntryPlan(c) /\ c.rest # <<>> BY StepAt DEF EntriesInv, EntryPlansOK
<1>3. /\ Head(c.rest) \in StepsOf(c.op) /\ c.rest \in Seq(Steps)
      /\ Tail(c.rest) \in Seq(Steps) /\ c.work = {}
  <2>1. Head(c.rest) \in StepsOf(c.op) /\ Tail(c.rest) \in Seq(StepsOf(c.op)) /\ c.rest \in Seq(Steps) /\ c.work = {}
    BY <1>2, WithdrawerHead
  <2>2. Tail(c.rest) \in Seq(Steps) BY <1>2, <2>1, HeadTailProperties
  <2>3. QED BY <2>1, <2>2
<1>4. c.task = t BY <1>3 DEF AtWork
<1>5. RemovePhase(c, t)
  <2>1. Phase(c, t) BY DEF EntriesInv
  <2>2. QED BY <2>1, WithdrawersAre DEF Phase
<1>6. tasks \in [Tasks -> TaskDoc] /\ tasks[t] \in TaskDoc BY <1>1 DEF TypeOK
<1>7. WithAgent(t) => WithAgent(t)'
  <2>1. ~At(r, "to_queued") BY <1>3 DEF At, StepsOf
  <2>2. QED BY <1>2, <2>1, AgentKeeps
<1>8. /\ Safe(t) \/ WillRestore(c, t)
      /\ Head(c.rest) \in {"find", "pull"} => WillRestore(c, t)
  BY DEF Account
<1>9. n # Idle => 
        /\ n.op = c.op /\ n.from = c.from /\ n.force = c.force /\ n.expect = c.expect /\ n.task = t
        /\ \/ n.rest = Tail(c.rest)
           \/ n.rest = c.rest /\ Head(c.rest) = "pull_others"
           \/ n.rest = Tail(Tail(Tail(c.rest))) /\ Head(c.rest) = "find"
  BY <1>2, <1>4, WithdrawerMoves
<1>10. ASSUME n # Idle, WillRestore(c, t), UNCHANGED tasks, Settles(n.force, n.rest)
       PROVE  Kept(r, t)
  <2>1. WillRestore(call[r], t)' BY <1>9, <1>10 DEF WillRestore
  <2>2. QED BY <1>9, <1>10, <2>1, KeptWilling
<1>11. ASSUME WillRestore(c, t)
       PROVE  /\ Head(c.rest) \in Restores
                 \/ (Head(c.rest) \in Passes(c.force) /\ Settles(c.force, Tail(c.rest)) /\ Tail(c.rest) # <<>>)
              /\ c.expect = queued /\ c.from \in Queues /\ tasks[t].doc # "absent"
  <2>1. Settles(c.force, c.rest) BY <1>11 DEF WillRestore
  <2>2. Head(c.rest) \in Restores \/ (Head(c.rest) \in Passes(c.force) /\ Settles(c.force, Tail(c.rest)))
    BY <1>3, <2>1, SettleStep
  <2>3. Settles(c.force, Tail(c.rest)) => Tail(c.rest) # <<>> BY <1>3, SettleStep
  <2>4. QED BY <1>11, <2>2, <2>3 DEF WillRestore
<1>12. Continue(r) /\ Tail(c.rest) # <<>> => n # Idle /\ n.rest = Tail(c.rest)
  <2>1. Continue(r) /\ Tail(c.rest) # <<>> => n.rest = Tail(c.rest) BY <1>1, GotoIs DEF Continue
  <2>2. Idle.rest = <<>> BY IdlePlan
  <2>3. QED BY <2>1, <2>2
<1>13. CASE Head(c.rest) = "find"
  <2>1. FindEntry(r) /\ WillRestore(c, t) BY <1>8, <1>13, StepAt
  <2>2. AtFind(c)
    <3>1. AtFind(c) \/ AtPull(c) \/ Removed(c) BY <1>2, WithdrawersAre DEF EntryPlan
    <3>2. Removed(c) => Head(c.rest) \in AfterRemoval BY <1>2, HeadAfterRemoval DEF Removed
    <3>3. QED BY <1>13, <3>1, <3>2 DEF AtPull, AfterRemoval
  <2> DEFINE u == Tail(c.rest)
             v == Tail(Tail(c.rest))
             w == Tail(Tail(Tail(c.rest)))
  <2>3. u # <<>> /\ Head(u) = "pull" /\ v # <<>> /\ Head(v) = "reload" BY <2>2 DEF AtFind
  <2>4. v \in Seq(Steps) BY <1>3, <2>3, HeadTailProperties
  <2>5. Settles(c.force, u) BY <1>11, <1>13, <2>1 DEF Restores
  <2>6. Settles(c.force, v) BY <1>3, <2>3, <2>5, SettleStep DEF Restores
  <2>7. Settles(c.force, w) BY <2>3, <2>4, <2>6, SettleStep DEF Restores
  <2>8. w \in Seq(Steps) BY <2>3, <2>4, HeadTailProperties
  <2>9. w # <<>> BY <2>7, <2>8, SettleStep
  <2>10. SubSeq(c.rest, Len(RemoveTask) + 1, Len(c.rest)) = w BY <1>2, <1>3, <2>3, SubSeqIsTails
  <2> DEFINE d == [c EXCEPT !.found = EntriesOf(queues[c.from].entries, c.task)]
  <2>11. c.op \in SwallowsApiError BY DEF SwallowsApiError, Withdrawers
  <2>12. Goto(r, d, u) \/ Goto(r, c, w) BY <2>1, <2>10, <2>11 DEF FindEntry
  <2>13. Goto(r, d, u) => n = [d EXCEPT !.rest = u] BY <1>1, <2>3 DEF Goto, TypeOK
  <2>14. Goto(r, c, w) => n = [c EXCEPT !.rest = w] BY <1>1, <2>9 DEF Goto, TypeOK
  <2> HIDE DEF u, v, w
  <2>15. n.op = c.op /\ n.force = c.force /\ (n.rest = u \/ n.rest = w)
    BY <1>1, <2>12, <2>13, <2>14 DEF Call
  <2>16. n # Idle BY <2>15, WithdrawersAre DEF Idle
  <2>17. UNCHANGED tasks BY <2>1 DEF FindEntry
  <2>18. Settles(n.force, n.rest) BY <2>5, <2>7, <2>15
  <2>19. QED BY <1>10, <2>1, <2>16, <2>17, <2>18
<1>14. CASE Head(c.rest) = "pull"
  <2>1. PullEntry(r) /\ WillRestore(c, t) BY <1>8, <1>14, StepAt
  <2>2. Settles(c.force, Tail(c.rest)) /\ Tail(c.rest) # <<>> BY <1>11, <1>14, <2>1 DEF Restores
  <2> DEFINE d == [c EXCEPT !.found = {}, !.task = IF c.op = "remove_update" THEN NoTask ELSE @]
  <2>3. Goto(r, d, Tail(c.rest)) BY <2>1, WithdrawersAre DEF PullEntry, Withdrawers
  <2>4. n = [d EXCEPT !.rest = Tail(c.rest)] BY <1>1, <2>2, <2>3 DEF Goto, TypeOK
  <2>5. n.op = c.op /\ n.force = c.force /\ n.rest = Tail(c.rest) BY <1>1, <2>4 DEF Call
  <2>6. n # Idle BY <2>5, WithdrawersAre DEF Idle
  <2>7. UNCHANGED tasks BY <2>1 DEF PullEntry
  <2>8. QED BY <1>10, <2>1, <2>2, <2>5, <2>6, <2>7
<1>15. CASE Head(c.rest) \notin {"find", "pull"}
  <2>1. Nowhere(t) BY <1>5, <1>15 DEF RemovePhase
  <2>2. Removed(c)
    <3>1. AtFind(c) \/ AtPull(c) \/ Removed(c) BY <1>2, WithdrawersAre DEF EntryPlan
    <3>2. QED BY <1>15, <3>1 DEF AtFind, AtPull
  <2>3. GoesOn(r) BY <2>2, RemovedGoesOn
  <2>4. Safe(t)' => Kept(r, t) BY <1>9, <2>3, KeptSafe
  <2>5. Safe(t) /\ UNCHANGED tasks => Safe(t)' BY <1>7, <2>1, SafeUnchanged
  <2>6. CASE Head(c.rest) \in {"reload", "pull_others", "cleanup"}
    <3>1. UNCHANGED tasks BY <2>6, StepAt DEF LogRemoved, PullFromOthers, CleanupTask
    <3>2. CASE Safe(t) BY <2>4, <2>5, <3>1, <3>2
    <3>3. CASE WillRestore(c, t)
      <4>1. Settles(c.force, Tail(c.rest)) /\ Tail(c.rest) # <<>> /\ c.from \in Queues /\ Head(c.rest) \in Passes(c.force)
        BY <1>11, <2>6, <3>3 DEF Restores
      <4>2. CASE Continue(r) BY <1>9, <1>10, <1>12, <3>1, <3>3, <4>1, <4>2
      <4>3. CASE Head(c.rest) = "reload"
        <5>1. Continue(r) BY <4>1, <4>3, StepAt DEF LogRemoved
        <5>2. QED BY <4>2, <5>1
      <4>4. CASE Head(c.rest) = "cleanup"
        <5>1. c.force BY <4>1, <4>4 DEF Passes
        <5>2. Continue(r) BY <4>4, <5>1, StepAt DEF CleanupTask
        <5>3. QED BY <4>2, <5>2
      <4>5. CASE Head(c.rest) = "pull_others"
        <5>1. PullFromOthers(r) BY <4>5, StepAt
        <5>2. PICK q \in c.todo : IF c.todo = {q} THEN Continue(r) ELSE call' = [call EXCEPT ![r].todo = @ \ {q}]
          BY <5>1 DEF PullFromOthers
        <5>3. CASE c.todo # {q}
          <6>1. n.rest = c.rest /\ n.op = c.op /\ n.force = c.force
            BY <1>1, <5>2, <5>3 DEF TypeOK, Call
          <6>2. n # Idle BY <6>1, WithdrawersAre DEF Idle
          <6>3. Settles(n.force, n.rest) BY <3>3, <6>1 DEF WillRestore
          <6>4. QED BY <1>10, <3>1, <3>3, <6>2, <6>3
        <5>4. QED BY <4>2, <5>2, <5>3
      <4>6. QED BY <2>6, <4>3, <4>4, <4>5
    <3>4. QED BY <1>8, <3>2, <3>3
  <2>7. CASE Head(c.rest) \in {"tag", "delete_doc"}
    <3>1. Safe(t) BY <1>8, <1>11, <2>7 DEF Restores, Passes
    <3>2. CASE TagTask(r)
      <4>1. \/ tasks' = tasks
            \/ tasks' = [tasks EXCEPT ![t] = [tasks[t] EXCEPT !.archived = (c.op = "archive")]]
        BY <1>4, <3>2 DEF TagTask, UpdateById
      <4>2. tasks'[t].status = tasks[t].status /\ tasks'[t].enqueue_status = tasks[t].enqueue_status
        BY <1>6, <4>1 DEF TaskDoc
      <4>3. QED BY <1>7, <2>1, <2>4, <3>1, <4>2, SafeUnchanged
    <3>3. CASE DeleteDocument(r)
      <4>1. tasks' = [tasks EXCEPT ![t] = DeletedTask] BY <1>4, <3>3 DEF DeleteDocument
      <4>2. tasks'[t] = DeletedTask BY <1>6, <4>1
      <4>3. tasks'[t].enqueue_status = NoStatus BY <4>2 DEF DeletedTask, NewTask
      <4>4. QED BY <2>4, <4>3 DEF Safe, Unrestored
    <3>4. QED BY <2>7, <3>2, <3>3, StepAt
  <2>8. CASE Head(c.rest) \in {"restore", "to_created", "change"}
    <3>1. CASE ~Matches(t, c.expect)
      <4>1. UNCHANGED tasks BY <1>4, <2>8, <3>1, StepAt DEF RestoreStatus, ToCreated, ChangeStatus, Execute
      <4>2. CASE Safe(t) BY <2>4, <2>5, <4>1, <4>2
      <4>3. CASE WillRestore(c, t)
        <5>1. tasks[t].status # queued BY <1>11, <3>1, <4>3 DEF Matches
        <5>2. QED BY <2>4, <4>1, <5>1 DEF Safe, Unrestored
      <4>4. QED BY <1>8, <4>2, <4>3
    <3>2. CASE Matches(t, c.expect)
      <4>1. CASE Head(c.rest) \in {"restore", "to_created"}
        <5>1. \/ tasks'[t] = [tasks[t] EXCEPT !.status = c.new, !.enqueue_status = NoStatus]
              \/ tasks'[t] = [tasks[t] EXCEPT !.status = created, !.enqueue_status = NoStatus,
                                              !.queue = NoQueue]
          BY <1>4, <1>6, <3>2, <4>1, StepAt DEF RestoreStatus, ToCreated, Execute
        <5>2. tasks'[t].enqueue_status = NoStatus BY <1>6, <5>1 DEF TaskDoc
        <5>3. QED BY <2>4, <5>2 DEF Safe, Unrestored
      <4>2. CASE Head(c.rest) = "change"
        <5>1. tasks' = [tasks EXCEPT ![t] = [tasks[t] EXCEPT !.status = c.new]]
          BY <1>4, <3>2, <4>2, StepAt DEF ChangeStatus, Execute
        <5>2. tasks'[t].status = c.new BY <1>6, <5>1 DEF TaskDoc
        <5>3. c.op = "stop" BY <1>3, <4>2 DEF StepsOf
        <5>4. c.new # queued BY <5>3 DEF AccountPlan
        <5>5. QED BY <2>4, <5>2, <5>4 DEF Safe, Unrestored
      <4>3. QED BY <2>8, <4>1, <4>2
    <3>3. QED BY <3>1, <3>2
  <2>9. QED BY <1>3, <1>15, <2>6, <2>7, <2>8 DEF StepsOf
<1>16. QED BY <1>13, <1>14, <1>15

-----------------------------------------------------------------------------
(* The requests that leave the queues as they are.                         *)

Resting == {"unarchive", "reposition", "change", "remove_update"}

LEMMA KeptAtRest ==
  ASSUME NEW r \in Procs, NEW t \in Tasks, Safe(t)', call'[r] = Idle \/ call'[r].op \in Resting
  PROVE  Kept(r, t)
<1>1. CASE call'[r] = Idle
  <2>1. ~AtWork(r, t)' BY <1>1, ConstantsAssumption DEF AtWork, Idle
  <2>2. QED BY <2>1 DEF Kept
<1>2. CASE call'[r].op \in Resting
  <2>1. Account(call[r], t)' BY <1>2 DEF Resting, Account, Withdrawers
  <2>2. QED BY <2>1 DEF Kept
<1>3. QED BY <1>1, <1>2

\* What is not about to enqueue a task leaves it with its agent.
LEMMA WithAgentStays ==
  ASSUME Inv, EntriesInv, NEW r \in Procs, Step(r), Hands, NEW t \in Tasks,
         call[r].op # "enqueue", WithAgent(t)
  PROVE  WithAgent(t)'
<1>1. EntryPlan(call[r]) /\ call[r].rest # <<>> BY StepAt DEF EntriesInv, EntryPlansOK
<1>2. ~At(r, "to_queued") BY <1>1, HeadsOf DEF At, AfterRemoval
<1>3. QED BY <1>1, <1>2, AgentKeeps

LEMMA TagKeeps ==
  ASSUME TypeOK, NEW r \in Procs, TagTask(r), NEW t \in Tasks
  PROVE  /\ tasks'[t].status = tasks[t].status /\ tasks'[t].enqueue_status = tasks[t].enqueue_status
         /\ UNCHANGED queues
<1> DEFINE u == call[r].task
<1>1. tasks \in [Tasks -> TaskDoc] /\ tasks[t] \in TaskDoc BY DEF TypeOK
<1>2. \/ tasks' = tasks
      \/ tasks' = [tasks EXCEPT ![u] = [tasks[u] EXCEPT !.archived = (call[r].op = "archive")]]
  BY DEF TagTask, UpdateById
<1>3. QED BY <1>1, <1>2 DEF TaskDoc, TagTask

\* Nobody loses its entry to a change of place.
LEMMA MoveKeeps ==
  ASSUME Inv, NEW r \in Procs, Step(r), MoveEntry(r), NEW t \in Tasks, NEW q \in Queues, Holds(q, t)
  PROVE  Holds(q, t)'
<1>1. ~DropQueue(r) BY DEF DropQueue, MoveEntry, At
<1>2. queues'[q].exists BY <1>1, QueuesStay DEF Holds
<1>3. PICK i \in DOMAIN queues[q].entries : queues[q].entries[i].task = t BY DEF Holds, HasTask
<1>4. queues[q].entries[i] \in ToSet(queues'[q].entries) BY MoveTakesNone DEF Gone, ToSet
<1>5. QED BY <1>2, <1>3, <1>4 DEF Holds, HasTask, ToSet

LEMMA OthersKept ==
  ASSUME Inv, EntriesInv, NEW r \in Procs, Step(r), Hands,
         call[r].op \in {"unarchive", "reposition"}, NEW t \in Tasks, Safe(t)
  PROVE  Kept(r, t)
<1> DEFINE c == call[r]
<1>1. TypeOK BY DEF Inv
<1>2. c.rest = <<"tag">> \/ c.rest = <<"reposition">> BY DEF EntriesInv, EntryPlansOK, EntryPlan
<1>3. (Head(c.rest) = "tag" \/ Head(c.rest) = "reposition") /\ Tail(c.rest) = <<>>
  BY <1>2, ShortPrograms
<1>4. TagTask(r) \/ MoveEntry(r) BY <1>3, StepAt
<1>5. call'[r] = Idle
  <2>1. Continue(r) => call'[r] = Idle BY <1>1, <1>3 DEF Continue, Goto, TypeOK
  <2>2. Done(r) => call'[r] = Idle BY <1>1 DEF Done, Goto, TypeOK
  <2>3. QED BY <1>4, <2>1, <2>2 DEF TagTask, MoveEntry
<1>6. WithAgent(t) => WithAgent(t)' BY WithAgentStays
<1>7. Safe(t)'
  <2>1. CASE TagTask(r) BY <1>1, <1>6, <2>1, TagKeeps, SafeUnchanged
  <2>2. CASE MoveEntry(r)
    <3>1. \A q \in Queues : Holds(q, t) => Holds(q, t)' BY <2>2, MoveKeeps
    <3>2. UNCHANGED tasks BY <2>2 DEF MoveEntry
    <3>3. QED BY <1>6, <3>1, <3>2 DEF Safe, Unrestored, Accounted, Nowhere
  <2>3. QED BY <1>4, <2>1, <2>2
<1>8. QED BY <1>5, <1>7, KeptAtRest

\* A report is made, or a task published, only where the task is in no queue.
LEMMA ReportKept ==
  ASSUME Inv, EntriesInv, NEW r \in Procs, Step(r), Hands, AccountPlan(call[r]),
         call[r].op = "change", NEW t \in Tasks, AtWork(r, t), Account(call[r], t)
  PROVE  Kept(r, t)
<1> DEFINE c == call[r]
<1>1. TypeOK BY DEF Inv
<1>2. c.rest = <<"change">> /\ c.new # queued /\ c.work = {} /\ c.task = t BY DEF AccountPlan, AtWork
<1>3. Head(c.rest) = "change" BY <1>2
<1>4. ChangeStatus(r) BY <1>3, StepAt
<1>5. call'[r] = Idle BY <1>1, <1>4 DEF ChangeStatus, Done, Goto, TypeOK
<1>6. RemovePhase(c, t)
  <2>1. Phase(c, t) BY DEF EntriesInv
  <2>2. QED BY <2>1, EntryOpsAre DEF Phase
<1>7. Nowhere(t) BY <1>3, <1>6 DEF RemovePhase
<1>8. WithAgent(t) => WithAgent(t)' BY WithAgentStays
<1>9. tasks \in [Tasks -> TaskDoc] /\ tasks[t] \in TaskDoc BY <1>1 DEF TypeOK
<1>10. CASE Matches(t, c.expect)
  <2>1. tasks' = [tasks EXCEPT ![t] = [tasks[t] EXCEPT !.status = c.new]]
    BY <1>2, <1>4, <1>10 DEF ChangeStatus, Execute
  <2>2. tasks'[t].status = c.new BY <1>9, <2>1 DEF TaskDoc
  <2>3. QED BY <1>2, <1>5, <2>2, KeptAtRest DEF Safe, Unrestored
<1>11. CASE ~Matches(t, c.expect)
  <2>1. UNCHANGED tasks BY <1>2, <1>4, <1>11 DEF ChangeStatus, Execute
  <2>2. Safe(t) BY DEF Account
  <2>3. Safe(t)' BY <1>7, <1>8, <2>1, <2>2, SafeUnchanged
  <2>4. QED BY <1>5, <2>3, KeptAtRest
<1>12. QED BY <1>10, <1>11

\* The calls of a publication, as far as they are still to be made.
LEMMA PublishMoves ==
  ASSUME Inv, NEW r \in Procs, Step(r), AccountPlan(call[r]), call[r].op = "publish", call'[r] # Idle
  PROVE  /\ call'[r].op = "publish" /\ call'[r].expect = call[r].expect /\ call'[r].work = {}
         /\ call'[r].rest \in Seq(Publishing)
<1> DEFINE c == call[r]
<1>1. TypeOK /\ c \in Call BY CallFacts DEF Inv
<1>2. c.rest \in Seq(Publishing) /\ c.work = {} /\ c.rest # <<>> BY StepAt DEF AccountPlan
<1>3. Head(c.rest) \in Publishing /\ Tail(c.rest) \in Seq(Publishing) BY <1>2, HeadTailProperties
<1>4. Carries(c, call'[r]) BY StepKeeps DEF Keeps
<1>5. Head(c.rest) # "detach" BY <1>3 DEF Publishing
<1>6. ~Done(r) BY <1>1 DEF Done, Goto, TypeOK
<1>7. Continue(r) => call'[r].rest \in Seq(Publishing)
  <2>1. Continue(r) => call'[r].rest = Tail(c.rest) BY <1>1, GotoIs DEF Continue
  <2>2. QED BY <1>3, <2>1
<1>8. PublishFails(r) => call'[r].rest \in Seq(Publishing)
  <2>1. PublishFails(r) => Goto(r, c, <<"rollback">>) BY <1>6 DEF PublishFails
  <2>2. Goto(r, c, <<"rollback">>) => call'[r].rest = <<"rollback">> BY <1>1, GotoIs
  <2>3. <<"rollback">> \in Seq(Publishing) BY DEF Publishing
  <2>4. QED BY <2>1, <2>2, <2>3
<1>9. Continue(r) \/ PublishFails(r)
  BY <1>3, <1>6, StepAt DEF Publishing, SetPublishing, PublishModel, SetPublished, RollbackPublish
<1>10. QED BY <1>2, <1>4, <1>5, <1>7, <1>8, <1>9 DEF Carries

\* A publication that fails writes back the status it read, by id: then the task must be
\* where it was when it was read.
LEMMA PublishKept ==
  ASSUME Inv, EntriesInv, NEW r \in Procs, Step(r), Hands, AccountPlan(call[r]),
         call[r].op = "publish", NEW t \in Tasks, AtWork(r, t), Account(call[r], t)
  PROVE  Kept(r, t)
<1> DEFINE c == call[r]
           n == call'[r]
<1>1. TypeOK BY DEF Inv
<1>2. c.rest \in Seq(Publishing) /\ c.work = {} /\ c.task = t /\ c.rest # <<>>
  BY StepAt DEF AccountPlan, AtWork
<1>3. Head(c.rest) \in Publishing BY <1>2, HeadTailProperties
<1>4. RemovePhase(c, t)
  <2>1. Phase(c, t) BY DEF EntriesInv
  <2>2. QED BY <2>1, EntryOpsAre DEF Phase
<1>5. Nowhere(t) BY <1>3, <1>4 DEF RemovePhase, Publishing
<1>6. WithAgent(t) => WithAgent(t)' BY WithAgentStays
<1>7. tasks \in [Tasks -> TaskDoc] /\ tasks[t] \in TaskDoc BY <1>1 DEF TypeOK
<1>8. /\ Unrestored(t) => WithAgent(t)
      /\ c.expect = queued /\ tasks[t].enqueue_status # NoStatus => WithAgent(t)
  BY <1>5 DEF Account, Safe, Accounted
<1>9. \/ tasks'[t].enqueue_status = NoStatus
      \/ /\ tasks'[t].enqueue_status = tasks[t].enqueue_status
         /\ \/ tasks'[t].status \in {tasks[t].status, publishing, published}
            \/ tasks'[t].status = c.expect /\ Head(c.rest) = "rollback"
  <2>1. CASE Head(c.rest) = "publish_model" BY <2>1, StepAt DEF PublishModel
  <2>2. CASE Head(c.rest) = "published"
    <3>1. \/ tasks' = [tasks EXCEPT ![t] = [tasks[t] EXCEPT !.status = published]]
          \/ tasks' = tasks
      BY <1>2, <2>2, StepAt DEF SetPublished, Execute
    <3>2. QED BY <1>7, <3>1 DEF TaskDoc
  <2>3. ASSUME NEW status, Save(t, status)
        PROVE  \/ tasks'[t].enqueue_status = NoStatus
               \/ /\ tasks'[t].enqueue_status = tasks[t].enqueue_status
                  /\ tasks'[t].status = status
    <3>1. tasks'[t] = IF tasks[t].doc = "absent" THEN [NewTask(status) EXCEPT !.doc = "partial"]
                      ELSE [tasks[t] EXCEPT !.status = status]
      BY <1>7, <2>3 DEF Save
    <3>2. CASE tasks[t].doc = "absent" BY <3>1, <3>2 DEF NewTask
    <3>3. CASE tasks[t].doc # "absent" BY <1>7, <3>1, <3>3 DEF TaskDoc
    <3>4. QED BY <3>2, <3>3
  <2>4. CASE Head(c.rest) = "publishing" BY <1>2, <2>3, <2>4, StepAt DEF SetPublishing
  <2>5. CASE Head(c.rest) = "rollback" BY <1>2, <2>3, <2>5, StepAt DEF RollbackPublish
  <2>6. QED BY <1>3, <2>1, <2>2, <2>4, <2>5 DEF Publishing
<1>10. publishing # queued /\ published # queued BY DEF publishing, published, queued
<1>11. Safe(t)' BY <1>6, <1>8, <1>9, <1>10 DEF Safe, Unrestored, Accounted
<1>12. c.expect = queued /\ tasks'[t].enqueue_status # NoStatus => Accounted(t)'
  BY <1>6, <1>8, <1>9 DEF Accounted
<1>13. CASE n = Idle BY <1>11, <1>13, KeptAtRest
<1>14. CASE n # Idle
  <2>1. n.op = "publish" /\ n.expect = c.expect BY <1>14, PublishMoves
  <2>2. Account(call[r], t)' BY <1>11, <1>12, <2>1 DEF Account, Withdrawers
  <2>3. QED BY <1>11, <2>2 DEF Kept
<1>15. QED BY <1>13, <1>14

-----------------------------------------------------------------------------
(* queues.remove_task, with the status to update.                          *)

LEMMA RemovePrograms ==
  /\ <<"pull", "detach", "reload">> # <<>> /\ <<"detach", "reload">> # <<>> /\ <<"reload">> # <<>>
  /\ Head(<<"pull", "detach", "reload">>) = "pull"
  /\ Tail(<<"pull", "detach", "reload">>) = <<"detach", "reload">>
  /\ Head(<<"detach", "reload">>) = "detach" /\ Tail(<<"detach", "reload">>) = <<"reload">>
  /\ Head(<<"reload">>) = "reload" /\ Tail(<<"reload">>) = <<>>
OBVIOUS

\* From the pull to the tasks to restore, one after the other, and to the end.
LEMMA RemoveMoves ==
  ASSUME Inv, NEW r \in Procs, Step(r), AccountPlan(call[r]), call[r].op = "remove_update"
  PROVE  /\ Head(call[r].rest) \in {"pull", "detach", "reload"}
         /\ call'[r] # Idle =>
              /\ call'[r].op = "remove_update" /\ call'[r].from = call[r].from
              /\ call'[r].rest \in {<<"detach", "reload">>, <<"reload">>}
         /\ Head(call[r].rest) = "pull" => 
              /\ call'[r] # Idle /\ call'[r].work = call[r].work
              /\ call'[r].rest = IF Holds(call[r].from, call[r].task) THEN <<"detach", "reload">>
                                 ELSE <<"reload">>
         /\ Head(call[r].rest) = "detach" /\ DetachRead(r) =>
              \E u \in call[r].work :
                IF Visible(u) /\ tasks[u].queue = call[r].from
                THEN /\ call'[r].task = u /\ call'[r].expect = tasks[u].status
                     /\ call'[r].work = call[r].work \ {u} /\ call'[r].rest = call[r].rest
                ELSE /\ call'[r].work = call[r].work \ {u} 
                     /\ call[r].work # {u} => call'[r].rest = call[r].rest
         /\ Head(call[r].rest) = "detach" /\ DetachWrite(r) =>
              /\ call'[r].work = call[r].work
              /\ call[r].work # {} => call'[r].rest = call[r].rest
<1> DEFINE c == call[r]
           n == call'[r]
<1>1. TypeOK /\ c \in Call BY CallFacts DEF Inv
<1>2. \/ c.rest = <<"pull", "detach", "reload">> /\ Head(c.rest) = "pull" /\ Tail(c.rest) = <<"detach", "reload">>
      \/ c.rest = <<"detach", "reload">> /\ Head(c.rest) = "detach" /\ Tail(c.rest) = <<"reload">>
      \/ c.rest = <<"reload">> /\ Head(c.rest) = "reload" /\ Tail(c.rest) = <<>>
  BY RemovePrograms DEF AccountPlan
<1>3. c.rest # <<>> BY <1>2, RemovePrograms
<1>4. n # Idle => n.op = "remove_update" /\ n.from = c.from BY StepKeeps DEF Keeps, Carries
<1>5. Idle.rest = <<>> BY IdlePlan
<1>6. ASSUME NEW d \in Call, NEW rest, Goto(r, d, rest), rest # <<>>
      PROVE  /\ n # Idle /\ n.rest = rest /\ n.task = d.task /\ n.work = d.work /\ n.expect = d.expect
  BY <1>1, <1>5, <1>6, GotoIs
<1>7. Done(r) => n = Idle BY <1>1 DEF Done, Goto, TypeOK
<1>8. CASE Head(c.rest) = "pull"
  <2> DEFINE hit == Holds(c.from, c.task)
             d == [c EXCEPT !.found = {}, !.task = IF c.op = "remove_update" THEN NoTask ELSE @]
             rest == IF hit THEN <<"detach", "reload">> ELSE <<"reload">>
  <2>1. PullEntry(r) /\ Tail(c.rest) = <<"detach", "reload">> BY <1>2, <1>8, StepAt
  <2>2. Goto(r, d, rest) BY <2>1 DEF PullEntry
  <2>3. d \in Call /\ d.work = c.work BY <1>1 DEF Call
  <2>4. rest # <<>> /\ rest \in {<<"detach", "reload">>, <<"reload">>} BY RemovePrograms
  <2> HIDE DEF d, rest
  <2>5. n # Idle /\ n.rest = rest /\ n.work = c.work BY <1>6, <2>2, <2>3, <2>4
  <2>6. QED BY <1>4, <1>8, <2>4, <2>5 DEF rest
<1>9. CASE Head(c.rest) = "reload"
  <2>1. LogRemoved(r) /\ Tail(c.rest) = <<>> BY <1>2, <1>9, StepAt
  <2>2. n = Idle BY <1>1, <1>7, <2>1 DEF LogRemoved, Continue, Goto, TypeOK
  <2>3. QED BY <1>9, <2>2
<1>10. CASE Head(c.rest) = "detach"
  <2>1. c.rest = <<"detach", "reload">> /\ Tail(c.rest) = <<"reload">> /\ Tail(c.rest) # <<>>
    BY <1>2, <1>10, RemovePrograms
  <2>2. DetachRead(r) \/ DetachWrite(r) BY <1>10, StepAt
  <2>3. ASSUME NEW d \in Call, DetachNext(r, d), d.rest = c.rest
        PROVE  /\ n.work = d.work /\ n.rest \in {c.rest, Tail(c.rest)}
               /\ d.work # {} => n.rest = c.rest
    BY <1>3, <1>6, <2>1, <2>3 DEF DetachNext
  <2>4. CASE DetachWrite(r)
    <3> DEFINE d == [c EXCEPT !.task = NoTask]
    <3>1. DetachNext(r, d) BY <2>4 DEF DetachWrite
    <3>2. d \in Call /\ d.work = c.work /\ d.rest = c.rest BY <1>1 DEF Call
    <3> HIDE DEF d
    <3>3. n.work = c.work /\ n.rest \in {c.rest, Tail(c.rest)} /\ (c.work # {} => n.rest = c.rest)
      BY <2>3, <3>1, <3>2
    <3>4. ~DetachRead(r) BY <2>4 DEF DetachRead, DetachWrite
    <3>5. QED BY <1>4, <1>10, <2>1, <3>3, <3>4
  <2>5. CASE DetachRead(r)
    <3>1. PICK u \in c.work :
            LET rest == [c EXCEPT !.work = @ \ {u}] IN
            IF Visible(u) /\ tasks[u].queue = c.from
            THEN Goto(r, [rest EXCEPT !.task = u, !.expect = tasks[u].status,
                            !.new = RestoredStatus(tasks[u], NoStatus, NoStatus)], c.rest)
            ELSE DetachNext(r, rest)
      BY <2>5 DEF DetachRead
    <3> DEFINE d == [c EXCEPT !.work = @ \ {u}]
               f == [d EXCEPT !.task = u, !.expect = tasks[u].status,
                              !.new = RestoredStatus(tasks[u], NoStatus, NoStatus)]
               named == Visible(u) /\ tasks[u].queue = c.from
    <3>2. d \in Call /\ d.rest = c.rest /\ d.work = c.work \ {u} BY <1>1 DEF Call
    <3>3. f \in Call /\ f.task = u /\ f.expect = tasks[u].status /\ f.work = c.work \ {u}
      <4>1. u \in Tasks BY <1>1 DEF Call
      <4>2. tasks[u] \in TaskDoc /\ tasks[u].status \in Statuses BY <1>1, <4>1 DEF TypeOK, TaskDoc
      <4>3. RestoredStatus(tasks[u], NoStatus, NoStatus) \in Statuses BY <4>2, RestoredStatusType
      <4>4. QED BY <1>1, <4>1, <4>2, <4>3 DEF Call
    <3>4. IF named THEN Goto(r, f, c.rest) ELSE DetachNext(r, d) BY <3>1
    <3> HIDE DEF d, f
    <3>5. named => /\ n.task = u /\ n.expect = tasks[u].status /\ n.work = c.work \ {u} /\ n.rest = c.rest
      BY <1>3, <1>6, <3>3, <3>4
    <3>6. ~named => n.work = c.work \ {u} /\ n.rest \in {c.rest, Tail(c.rest)}
                    /\ (c.work \ {u} # {} => n.rest = c.rest)
      BY <2>3, <3>2, <3>4
    <3>7. c.work # {u} => c.work \ {u} # {} OBVIOUS
    <3>8. n.rest \in {<<"detach", "reload">>, <<"reload">>} BY <2>1, <3>5, <3>6
    <3>9. ~DetachWrite(r) BY <2>5 DEF DetachRead, DetachWrite
    <3>10. QED BY <1>4, <1>10, <3>5, <3>6, <3>7, <3>8, <3>9
  <2>6. QED BY <2>2, <2>4, <2>5
<1>11. QED BY <1>2, <1>8, <1>9, <1>10

LEMMA RemoveUpdateKept ==
  ASSUME Inv, EntriesInv, NEW r \in Procs, Step(r), Hands, AccountPlan(call[r]),
         call[r].op = "remove_update", NEW t \in Tasks, AtWork(r, t), Account(call[r], t)
  PROVE  Kept(r, t)
<1> DEFINE c == call[r]
           n == call'[r]
<1>1. TypeOK BY DEF Inv
<1>2. Safe(t) \/ WillDetach(c, t) BY DEF Account
<1>3. RemovePhase(c, t)
  <2>1. Phase(c, t) BY DEF EntriesInv
  <2>2. QED BY <2>1, EntryOpsAre DEF Phase
<1>4. Head(c.rest) \in {"pull", "detach", "reload"} BY RemoveMoves
<1>5. n # Idle => n.op = "remove_update" /\ n.from = c.from BY RemoveMoves
<1>6. Safe(t)' => Kept(r, t) BY <1>5, KeptAtRest DEF Resting
<1>7. ASSUME n # Idle, Head(n.rest) = "detach", t \in n.work, tasks'[t].queue = c.from, Visible(t)'
      PROVE  Kept(r, t)
  <2>1. AtWork(r, t)' BY <1>5, <1>7 DEF AtWork
  <2>2. WillDetach(call[r], t)' BY <1>5, <1>7 DEF WillDetach
  <2>3. Account(call[r], t)' BY <1>5, <1>7, <2>2 DEF Account, Withdrawers
  <2>4. QED BY <2>1, <2>3 DEF Kept
<1>8. WithAgent(t) => WithAgent(t)' BY WithAgentStays
<1>9. tasks \in [Tasks -> TaskDoc] /\ tasks[t] \in TaskDoc BY <1>1 DEF TypeOK
<1>10. c.rest # <<>> BY StepAt
<1>11. CASE Head(c.rest) = "pull"
  <2>1. PullEntry(r) BY <1>11, StepAt
  <2>2. c.work = {c.task} BY <1>11 DEF AccountPlan
  <2>3. c.task = t /\ c.from \in Queues /\ c.from = tasks[t].queue BY <1>3, <1>11 DEF RemovePhase
  <2>4. /\ n # Idle /\ n.work = c.work
        /\ n.rest = IF Holds(c.from, c.task) THEN <<"detach", "reload">> ELSE <<"reload">>
    BY <1>11, RemoveMoves
  <2>5. UNCHANGED tasks BY <2>1 DEF PullEntry
  <2>6. CASE Holds(c.from, t)
    <3>1. tasks[t].doc = "present" BY <2>3, <2>6 DEF EntriesInv, Nowhere
    <3>2. Head(n.rest) = "detach" BY <2>3, <2>4, <2>6, RemovePrograms
    <3>3. Visible(t)' /\ tasks'[t].queue = c.from BY <2>3, <2>5, <3>1 DEF Visible
    <3>4. QED BY <1>7, <2>2, <2>3, <2>4, <3>2, <3>3
  <2>7. CASE ~Holds(c.from, t)
    <3>1. UNCHANGED queues BY <2>1, <2>3, <2>7 DEF PullEntry
    <3>2. Safe(t) BY <1>2, <1>11 DEF WillDetach
    <3>3. QED BY <1>6, <1>8, <2>5, <3>1, <3>2, SafeUnchanged
  <2>8. QED BY <2>6, <2>7
<1>12. CASE Head(c.rest) # "pull"
  <2>1. Nowhere(t) BY <1>3, <1>4, <1>12 DEF RemovePhase
  <2>2. ASSUME tasks'[t] = tasks[t], Safe(t) PROVE Kept(r, t)
    BY <1>6, <1>8, <2>1, <2>2, SafeUnchanged
  <2>3. CASE Head(c.rest) = "reload"
    <3>1. UNCHANGED tasks BY <2>3, StepAt DEF LogRemoved
    <3>2. Safe(t) BY <1>2, <2>3 DEF WillDetach
    <3>3. QED BY <2>2, <3>1, <3>2
  <2>4. CASE Head(c.rest) = "detach" /\ DetachRead(r)
    <3>1. UNCHANGED tasks /\ c.task = NoTask BY <2>4 DEF DetachRead
    <3>2. t \in c.work /\ c.task # t BY <3>1, ConstantsAssumption DEF AtWork
    <3>3. PICK u \in c.work :
            IF Visible(u) /\ tasks[u].queue = c.from
            THEN /\ n.task = u /\ n.expect = tasks[u].status
                 /\ n.work = c.work \ {u} /\ n.rest = c.rest
            ELSE /\ n.work = c.work \ {u} 
                 /\ c.work # {u} => n.rest = c.rest
      BY <2>4, RemoveMoves
    <3>4. CASE ~Unrestored(t)
      <4>1. Safe(t) BY <3>4 DEF Safe
      <4>2. QED BY <2>2, <3>1, <4>1
    <3>5. CASE Safe(t) BY <2>2, <3>1, <3>5
    <3>6. CASE Unrestored(t) /\ WillDetach(c, t)
      <4>1. Visible(t) /\ tasks[t].queue = c.from BY <3>2, <3>6 DEF WillDetach
      <4>2. n.rest = c.rest /\ (u # t => t \in n.work) BY <3>2, <3>3, <4>1
      <4>3. n # Idle BY <1>10, <4>2, IdlePlan
      <4>4. CASE u # t
        <5>1. tasks'[t].queue = c.from /\ Visible(t)' BY <3>1, <4>1 DEF Visible
        <5>2. QED BY <1>7, <2>4, <4>2, <4>3, <4>4, <5>1
      <4>5. CASE u = t
        <5>1. n.task = t /\ n.expect = tasks[t].status BY <3>3, <4>1, <4>5
        <5>2. n.expect = queued BY <3>6, <5>1 DEF Unrestored
        <5>3. Head(n.rest) = "detach" /\ tasks'[t].doc # "absent" BY <2>4, <3>1, <4>1, <4>2 DEF Visible
        <5>4. WillDetach(call[r], t)' BY <5>1, <5>2, <5>3 DEF WillDetach
        <5>5. Account(call[r], t)' BY <1>5, <4>3, <5>4 DEF Account, Withdrawers
        <5>6. AtWork(r, t)' BY <1>5, <4>3, <5>1 DEF AtWork
        <5>7. QED BY <5>5, <5>6 DEF Kept
      <4>6. QED BY <4>4, <4>5
    <3>7. QED BY <1>2, <3>4, <3>5, <3>6
  <2>5. CASE Head(c.rest) = "detach" /\ DetachWrite(r)
    <3>1. n.work = c.work /\ (c.work # {} => n.rest = c.rest) BY <2>5, RemoveMoves
    <3>2. c.task # t => tasks'[t] = tasks[t] BY <1>1, OtherTasksStay
    <3>3. CASE c.task = t /\ Matches(t, c.expect)
      <4>1. tasks'[t] = [tasks[t] EXCEPT !.status = c.new, !.enqueue_status = NoStatus, !.queue = NoQueue]
        BY <1>9, <2>5, <3>3 DEF DetachWrite, Execute
      <4>2. tasks'[t].enqueue_status = NoStatus BY <1>9, <4>1 DEF TaskDoc
      <4>3. QED BY <1>6, <4>2 DEF Safe, Unrestored
    <3>4. CASE ~(c.task = t /\ Matches(t, c.expect))
      <4>1. tasks'[t] = tasks[t] BY <2>5, <3>2, <3>4 DEF DetachWrite, Execute
      <4>2. CASE Safe(t) BY <2>2, <4>1, <4>2
      <4>3. CASE t \in c.work /\ tasks[t].queue = c.from /\ Visible(t)
        <5>1. n.rest = c.rest /\ t \in n.work BY <3>1, <4>3
        <5>2. n # Idle BY <1>10, <5>1, IdlePlan
        <5>3. tasks'[t].queue = c.from /\ Visible(t)' BY <4>1, <4>3 DEF Visible
        <5>4. QED BY <1>7, <2>5, <5>1, <5>2, <5>3
      <4>4. CASE c.task = t /\ c.expect = queued /\ tasks[t].doc # "absent"
        <5>1. tasks[t].status # queued BY <3>4, <4>4 DEF Matches
        <5>2. Safe(t) BY <5>1 DEF Safe, Unrestored
        <5>3. QED BY <2>2, <4>1, <5>2
      <4>5. QED BY <1>2, <4>2, <4>3, <4>4 DEF WillDetach
    <3>5. QED BY <3>3, <3>4
  <2>6. QED BY <1>4, <1>12, <2>3, <2>4, <2>5, StepAt
<1>13. QED BY <1>11, <1>12

-----------------------------------------------------------------------------
(* tasks.enqueue: from the push on, the task is in the queue it is for, or an agent has *)
(* popped it.                                                               *)

LEMMA KeptEnqueue ==
  ASSUME NEW r \in Procs, NEW t \in Tasks, call'[r].op = "enqueue", call'[r].task = t,
         Head(call'[r].rest) # "to_queued",
         Head(call'[r].rest) \in {"metrics", "set_queue", "pull_others"} =>
           WithAgent(t)' \/ \E q \in Queues : q = call'[r].to /\ Holds(q, t)'
  PROVE  Kept(r, t)
<1>1. AtWork(r, t)' BY DEF AtWork
<1>2. Account(call[r], t)' BY DEF Account, Withdrawers, Holds
<1>3. QED BY <1>1, <1>2 DEF Kept

LEMMA EnqueueKept ==
  ASSUME ~MetricsMayFail, Inv, EntriesInv, \A q \in Queues : queues[q].exists,
         NEW r \in Procs, Step(r), Hands, AccountPlan(call[r]),
         call[r].op = "enqueue", NEW t \in Tasks, AtWork(r, t), Account(call[r], t)
  PROVE  Kept(r, t)
<1> DEFINE c == call[r]
           n == call'[r]
<1>1. TypeOK /\ c \in Call BY CallFacts DEF Inv
<1>2. EntryPlan(c) BY DEF EntriesInv, EntryPlansOK
<1>3. c.to \in Queues /\ c.task = t /\ c.work = {} BY <1>2 DEF EntryPlan, AtWork
<1>4. /\ Continue(r) => Advances(r)
      /\ AddFails(r) => TakesBack(r)
      /\ Done(r) => n = Idle
  BY <1>1, EnqueueMoves
<1>5. tasks \in [Tasks -> TaskDoc] /\ tasks[t] \in TaskDoc BY <1>1 DEF TypeOK
<1>6. EnqueuePhase(c, t)
  <2>1. Phase(c, t) BY DEF EntriesInv
  <2>2. QED BY <2>1 DEF Phase
<1>7. ASSUME n = Idle, Safe(t)' PROVE Kept(r, t) BY <1>7, KeptAtRest
<1>8. ~(At(r, "to_queued") /\ Matches(t, c.expect)) /\ WithAgent(t) => WithAgent(t)'
  BY <1>2, AgentKeeps
<1>9. CASE c.rest = <<"revert">>
  <2>1. Head(c.rest) = "revert" BY <1>9
  <2>2. Revert(r) /\ n = Idle BY <1>4, <2>1, StepAt DEF Revert
  <2>3. Matches(t, queued) BY <1>6, <2>1 DEF EnqueuePhase, Matches
  <2>4. tasks'[t] = [tasks[t] EXCEPT !.status = c.expect, !.enqueue_status = NoStatus]
    BY <1>3, <1>5, <2>2, <2>3 DEF Revert, Execute
  <2>5. tasks'[t].enqueue_status = NoStatus BY <1>5, <2>4 DEF TaskDoc
  <2>6. QED BY <1>7, <2>2, <2>5 DEF Safe, Unrestored
<1>10. CASE c.rest # <<"revert">>
  <2>1. /\ Head(c.rest) \in {"to_queued", "check", "push", "metrics", "set_queue", "pull_others"}
        /\ Head(c.rest) = "to_queued" => Head(Tail(c.rest)) = "check"
        /\ Head(c.rest) = "check" => Head(Tail(c.rest)) = "push"
        /\ Head(c.rest) = "push" => Head(Tail(c.rest)) = "metrics"
        /\ Head(c.rest) = "metrics" => Head(Tail(c.rest)) = "set_queue"
        /\ Head(c.rest) = "set_queue" => Tail(c.rest) = <<>> \/ Head(Tail(c.rest)) = "pull_others"
        /\ Head(c.rest) = "pull_others" => Tail(c.rest) = <<>>
    BY <1>2, <1>10, EnqueueOrder
  <2>2. ASSUME Advances(r)
        PROVE  \/ n = Idle /\ Tail(c.rest) = <<>>
               \/ n.op = "enqueue" /\ n.task = t /\ n.to = c.to /\ n.rest = Tail(c.rest)
    <3> DEFINE u == Tail(c.rest)
    <3>1. n = IF u = <<>> THEN Idle ELSE [c EXCEPT !.rest = u] BY <2>2 DEF Advances
    <3> HIDE DEF u
    <3>2. CASE u = <<>> BY <3>1, <3>2 DEF u
    <3>3. CASE u # <<>>
      <4>1. n.op = c.op /\ n.task = c.task /\ n.to = c.to /\ n.rest = u BY <1>1, <3>1, <3>3 DEF Call
      <4>2. QED BY <1>3, <4>1 DEF u
    <3>4. QED BY <3>2, <3>3
  <2>3. ASSUME TakesBack(r) PROVE Kept(r, t)
    <3>1. n.op = "enqueue" /\ n.task = t /\ n.rest = <<"revert">> BY <1>1, <1>3, <2>3 DEF TakesBack, Call
    <3>2. Head(n.rest) = "revert" BY <3>1
    <3>3. QED BY <3>1, <3>2, KeptEnqueue
  <2>4. ASSUME Safe(t), UNCHANGED <<tasks, queues>>, WithAgent(t) => WithAgent(t)' PROVE Safe(t)'
    BY <2>4, SafeUnchanged
  <2>5. CASE Head(c.rest) = "to_queued"
    <3>1. ToQueued(r) /\ Safe(t) BY <2>5, StepAt DEF Account
    <3>2. CASE Matches(t, c.expect)
      <4>1. Advances(r) BY <1>3, <1>4, <3>1, <3>2 DEF ToQueued
      <4>2. CASE n = Idle /\ Tail(c.rest) = <<>>
        <5>1. Tail(c.rest) # <<>>
          <6>1. CASE c.rest \in Visiting
            <7>1. Tail(c.rest) \in Visiting BY <2>5, <6>1, VisitingSteps
            <7>2. QED BY <7>1, VisitingSteps
          <6>2. CASE c.rest \in NotVisiting
            <7>1. Tail(c.rest) \in NotVisiting BY <2>5, <6>2, NotVisitingSteps
            <7>2. QED BY <7>1, NotVisitingSteps
          <6>3. QED BY <1>2, <1>10, <6>1, <6>2 DEF EntryPlan
        <5>2. QED BY <4>2, <5>1
      <4>3. QED BY <2>1, <2>2, <2>5, <4>1, <4>2, KeptEnqueue
    <3>3. CASE ~Matches(t, c.expect)
      <4>1. UNCHANGED <<tasks, queues>> /\ n = Idle BY <1>3, <1>4, <3>1, <3>3 DEF ToQueued, Execute
      <4>2. QED BY <1>7, <1>8, <2>4, <3>1, <3>3, <4>1
    <3>4. QED BY <3>2, <3>3
  <2>6. ASSUME Head(c.rest) # "to_queued", WithAgent(t) PROVE WithAgent(t)' BY <1>8, <2>6 DEF At
  <2>7. CASE Head(c.rest) = "check"
    <3>1. Advances(r) \/ TakesBack(r) BY <1>4, <2>7, StepAt DEF CheckQueue
    <3>2. CASE Advances(r)
      <4>1. Tail(c.rest) # <<>>
        <5>1. CASE c.rest \in Visiting
          <6>1. Tail(c.rest) \in Visiting BY <2>7, <5>1, VisitingSteps
          <6>2. QED BY <6>1, VisitingSteps
        <5>2. CASE c.rest \in NotVisiting
          <6>1. Tail(c.rest) \in NotVisiting BY <2>7, <5>2, NotVisitingSteps
          <6>2. QED BY <6>1, NotVisitingSteps
        <5>3. QED BY <1>2, <1>10, <5>1, <5>2 DEF EntryPlan
      <4>2. QED BY <2>1, <2>2, <2>7, <3>2, <4>1, KeptEnqueue
    <3>3. QED BY <2>3, <3>1, <3>2
  <2>8. ASSUME WithAgent(t)' \/ \E q \in Queues : q = c.to /\ Holds(q, t)',
               Advances(r), Head(c.rest) # "to_queued"
        PROVE  Kept(r, t)
    <3>1. WithAgent(t)' \/ \E q \in Queues : q = c.to /\ Holds(q, t)' 
      BY <1>3, <2>8
    <3>2. CASE n = Idle
      <4>1. Safe(t)' BY <1>3, <3>1 DEF Safe, Accounted, Nowhere
      <4>2. QED BY <1>7, <3>2, <4>1
    <3>3. CASE n # Idle
      <4>1. n.op = "enqueue" /\ n.task = t /\ n.to = c.to /\ n.rest = Tail(c.rest)
        BY <2>2, <2>8, <3>3
      <4>2. Head(n.rest) # "to_queued" \/ n = Idle
        <5>1. CASE Tail(c.rest) = <<>>
          BY <2>8, <5>1 DEF Advances
        <5>2. CASE Tail(c.rest) # <<>>
          BY <2>1, <2>8, <4>1, <5>2
        <5>3. QED BY <5>1, <5>2
      <4>3. QED BY <3>1, <3>3, <4>1, <4>2, KeptEnqueue
    <3>4. QED BY <3>2, <3>3
  <2>9. CASE Head(c.rest) = "push"
    <3>1. PushEntry(r) BY <2>9, StepAt
    <3>2. CASE MayPush(c.to, t)
      <4>1. PICK k \in 1..MaxAdded :
              queues' = [queues EXCEPT ![c.to].entries = Push(queues[c.to].entries, [task |-> t, added |-> k])]
        BY <1>3, <3>1, <3>2 DEF PushEntry
      <4>2. Advances(r) BY <1>3, <1>4, <3>1, <3>2 DEF PushEntry
      <4> DEFINE e == [task |-> t, added |-> k]
                 s == queues[c.to].entries
                 x == Push(s, e)
      <4>3. s \in Seq(Entry) /\ e \in Entry /\ queues \in [Queues -> QueueDoc]
        BY <1>1, <1>3 DEF TypeOK, QueueDoc, Entry
      <4>4. queues' = [queues EXCEPT ![c.to].entries = x] BY <4>1
      <4>5. HasTask(x, t)
        <5>1. e.task = t OBVIOUS
        <5> HIDE DEF s, e
        <5>2. /\ Append(s, e) \in Seq(Entry) /\ Len(Append(s, e)) = Len(s) + 1 /\ Append(s, e)[Len(s) + 1] = e
          BY <4>3, AppendProperties
        <5>3. Len(s) \in Nat /\ DOMAIN Append(s, e) = 1..(Len(s) + 1) BY <4>3, <5>2, LenProperties
        <5>4. Len(s) + 1 \in DOMAIN Append(s, e) BY <5>3
        <5>5. QED BY <5>1, <5>2, <5>4 DEF HasTask, Push
      <4> HIDE DEF s, e, x
      <4>6. \A q \in Queues : q = c.to => queues'[q].entries = x /\ queues'[q].exists
        BY <1>3, <4>3, <4>4 DEF QueueDoc
      <4>7. \E q \in Queues : q = c.to /\ Holds(q, t)' BY <1>3, <4>5, <4>6 DEF Holds
      <4>8. QED BY <2>8, <2>9, <4>2, <4>7
    <3>3. CASE ~MayPush(c.to, t)
      <4>1. TakesBack(r) BY <1>3, <1>4, <3>1, <3>3 DEF PushEntry
      <4>2. QED BY <2>3, <4>1
    <3>4. QED BY <3>2, <3>3
  <2>10. CASE Head(c.rest) \in {"metrics", "set_queue"}
    <3>1. UNCHANGED queues /\ Advances(r)
      BY <1>3, <1>4, <2>10, StepAt DEF LogAdded, SetExecutionQueue
    <3>2. WithAgent(t) \/ Holds(c.to, t) BY <2>10 DEF Account
    <3>3. WithAgent(t)' \/ \E q \in Queues : q = c.to /\ Holds(q, t)'
      BY <1>3, <2>6, <2>10, <3>1, <3>2 DEF Holds
    <3>4. QED BY <2>8, <2>10, <3>1, <3>3
  <2>11. CASE Head(c.rest) = "pull_others"
    <3>1. PICK k \in c.todo :
            /\ queues' = [queues EXCEPT ![k].entries = PullTask(queues[k].entries, c.task)]
            /\ IF c.todo = {k} THEN Continue(r) ELSE call' = [call EXCEPT ![r].todo = @ \ {k}]
      BY <2>11, StepAt DEF PullFromOthers
    <3>2. k # c.to BY DEF AccountPlan
    <3>3. \A q \in Queues : q = c.to => queues'[q] = queues[q] BY <1>1, <3>1, <3>2 DEF TypeOK
    <3>4. WithAgent(t) \/ Holds(c.to, t) BY <2>11 DEF Account
    <3>5. WithAgent(t)' \/ \E q \in Queues : q = c.to /\ Holds(q, t)'
      BY <1>3, <2>6, <2>11, <3>3, <3>4 DEF Holds
    <3>6. CASE c.todo = {k} BY <1>4, <2>8, <2>11, <3>1, <3>5, <3>6
    <3>7. CASE c.todo # {k}
      <4>1. /\ n.op = "enqueue" /\ n.task = t /\ n.to = c.to /\ n.rest = c.rest
        BY <1>1, <1>3, <3>1, <3>7 DEF TypeOK, Call
      <4>2. QED BY <2>11, <3>5, <4>1, KeptEnqueue
    <3>8. QED BY <3>6, <3>7
  <2>12. QED BY <2>1, <2>5, <2>7, <2>9, <2>10, <2>11
<1>11. QED BY <1>9, <1>10

-----------------------------------------------------------------------------
(* The invariant holds.                                                    *)

LEMMA AllKept ==
  ASSUME ~MetricsMayFail, Inv, EntriesInv, \A q \in Queues : queues[q].exists,
         NEW r \in Procs, Step(r), Hands, AccountPlan(call[r]), call[r].op \notin {"drop", "remove"},
         NEW t \in Tasks, AtWork(r, t), Account(call[r], t)
  PROVE  Kept(r, t)
<1> DEFINE c == call[r]
<1>1. EntryPlan(c) /\ c.rest # <<>> BY StepAt DEF EntriesInv, EntryPlansOK
<1>2. c.op \in Removers \cup {"enqueue", "unarchive", "reposition"} BY <1>1, HeadsOf DEF AtWork
<1>3. c.op \in Withdrawers \cup {"change", "publish", "remove_update", "enqueue", "unarchive", "reposition"}
  BY <1>2, EntryOpsAre DEF Withdrawers
<1>4. CASE c.op \in Withdrawers BY <1>4, WithdrawerKept
<1>5. CASE c.op = "change" BY <1>5, ReportKept
<1>6. CASE c.op = "publish" BY <1>6, PublishKept
<1>7. CASE c.op = "remove_update" BY <1>7, RemoveUpdateKept
<1>8. CASE c.op = "enqueue" BY <1>8, EnqueueKept
<1>9. CASE c.op \in {"unarchive", "reposition"}
  <2>1. Safe(t) BY <1>9 DEF Account
  <2>2. QED BY <1>9, <2>1, OthersKept
<1>10. QED BY <1>3, <1>4, <1>5, <1>6, <1>7, <1>8, <1>9

LEMMA IdleAccounts == AccountPlan(Idle)
BY IdlePlan DEF AccountPlan, Withdrawers

\* What is left of a program is what the invariant says of it.
LEMMA AccountPlanStep ==
  ASSUME Inv, NEW r \in Procs, Step(r), EntryPlan(call[r]), AccountPlan(call[r])
  PROVE  AccountPlan(call'[r])
<1> DEFINE c == call[r]
           n == call'[r]
<1>1. TypeOK /\ c \in Call BY CallFacts DEF Inv
<1>2. c.rest # <<>> BY StepAt
<1>3. CASE n = Idle BY <1>3, IdleAccounts
<1>4. CASE n # Idle
  <2>1. n.op = c.op
    <3>1. c.op # "move" BY <1>2, EntryOpsAre DEF EntryPlan
    <3>2. QED BY <1>4, <3>1, StepKeeps DEF Keeps, Carries
  <2>2. CASE c.op = "enqueue"
    <3>1. n.to = c.to /\ n.todo \subseteq c.todo
      <4>1. /\ Continue(r) => Advances(r)
            /\ AddFails(r) => TakesBack(r)
            /\ ~Done(r)
        BY <1>1, <1>4, <2>2, EnqueueMoves
      <4>2. Advances(r) => n.to = c.to /\ n.todo = c.todo
        <5> DEFINE u == Tail(c.rest)
        <5>1. Advances(r) => n = [c EXCEPT !.rest = u] BY <1>4 DEF Advances
        <5> HIDE DEF u
        <5>2. QED BY <1>1, <5>1 DEF Call
      <4>3. TakesBack(r) => n.to = c.to /\ n.todo = c.todo BY <1>1 DEF TakesBack, Call
      <4>4. CASE PullFromOthers(r)
        <5>1. PICK q \in c.todo : IF c.todo = {q} THEN Continue(r) ELSE call' = [call EXCEPT ![r].todo = @ \ {q}]
          BY <4>4 DEF PullFromOthers
        <5>2. c.todo # {q} => n.to = c.to /\ n.todo = c.todo \ {q} BY <1>1, <5>1 DEF TypeOK, Call
        <5>3. QED BY <4>1, <4>2, <5>1, <5>2
      <4>5. Head(c.rest) \in {"to_queued", "check", "push", "metrics", "set_queue", "pull_others", "revert"}
        BY <1>2, <2>2, HeadsOf
      <4>6. QED
        BY <4>1, <4>2, <4>3, <4>4, <4>5, StepAt DEF ToQueued, CheckQueue, PushEntry, LogAdded,
           SetExecutionQueue, Revert
    <3>2. QED BY <2>1, <2>2, <3>1 DEF AccountPlan, Withdrawers
  <2>3. CASE c.op = "change"
    <3>1. Head(c.rest) = "change" BY <2>3 DEF AccountPlan
    <3>2. n = Idle BY <1>1, <3>1, StepAt DEF ChangeStatus, Done, Goto, TypeOK
    <3>3. QED BY <1>4, <3>2
  <2>4. CASE c.op = "publish"
    <3>1. n.op = "publish" /\ n.work = {} /\ n.rest \in Seq(Publishing) BY <1>4, <2>4, PublishMoves
    <3>2. QED BY <3>1 DEF AccountPlan, Withdrawers
  <2>5. CASE c.op = "remove_update"
    <3>1. n.rest \in {<<"detach", "reload">>, <<"reload">>} BY <1>4, <2>5, RemoveMoves
    <3>2. Head(n.rest) # "pull" BY <3>1, RemovePrograms
    <3>3. QED BY <2>1, <2>5, <3>1, <3>2 DEF AccountPlan, Withdrawers
  <2>6. CASE c.op \in Withdrawers
    <3>1. n.new = c.new /\ n.work = {} /\ n.rest \in Seq(StepsOf(c.op)) BY <1>4, <2>6, WithdrawerMoves
    <3>2. n.op \notin {"none", "enqueue", "unarchive", "reposition", "change", "publish", "remove_update", "next", "drop"}
      BY <2>1, <2>6, WithdrawersAre
    <3>3. QED BY <2>1, <2>6, <3>1, <3>2 DEF AccountPlan
  <2>7. CASE c.op \notin Withdrawers \cup {"enqueue", "change", "publish", "remove_update"}
    BY <2>1, <2>7 DEF AccountPlan, Withdrawers
  <2>8. QED BY <2>2, <2>3, <2>4, <2>5, <2>6, <2>7
<1>5. QED BY <1>3, <1>4

LEMMA AccountInit == MCInit => AccountInv
<1> SUFFICES ASSUME MCInit PROVE AccountInv OBVIOUS
<1>1. Init BY DEF MCInit
<1>2. \A p \in Procs : call[p] = Idle BY <1>1 DEF Init
<1>3. \A p \in Procs, t \in Tasks : ~AtWork(p, t) BY <1>2, ConstantsAssumption DEF AtWork, Idle
<1>4. \A q \in Queues : queues[q].exists BY <1>1 DEF Init
<1>5. ASSUME NEW t \in Tasks PROVE Safe(t)
  <2>1. PICK start \in [Tasks -> InitStatuses] : tasks = [u \in Tasks |-> NewTask(start[u])]
    BY <1>1 DEF Init
  <2>2. tasks[t] = NewTask(start[t]) BY <2>1
  <2>3. tasks[t].enqueue_status = NoStatus BY <2>2 DEF NewTask
  <2>4. QED BY <2>3 DEF Safe, Unrestored
<1>6. QED BY <1>2, <1>3, <1>4, <1>5, IdleAccounts DEF AccountInv

\* A process that begins a request finds no other at work on the task.
LEMMA NobodyAtWork ==
  ASSUME Inv, EntriesInv, Disciplined', NEW r \in Procs, Request(r),
         NEW t \in Tasks, AtWork(r, t)', NEW p \in Procs
  PROVE  ~AtWork(p, t)
<1>1. call[r] = Idle BY RequestsAreIdle DEF EntriesInv, EntryPlansOK, EntryPlan
<1>2. CASE p = r BY <1>1, <1>2, ConstantsAssumption DEF AtWork, Idle
<1>3. CASE p # r
  <2>1. call'[p] = call[p] BY <1>3, OwnStep
  <2>2. AtWork(p, t) => AtWork(p, t)' BY <2>1 DEF AtWork
  <2>3. QED BY <1>3, <2>2 DEF Disciplined
<1>4. QED BY <1>2, <1>3

LEMMA AccountAfter ==
  ASSUME Inv, EntriesInv, NEW r \in Procs, Request(r), call[r].op # "drop", Hands,
         NEW t \in Tasks, ~AtWork(r, t), AtWork(r, t)', Account(call'[r], t)
  PROVE  Account(call[r], t)'
<1> DEFINE n == call'[r]
<1>1. UNCHANGED <<tasks, queues>> BY RequestsRead DEF Inv
<1>2. /\ WithAgent(t) => WithAgent(t)'
      /\ Accounted(t) => Accounted(t)'
      /\ Safe(t) => Safe(t)'
  BY LeftSafe
<1>3. WillRestore(n, t) => WillRestore(call[r], t)' BY <1>1 DEF WillRestore
<1>4. WillDetach(n, t) => WillDetach(call[r], t)' BY <1>1 DEF WillDetach, Visible
<1>5. Holds(n.to, t) => Holds(call[r].to, t)' BY <1>1 DEF Holds
<1>6. QED BY <1>1, <1>2, <1>3, <1>4, <1>5 DEF Account

LEMMA AccountNext ==
  ASSUME EveryRemovalRestores, Inv, EntriesInv, Served, Disciplined, Disciplined', AccountInv,
         [MCNext]_mcvars
  PROVE  AccountInv'
<1>1. CASE UNCHANGED mcvars
  <2>1. UNCHANGED <<tasks, queues, call, handed>> BY <1>1 DEF mcvars, vars
  <2>2. (\A q \in Queues : queues[q].exists)' /\ (\A p \in Procs : AccountPlan(call[p]))'
    BY <2>1 DEF AccountInv
  <2>3. \A t \in Tasks : (Safe(t) <=> Safe(t)') /\ (Accounted(t) <=> Accounted(t)')
    BY <2>1 DEF Safe, Unrestored, Accounted, WithAgent, Nowhere, Holds
  <2>4. \A t \in Tasks, p \in Procs : AtWork(p, t) <=> AtWork(p, t)' BY <2>1 DEF AtWork
  <2>5. ASSUME NEW t \in Tasks, NEW p \in Procs, Account(call[p], t) PROVE Account(call[p], t)'
    <3>1. WillRestore(call[p], t) <=> WillRestore(call[p], t)' BY <2>1 DEF WillRestore
    <3>2. WillDetach(call[p], t) <=> WillDetach(call[p], t)' BY <2>1 DEF WillDetach, Visible
    <3>3. WithAgent(t) <=> WithAgent(t)' BY <2>1 DEF WithAgent
    <3>4. Holds(call[p].to, t) <=> Holds(call[p].to, t)' BY <2>1 DEF Holds
    <3>5. QED BY <2>1, <2>3, <2>5, <3>1, <3>2, <3>3, <3>4 DEF Account
  <2>6. QED BY <2>2, <2>3, <2>4, <2>5 DEF AccountInv
<1>2. CASE MCNext
  <2>1. Next /\ Hands BY <1>2 DEF MCNext, Hands
  <2>2. PICK r \in Procs : Request(r) \/ Step(r) BY <2>1 DEF Next
  <2>3. ~MetricsMayFail /\ TasksServiceOnly BY RestoresIsService DEF EveryRemovalRestores
  <2>4. \A p \in Procs : EntryPlan(call[p]) /\ AccountPlan(call[p])
    BY DEF EntriesInv, EntryPlansOK, AccountInv
  <2>5. \A p \in Procs \ {r} : call'[p] = call[p] BY <2>2, OwnStep
  <2>6. call[r].op \notin {"drop", "remove"}
    <3>1. call[r] = Idle => call[r].op = "none" BY DEF Idle
    <3>2. QED BY <3>1 DEF Served, EveryRemovalRestores
  <2>7. \A q \in Queues : queues[q].exists /\ queues'[q].exists
    <3>1. ~DropQueue(r) BY <2>4, <2>6, NoneDrops
    <3>2. QED BY <2>2, <3>1, QueuesStay DEF AccountInv
  <2>8. Request(r) => call[r] = Idle /\ Accounts(r)
    <3> SUFFICES ASSUME Request(r) PROVE call[r] = Idle /\ Accounts(r) OBVIOUS
    <3>1. call[r] = Idle BY <2>4, RequestsAreIdle DEF EntryPlan
    <3>2. \A t \in Tasks : AtWork(r, t)' => \A p \in Procs : ~AtWork(p, t) BY NobodyAtWork
    <3>3. MayAccount(r) BY <3>2 DEF MayAccount, AccountInv
    <3>4. QED BY <3>1, <3>3, RequestAccounts
  <2>9. \A p \in Procs : AccountPlan(call[p])'
    <3>1. AccountPlan(call'[r])
      <4>1. CASE Request(r) BY <2>8, <4>1 DEF Accounts
      <4>2. CASE Step(r) BY <2>4, <4>2, AccountPlanStep
      <4>3. QED BY <2>2, <4>1, <4>2
    <3>2. \A p \in Procs : AccountPlan(call'[p]) BY <2>4, <2>5, <3>1
    <3>3. QED BY <3>2
  <2>10. \A p \in Procs \ {r}, t \in Tasks : AtWork(p, t)' <=> AtWork(p, t) BY <2>5 DEF AtWork
  <2>11. ASSUME NEW t \in Tasks
         PROVE  /\ (\A p \in Procs : ~AtWork(p, t)') => Safe(t)'
                /\ \A p \in Procs : AtWork(p, t)' => Account(call[p], t)'
    <3>1. CASE AtWork(r, t) /\ Step(r)
      <4>1. Account(call[r], t) BY <3>1 DEF AccountInv
      <4>2. Kept(r, t) BY <2>1, <2>3, <2>4, <2>6, <2>7, <3>1, <4>1, AllKept
      <4>3. \A p \in Procs \ {r} : ~AtWork(p, t)' BY <2>10, <3>1 DEF Disciplined
      <4>4. QED BY <4>2, <4>3 DEF Kept
    <3>2. CASE Request(r) \/ ~AtWork(r, t)
      <4>1. ~AtWork(r, t) BY <2>8, <3>2, ConstantsAssumption DEF AtWork, Idle
      <4>2. Safe(t) => Safe(t)' BY <2>1, <2>2, <2>6, <4>1, LeftSafe
      <4>3. ASSUME \A p \in Procs : ~AtWork(p, t)' PROVE Safe(t)'
        <5>1. \A p \in Procs : ~AtWork(p, t) BY <2>10, <4>1, <4>3
        <5>2. QED BY <4>2, <5>1 DEF AccountInv
      <4>4. ASSUME NEW p \in Procs, AtWork(p, t)' PROVE Account(call[p], t)'
        <5>1. CASE p # r
          <6>1. Account(call[p], t) /\ call'[p] = call[p] BY <2>5, <2>10, <4>4, <5>1 DEF AccountInv
          <6>2. QED BY <2>1, <2>2, <2>6, <4>1, <6>1, LeftAccount
        <5>2. CASE p = r
          <6>1. Request(r)
            <7>1. Step(r) => FALSE BY <2>4, <4>1, <4>4, <5>2, Onward
            <7>2. QED BY <2>2, <7>1
          <6>2. Account(call'[r], t) BY <2>8, <4>4, <5>2, <6>1 DEF Accounts
          <6>3. QED BY <2>1, <2>6, <4>1, <4>4, <5>2, <6>1, <6>2, AccountAfter
        <5>3. QED BY <5>1, <5>2
      <4>5. QED BY <4>3, <4>4
    <3>3. QED BY <2>2, <3>1, <3>2
  <2>12. (\A q \in Queues : queues[q].exists)' BY <2>7
  <2>13. QED BY <2>9, <2>11, <2>12 DEF AccountInv
<1>3. QED BY <1>1, <1>2

LEMMA NoneStranded == AccountInv => NeverStranded
<1> SUFFICES ASSUME AccountInv, NEW t \in Tasks, Quiet(t), tasks[t].status = queued,
                    tasks[t].enqueue_status # NoStatus
             PROVE  t \in handed \/ \E q \in Queues : Holds(q, t)
  BY DEF NeverStranded
<1>1. \A p \in Procs : ~AtWork(p, t) /\ call[p].task # t BY DEF Quiet, AtWork
<1>2. Safe(t) BY <1>1 DEF AccountInv
<1>3. Accounted(t) BY <1>2 DEF Safe, Unrestored
<1>4. QED BY <1>1, <1>3 DEF Accounted, WithAgent, Nowhere

\* A task left queued is in a queue or was handed to an agent: of any number of clients of
\* the tasks service whose requests cannot end between the removal of an entry and the
\* restoring of its task, and of agents that pop at any moment, provided that nobody asks
\* about a task while another request about it is unanswered, and that statuses are
\* reported only of tasks that have left the queues.
THEOREM NobodyStranded ==
  ASSUME EveryRemovalRestores
  PROVE  MCSpec /\ []Disciplined => []NeverStranded
<1>1. TasksServiceOnly BY RestoresIsService
<1>2. MCInit => Init BY DEF MCInit
<1>3. [MCNext]_mcvars => [Next]_vars BY DEF MCNext, mcvars
<1>4. MCSpec => Spec BY <1>2, <1>3, PTL DEF MCSpec, Spec
<1>5. Spec => []Inv /\ []NoDuplicateEntries BY InitOK, NextOK, NoDuplicates, PTL DEF Spec
<1>6. Inv /\ NoDuplicateEntries /\ EntriesInv /\ Disciplined /\ Disciplined' /\ [Next]_vars
      => EntriesInv'
  BY <1>1, EntriesNext
<1>7. Spec /\ []Disciplined => []EntriesInv BY <1>5, <1>6, EntriesInit, PTL DEF Spec
<1>8. Spec => []Served
  <2>1. Inv /\ Served /\ [Next]_vars => Served' BY <1>1, ServedNext
  <2>2. Init => Served BY DEF Init, Served
  <2>3. QED BY <1>5, <2>1, <2>2, PTL DEF Spec
<1>9. Inv /\ EntriesInv /\ Served /\ Disciplined /\ Disciplined' /\ AccountInv /\ [MCNext]_mcvars
      => AccountInv'
  BY AccountNext
<1>10. MCSpec /\ []Disciplined => []AccountInv
  BY <1>4, <1>5, <1>7, <1>8, <1>9, AccountInit, PTL DEF MCSpec
<1>11. QED BY <1>10, NoneStranded, PTL

\* The same for one client that waits for each answer, and any number of agents.
THEOREM OneClientStrandsNobody ==
  ASSUME EveryRemovalRestores, SingleClient
  PROVE  MCSpec => []NeverStranded
<1>1. TasksServiceOnly BY RestoresIsService
<1>2. MCInit => Init BY DEF MCInit
<1>3. [MCNext]_mcvars => [Next]_vars BY DEF MCNext, mcvars
<1>4. MCSpec => Spec BY <1>2, <1>3, PTL DEF MCSpec, Spec
<1>5. Spec => []Inv BY InitOK, NextOK, PTL DEF Spec
<1>6. Inv /\ Served /\ [Next]_vars => Served' BY <1>1, ServedNext
<1>7. Init => Served BY DEF Init, Served
<1>8. Served => Disciplined BY OneClientIsDisciplined
<1>9. Spec => []Disciplined BY <1>5, <1>6, <1>7, <1>8, PTL DEF Spec
<1>10. QED BY <1>4, <1>9, NobodyStranded, PTL
=============================================================================
