----------------------------- MODULE TaskStatus -----------------------------
(***************************************************************************)
(* The life cycle of a task as bll/task/utils.py defines it: the statuses, *)
(* the table of transitions a client may ask for, and the check that every *)
(* ChangeStatusRequest makes before it touches the database.               *)
(* A constant module: it has no state of its own.                          *)
(***************************************************************************)

created     == "created"
queued      == "queued"
in_progress == "in_progress"
stopped     == "stopped"
publishing  == "publishing"
published   == "published"
closed      == "closed"
failed      == "failed"
completed   == "completed"

\* "unknown" is a member of the class too, but no code assigns it and the state
\* machine has no entry for it.
Statuses == { created, queued, in_progress, stopped, publishing, published,
              closed, failed, completed }

\* An absent enqueue_status.
NoStatus == "none"

state_machine ==
  [ s \in Statuses |->
      CASE s = created     -> {queued, in_progress}
        [] s = queued      -> {created, in_progress, stopped}
        [] s = in_progress -> {stopped, failed, created, completed}
        [] s = stopped     -> {closed, created, failed, queued, in_progress,
                               published, publishing, completed}
        [] s = closed      -> {created, failed, published, publishing, stopped}
        [] s = failed      -> {created, stopped, published, queued}
        [] s = publishing  -> {published}
        [] s = published   -> {}
        [] s = completed   -> {published, in_progress, created} ]

\* validate_status_change: the strict check, which publish_task makes on its own.
ValidChange(current, new) == new \in state_machine[current]

\* ChangeStatusRequest.validate_transition: a forced request is not checked, and
\* asking for the status the task already has is allowed.
ValidTransition(force, current, new) ==
  force \/ new = current \/ ValidChange(current, new)

\* Mutant of RunningStatuses: a queued task is not rolled back.
RunningOnly == {in_progress}

\* task_running_statuses: what dequeue_and_change_status rolls back.
RunningStatuses == {queued, in_progress}
=============================================================================
