----------------------------- MODULE Watchdog -----------------------------
(***************************************************************************)
(* The non-responsive tasks watchdog, a thread of the server               *)
(* (bll/task/non_responsive_tasks_watchdog.py), with the workers whose      *)
(* reports keep their tasks alive.                                          *)
(***************************************************************************)
EXTENDS Workers

VARIABLE batch \* the tasks the current cycle has read and not handled

watchdogVars == <<entries, listed, request, runs, batch>>

Silent == {r \in Runs : runs[r].status = "in_progress" /\ runs[r].silent >= Threshold}

\* Mutant of Stoppable: the update does not compare the status.
Whatever(r) == TRUE

Stoppable(r) == runs[r].status = "in_progress"

\* Mutant of CleanupTasks: the comparison with the reference time is the wrong way round.
CleanupRecent ==
  /\ batch = {}
  /\ batch' = {r \in Runs : runs[r].status = "in_progress" /\ runs[r].silent < Threshold}
  /\ UNCHANGED workerVars

\* A cycle begins: the tasks that have been silent for too long.
CleanupTasks ==
  /\ batch = {}
  /\ batch' = Silent
  /\ UNCHANGED workerVars

\* One update per task, on the status that was read.
StopTask(r) ==
  /\ r \in batch
  /\ batch' = batch \ {r}
  /\ runs' = IF Stoppable(r) THEN [runs EXCEPT ![r] = [status |-> "stopped", silent |-> 0]] ELSE runs
  /\ UNCHANGED <<entries, listed, request>>

\* What clients do to the task meanwhile (TaskQueues has it call by call).
Complete(r) ==
  /\ runs[r].status = "in_progress"
  /\ runs' = [runs EXCEPT ![r] = [status |-> "completed", silent |-> 0]]
  /\ UNCHANGED <<entries, listed, request, batch>>

Start(r) ==
  /\ runs[r].status # "in_progress"
  /\ runs' = [runs EXCEPT ![r] = [status |-> "in_progress", silent |-> 0]]
  /\ UNCHANGED <<entries, listed, request, batch>>

WatchdogInit == WorkersInit /\ batch = {}

WatchdogNext ==
  \/ WorkersNext /\ UNCHANGED batch
  \/ CleanupTasks
  \/ \E r \in Runs : StopTask(r) \/ Complete(r) \/ Start(r)

WatchdogSpec == WatchdogInit /\ [][WatchdogNext]_watchdogVars

\* The clock runs, Redis drops expired keys, a request that is being served is served,
\* the watchdog loops for ever.
WatchdogFairness ==
  /\ WF_watchdogVars(Tick /\ UNCHANGED batch)
  /\ \A w \in Workers : /\ WF_watchdogVars(EntryExpires(w) /\ UNCHANGED batch)
                        /\ WF_watchdogVars(Serve(w) /\ UNCHANGED batch)
  /\ WF_watchdogVars(CleanupTasks) /\ \A r \in Runs : WF_watchdogVars(StopTask(r))

WatchdogTypeOK == WorkersTypeOK /\ batch \subseteq Runs

\* A task that nobody reports is stopped in the end, also when its worker has died or
\* reports other tasks.
SilentTasksStop ==
  \A r \in Runs : runs[r].status = "in_progress" /\ runs[r].silent > 0
                    ~> (runs[r].status # "in_progress" \/ runs[r].silent = 0)

\* The watchdog does not take back a result: a task that completes after a cycle has
\* read it as silent stays completed.
FinishedTasksStay ==
  [][\A r \in Runs : runs[r].status = "completed" => runs'[r].status # "stopped"]_runs
=============================================================================
