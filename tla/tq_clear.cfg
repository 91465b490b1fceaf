SPECIFICATION Spec
CONSTANTS
  Procs <- AnyClients
  Ops <- ClearingOps
  Tasks = {t1, t2}
  Queues = {q1}
  NoTask = NoTask
  NoQueue = NoQueue
  ForceFlags = {FALSE}
  InitStatuses = {"created"}
  MaxAdded = 2
  MetricsMayFail = FALSE
PROPERTIES EmptiedOnlyOfTasksSeen
