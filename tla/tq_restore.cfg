SPECIFICATION Spec
CONSTANTS
  Procs <- Alone
  Ops <- AloneOps
  Tasks = {t1}
  Queues = {q1, q2}
  NoTask = NoTask
  NoQueue = NoQueue
  ForceFlags = {FALSE}
  InitStatuses = {"created"}
  MaxAdded = 2
  MetricsMayFail = FALSE
PROPERTIES NeverRestoredToQueued
