SPECIFICATION FairSpec
CONSTANTS
  Procs <- OneClient
  Ops <- PollingOps
  Tasks = {t1, t2}
  Queues = {q1}
  NoTask = NoTask
  NoQueue = NoQueue
  ForceFlags = {FALSE}
  InitStatuses = {"created"}
  MaxAdded = 3
  MetricsMayFail = FALSE
PROPERTIES EntriesAreTaken
