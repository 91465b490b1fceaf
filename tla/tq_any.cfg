SPECIFICATION Spec
CONSTANTS
  Procs <- AnyClients
  Ops <- AnyOps
  Tasks = {t1}
  Queues = {q1, q2}
  NoTask = NoTask
  NoQueue = NoQueue
  ForceFlags = {FALSE}
  InitStatuses = {"created"}
  MaxAdded = 3
  MetricsMayFail = TRUE
SYMMETRY Symmetric
INVARIANT TypeOK
PROPERTIES StatusFollowsMachine
CHECK_DEADLOCK FALSE
