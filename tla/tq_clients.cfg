SPECIFICATION Spec
CONSTANTS
  Procs <- TwoClients
  Ops <- TwoClientsOps
  Tasks = {t1}
  Queues = {q1, q2}
  NoTask = NoTask
  NoQueue = NoQueue
  ForceFlags = {FALSE}
  InitStatuses = {"created", "in_progress", "completed"}
  MaxAdded = 4
  MetricsMayFail = FALSE
SYMMETRY Symmetric
INVARIANTS AtMostOneQueue NoDuplicateEntries ProgramsOK
