SPECIFICATION MCSpec
CONSTANTS
  Procs <- OneClient
  Ops <- OneClientOps
  Tasks = {t1, t2}
  Queues = {q1, q2}
  NoTask = NoTask
  NoQueue = NoQueue
  ForceFlags = {TRUE}
  InitStatuses = {"created"}
  MaxAdded = 3
  MetricsMayFail = FALSE
SYMMETRY Symmetric
INVARIANTS EntryMeansQueued NeverStranded
PROPERTIES EntriesLeaveOnPurpose QueuesAreLines
