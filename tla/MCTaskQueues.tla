---------------------------- MODULE MCTaskQueues ----------------------------
(* Instances of TaskQueues for TLC: which endpoints each process serves.   *)
EXTENDS TaskQueues

Symmetric == Permutations(Tasks) \cup Permutations(Queues)

\* Two clients that only use the tasks service on the same task, and an agent.
TwoClients == {"client1", "client2", "agent"}
TwoClientsOps ==
  [ p \in TwoClients |->
      CASE p = "client1" -> {"enqueue", "enqueue_keep", "dequeue_all"}
        [] p = "client2" -> {"enqueue", "reset"}
        [] p = "agent"   -> {"next"} ]

\* One client, which waits for each answer, and an agent.
OneClient == {"client", "agent"}
OneClientOps ==
  [ p \in OneClient |->
      IF p = "agent" THEN {"next"}
      ELSE {"enqueue", "dequeue", "archive", "delete",
            "remove_update", "reposition"} ]

\* Two clients that mix the tasks service with direct requests to the queues.
AnyClients == {"client1", "client2"}
AnyOps ==
  [ p \in AnyClients |->
      IF p = "client1" THEN {"enqueue", "move", "publish", "reposition"}
      ELSE {"change", "stop", "next", "drop_forced"} ]

\* A client that fills and empties one queue, and an agent that polls it.
PollingOps ==
  [ p \in OneClient |->
      IF p = "agent" THEN {"next"}
      ELSE {"enqueue", "dequeue_all", "add", "remove", "archive", "unarchive",
            "delete", "clear"} ]

\* The interleavings behind the divergences between code and documentation.
TwoPublishersOps == [p \in AnyClients |-> {"publish"}]
ClearingOps == [p \in AnyClients |-> IF p = "client1" THEN {"enqueue"} ELSE {"clear"}]
Alone    == {"client"}
AloneOps == [p \in Alone |-> {"enqueue", "clear"}]
=============================================================================
