------------------------------ MODULE MCHanded ------------------------------
(* TaskQueues with a history of what agents received.                       *)
EXTENDS MCTaskQueues

\* Tasks an agent has received and nobody has enqueued since.
VARIABLE handed

mcvars == <<vars, handed>>

Received == {call[p].task : p \in {r \in Procs : call[r].op = "next" /\ call'[r].op = "none"}}
Enqueued == {call[p].task : p \in {r \in Procs :
              /\ At(r, "to_queued") /\ call'[r] # call[r]
              /\ Matches(call[r].task, call[r].expect)}}

MCInit == Init /\ handed = {}
MCNext == Next /\ handed' = (handed \cup Received) \ Enqueued
MCSpec == MCInit /\ [][MCNext]_mcvars

\* A task that an enqueue left in the status queued, and that nothing has restored
\* since (its enqueue_status is still there), waits in a queue or an agent has it.
NeverStranded ==
  \A t \in Tasks :
    Quiet(t) /\ tasks[t].status = queued /\ tasks[t].enqueue_status # NoStatus
      => t \in handed \/ \E q \in Queues : Holds(q, t)
=============================================================================
