---------------------------- MODULE WaitingLines ----------------------------
(***************************************************************************)
(* What the execution queues promise, whatever the handlers do with the    *)
(* statuses of the tasks: each queue is a waiting line of distinct tasks.  *)
(* A task joins at the end, the agent takes the first one, and the others  *)
(* keep their order when one leaves or changes its place.                  *)
(***************************************************************************)
EXTENDS Integers, Sequences

CONSTANTS Tasks, Queues

VARIABLE waiting   \* for each queue, the tasks in the order of service

\* The line without its i-th task, and with a task put in after the first k.
Without(line, i)    == SubSeq(line, 1, i - 1) \o SubSeq(line, i + 1, Len(line))
InsertAt(line, k, t) == SubSeq(line, 1, k) \o <<t>> \o SubSeq(line, k + 1, Len(line))

LinesInit == waiting = [q \in Queues |-> <<>>]

Change(q, line) == waiting' = [waiting EXCEPT ![q] = line]

Join(q, t) ==
  /\ \A i \in DOMAIN waiting[q] : waiting[q][i] # t
  /\ Change(q, Append(waiting[q], t))

\* Serving the first task is the case i = 1.
Leave(q) ==
  \E i \in DOMAIN waiting[q] : Change(q, Without(waiting[q], i))

ChangePlace(q) ==
  \E i \in DOMAIN waiting[q] : \E k \in 0..(Len(waiting[q]) - 1) :
    Change(q, InsertAt(Without(waiting[q], i), k, waiting[q][i]))

AllLeave(q) == Change(q, <<>>)

LinesNext ==
  \E q \in Queues :
    (\E t \in Tasks : Join(q, t)) \/ Leave(q) \/ ChangePlace(q) \/ AllLeave(q)

LinesSpec == LinesInit /\ [][LinesNext]_waiting
=============================================================================
