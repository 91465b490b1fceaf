-------------------------- MODULE TaskQueuesSafety --------------------------
(***************************************************************************)
(* The safety of TaskQueues, from the inductive invariant proved in        *)
(* TaskQueuesProofs.                                                       *)
(*                                                                         *)
(* A step changes at most one queue, and in one of five ways (LineStep).   *)
(* That no queue ever holds a task twice, and that the queues implement    *)
(* WaitingLines, both follow from there.                                   *)
(***************************************************************************)
EXTENDS TaskQueuesProofs, FiniteSetTheorems

\* An entry taken out and put back behind the first k of the others.
Reinsert(s, i, k) ==
  SubSeq(RemoveAt(s, i), 1, k) \o <<s[i]>>
  \o SubSeq(RemoveAt(s, i), k + 1, Len(RemoveAt(s, i)))

LineStep(old, new) ==
  \/ \E e \in Entry : ~HasTask(old, e.task) /\ new = Append(old, e)
  \/ \E i \in DOMAIN old : new = RemoveAt(old, i)
  \/ \E i \in DOMAIN old : \E k \in 0..(Len(old) - 1) : new = Reinsert(old, i, k)
  \/ new = <<>>

OneQueueSteps ==
  \E q \in Queues :
    /\ LineStep(queues[q].entries, queues'[q].entries)
    /\ \A r \in Queues \ {q} : queues'[r] = queues[r]

-----------------------------------------------------------------------------
(* How the queues change.                                                  *)

LEMMA TailIsRemoveAt ==
  ASSUME NEW S, NEW s \in Seq(S), s # <<>>
  PROVE  1 \in DOMAIN s /\ Tail(s) = RemoveAt(s, 1)
<1>1. Len(s) \in Nat /\ Len(s) >= 1 /\ DOMAIN s = 1..Len(s) BY EmptySeq, LenProperties
<1>2. 1 \in DOMAIN s BY <1>1
<1>3. /\ RemoveAt(s, 1) \in Seq(S) /\ Len(RemoveAt(s, 1)) = Len(s) - 1
      /\ \A k \in 1..(Len(s) - 1) : RemoveAt(s, 1)[k] = IF k < 1 THEN s[k] ELSE s[k + 1]
  BY <1>2, RemoveAtProperties
<1>4. /\ Tail(s) \in Seq(S) /\ Len(Tail(s)) = Len(s) - 1
      /\ \A k \in 1..(Len(s) - 1) : Tail(s)[k] = s[k + 1]
  BY HeadTailProperties
<1>5. \A k \in 1..(Len(s) - 1) : Tail(s)[k] = RemoveAt(s, 1)[k] BY <1>3, <1>4
<1>6. Tail(s) = RemoveAt(s, 1) BY <1>3, <1>4, <1>5, SeqEqual
<1>7. QED BY <1>2, <1>6

LEMMA PullOneStep ==
  ASSUME NEW entries \in Seq(Entry), NEW S
  PROVE  \/ PullOne(entries, S) = entries
         \/ LineStep(entries, PullOne(entries, S))
BY DEF PullOne, LineStep

\* The only queue a step may touch is q.
LEMMA ChangeOneQueue ==
  ASSUME TypeOK, NEW q, NEW entries,
         q \in Queues => \/ entries = queues[q].entries
                         \/ LineStep(queues[q].entries, entries),
         queues' = [queues EXCEPT ![q].entries = entries]
  PROVE  UNCHANGED queues \/ OneQueueSteps
<1>1. CASE q \notin Queues BY <1>1 DEF TypeOK
<1>2. CASE q \in Queues
  <2>1. queues'[q].entries = entries /\ \A r \in Queues \ {q} : queues'[r] = queues[r]
    BY <1>2 DEF TypeOK, QueueDoc
  <2>2. CASE entries = queues[q].entries
    <3>1. queues'[q] = queues[q] BY <1>2, <2>2 DEF TypeOK, QueueDoc
    <3>2. QED BY <2>1, <3>1 DEF TypeOK
  <2>3. CASE LineStep(queues[q].entries, entries) BY <1>2, <2>1, <2>3 DEF OneQueueSteps
  <2>4. QED BY <1>2, <2>2, <2>3
<1>3. QED BY <1>1, <1>2

LEMMA RequestQueues ==
  ASSUME Inv, NEW p \in Procs, Request(p)
  PROVE  UNCHANGED queues \/ OneQueueSteps
<1>1. CASE GetNextTask(p)
  <2>1. PICK q \in Queues : /\ queues[q].entries # <<>>
                            /\ queues' = [queues EXCEPT ![q].entries = Tail(queues[q].entries)]
    BY <1>1 DEF GetNextTask
  <2>2. queues[q].entries \in Seq(Entry) /\ TypeOK BY DEF Inv, TypeOK, QueueDoc
  <2>3. LineStep(queues[q].entries, Tail(queues[q].entries))
    BY <2>1, <2>2, TailIsRemoveAt DEF LineStep
  <2>4. QED BY <2>1, <2>2, <2>3, ChangeOneQueue
<1>2. CASE ~GetNextTask(p)
  BY <1>2 DEF Request, Enqueue, DequeueTask, StopTask, SetStatusFromCall, ArchiveTask,
     UnarchiveTask, DeleteTask, ResetTask, PublishTask, AddTaskToQueue,
     RemoveTaskFromQueue, MoveTaskToQueue, RepositionTask, ClearQueue, DeleteQueue
<1>3. QED BY <1>1, <1>2

LEMMA StepQueues ==
  ASSUME Inv, NEW p \in Procs, Step(p)
  PROVE  UNCHANGED queues \/ OneQueueSteps
<1> DEFINE c == call[p]
<1>1. TypeOK /\ c \in Call /\ ProgramOK(c) BY CallFacts DEF Inv
<1>2. CASE PushEntry(p)
  <2>1. CASE MayPush(c.to, c.task)
    <3>1. PICK n \in 1..MaxAdded :
            queues' = [queues EXCEPT ![c.to].entries =
                         Push(queues[c.to].entries, [task |-> c.task, added |-> n])]
      BY <1>2, <2>1 DEF PushEntry
    <3>2. c.task \in Tasks
      <4>1. ~Avoids(c, "push") BY <1>2, HeadNotAvoided DEF PushEntry, At
      <4>2. QED BY <1>1, <4>1 DEF ProgramOK
    <3> DEFINE e == [task |-> c.task, added |-> n]
    <3>3. e \in Entry /\ e.task = c.task BY <3>2 DEF Entry
    <3>4. ~HasTask(queues[c.to].entries, c.task) BY <2>1 DEF MayPush
    <3>5. LineStep(queues[c.to].entries, Push(queues[c.to].entries, e))
      BY <3>3, <3>4 DEF LineStep, Push
    <3>6. QED BY <1>1, <3>1, <3>5, ChangeOneQueue
  <2>2. CASE ~MayPush(c.to, c.task) BY <1>2, <2>2 DEF PushEntry
  <2>3. QED BY <2>1, <2>2
<1>3. CASE PullFromOthers(p)
  <2>1. PICK q \in c.todo :
          queues' = [queues EXCEPT ![q].entries = PullTask(queues[q].entries, c.task)]
    BY <1>3 DEF PullFromOthers
  <2>2. q \in Queues => queues[q].entries \in Seq(Entry) BY <1>1 DEF TypeOK, QueueDoc
  <2>3. QED BY <1>1, <2>1, <2>2, PullOneStep, ChangeOneQueue DEF PullTask
<1>4. CASE PullEntry(p)
  <2>1. CASE Holds(c.from, c.task)
    <3>1. queues' = [queues EXCEPT ![c.from].entries = PullOne(queues[c.from].entries, c.found)]
      BY <1>4, <2>1 DEF PullEntry
    <3>2. c.from \in Queues => queues[c.from].entries \in Seq(Entry)
      BY <1>1 DEF TypeOK, QueueDoc
    <3>3. QED BY <1>1, <3>1, <3>2, PullOneStep, ChangeOneQueue
  <2>2. CASE ~Holds(c.from, c.task) BY <1>4, <2>2 DEF PullEntry
  <2>3. QED BY <2>1, <2>2
<1>5. CASE MoveEntry(p)
  <2>1. CASE Holds(c.from, c.task)
    <3>1. queues' = [queues EXCEPT ![c.from].entries =
                       Reposition(queues[c.from].entries, c.task, c.move)]
      BY <1>5, <2>1 DEF MoveEntry
    <3>2. c.from \in Queues =>
            LineStep(queues[c.from].entries, Reposition(queues[c.from].entries, c.task, c.move))
      <4>1. SUFFICES ASSUME c.from \in Queues
                     PROVE  LineStep(queues[c.from].entries,
                                     Reposition(queues[c.from].entries, c.task, c.move))
        OBVIOUS
      <4>2. queues[c.from].entries \in Seq(Entry) BY <1>1, <4>1 DEF TypeOK, QueueDoc
      <4>3. HasTask(queues[c.from].entries, c.task) BY <2>1 DEF Holds
      <4>4. c.move \in Moves BY <1>1 DEF Call
      <4>5. QED BY <4>2, <4>3, <4>4, RepositionShape DEF LineStep, Reinsert
    <3>3. QED BY <1>1, <3>1, <3>2, ChangeOneQueue
  <2>2. CASE ~Holds(c.from, c.task) BY <1>5, <2>2 DEF MoveEntry
  <2>3. QED BY <2>1, <2>2
<1>6. CASE EmptyQueue(p)
  <2>1. CASE queues[c.from].exists
    <3>1. queues' = [queues EXCEPT ![c.from].entries = <<>>] BY <1>6, <2>1 DEF EmptyQueue
    <3>2. LineStep(queues[c.from].entries, <<>>) BY DEF LineStep
    <3>3. QED BY <1>1, <3>1, <3>2, ChangeOneQueue
  <2>2. CASE ~queues[c.from].exists BY <1>6, <2>2 DEF EmptyQueue
  <2>3. QED BY <2>1, <2>2
<1>7. CASE DropQueue(p)
  <2>1. queues' = [queues EXCEPT ![c.from] = [exists |-> FALSE, entries |-> <<>>]]
    BY <1>7 DEF DropQueue
  <2>2. CASE c.from \in Queues
    <3>1. queues'[c.from].entries = <<>> /\ \A r \in Queues \ {c.from} : queues'[r] = queues[r]
      BY <1>1, <2>1, <2>2 DEF TypeOK
    <3>2. QED BY <2>2, <3>1 DEF OneQueueSteps, LineStep
  <2>3. CASE c.from \notin Queues BY <1>1, <2>1, <2>3 DEF TypeOK
  <2>4. QED BY <2>2, <2>3
<1>8. CASE ~(\/ PushEntry(p) \/ PullFromOthers(p) \/ PullEntry(p) \/ MoveEntry(p)
             \/ EmptyQueue(p) \/ DropQueue(p))
  BY <1>8 DEF Step, ToQueued, CheckQueue, LogAdded, Revert, SetExecutionQueue, FindEntry,
     LogRemoved, RestoreStatus, ChangeStatus, TagTask, CleanupTask, DeleteDocument,
     ToCreated, SetPublishing, PublishModel, SetPublished, RollbackPublish, ReadPopped,
     FixPopped, DetachRead, DetachWrite
<1>9. QED BY <1>2, <1>3, <1>4, <1>5, <1>6, <1>7, <1>8

LEMMA NextQueues == Inv /\ [Next]_vars => UNCHANGED queues \/ OneQueueSteps
BY RequestQueues, StepQueues DEF Next, vars

-----------------------------------------------------------------------------
(* No queue holds a task twice.                                            *)

Distinct(s) == \A i, j \in DOMAIN s : s[i].task = s[j].task => i = j

LEMMA ReinsertProperties ==
  ASSUME NEW S, NEW s \in Seq(S), NEW i \in DOMAIN s, NEW k \in 0..(Len(s) - 1)
  PROVE  /\ Reinsert(s, i, k) \in Seq(S)
         /\ Len(Reinsert(s, i, k)) = Len(s)
         /\ \A j \in 1..Len(s) :
              Reinsert(s, i, k)[j] = IF j <= k THEN RemoveAt(s, i)[j]
                                     ELSE IF j = k + 1 THEN s[i]
                                     ELSE RemoveAt(s, i)[j - 1]
<1> DEFINE o == RemoveAt(s, i)
           a == SubSeq(o, 1, k)
           b == SubSeq(o, k + 1, Len(o))
           ai == a \o <<s[i]>>
<1>1. Len(s) \in Nat /\ i \in 1..Len(s) /\ k \in Int BY LenProperties
<1>2. o \in Seq(S) /\ Len(o) = Len(s) - 1 BY RemoveAtProperties
<1>3. s[i] \in S BY <1>1, ElementOfSeq
<1> HIDE DEF o
<1>4. \A j \in 1..Len(o) : o[j] \in S BY <1>2, ElementOfSeq
<1>5. a \in Seq(S) /\ Len(a) = k /\ \A j \in 1..k : a[j] = o[j]
  BY <1>1, <1>2, <1>4, SubSeqProperties
<1>6. /\ b \in Seq(S) /\ Len(b) = Len(o) - k
      /\ \A j \in 1..(Len(o) - k) : b[j] = o[k + j]
  <2>1. \A j \in (k + 1)..Len(o) : o[j] \in S BY <1>1, <1>2, <1>4
  <2>2. QED BY <1>1, <1>2, <2>1, SubSeqProperties
<1> HIDE DEF a, b
<1>7. /\ ai \in Seq(S) /\ Len(ai) = k + 1
      /\ \A j \in 1..k : ai[j] = o[j]
      /\ ai[k + 1] = s[i]
  <2>1. <<s[i]>> \in Seq(S) /\ Len(<<s[i]>>) = 1 /\ <<s[i]>>[1] = s[i] BY <1>3
  <2>2. /\ ai \in Seq(S) /\ Len(ai) = Len(a) + Len(<<s[i]>>)
        /\ \A j \in 1..(Len(a) + Len(<<s[i]>>)) :
             ai[j] = IF j <= Len(a) THEN a[j] ELSE <<s[i]>>[j - Len(a)]
    BY <1>5, <2>1, ConcatProperties
  <2>3. \A j \in 1..(k + 1) : ai[j] = IF j <= k THEN a[j] ELSE <<s[i]>>[j - k]
    BY <1>5, <2>1, <2>2
  <2> HIDE DEF ai
  <2>4. ai[k + 1] = <<s[i]>>[(k + 1) - k] BY <1>1, <2>3
  <2>5. (k + 1) - k = 1 BY <1>1
  <2>6. \A j \in 1..k : ai[j] = o[j] BY <1>1, <1>5, <2>3
  <2>7. QED BY <1>5, <2>1, <2>2, <2>4, <2>5, <2>6
<1> HIDE DEF ai
<1>8. /\ ai \o b \in Seq(S) /\ Len(ai \o b) = Len(ai) + Len(b)
      /\ \A j \in 1..(Len(ai) + Len(b)) :
           (ai \o b)[j] = IF j <= Len(ai) THEN ai[j] ELSE b[j - Len(ai)]
  BY <1>6, <1>7, ConcatProperties
<1>9. Len(ai) + Len(b) = Len(s) BY <1>1, <1>2, <1>6, <1>7
<1>10. ASSUME NEW j \in 1..Len(s)
       PROVE  (ai \o b)[j] = IF j <= k THEN o[j] ELSE IF j = k + 1 THEN s[i] ELSE o[j - 1]
  <2>1. j \in Int /\ j \in 1..(Len(ai) + Len(b)) BY <1>1, <1>9
  <2>2. (ai \o b)[j] = IF j <= k + 1 THEN ai[j] ELSE b[j - (k + 1)]
    BY <1>7, <1>8, <2>1
  <2>3. CASE j <= k + 1 BY <1>1, <1>7, <2>1, <2>2, <2>3
  <2>4. CASE j > k + 1
    <3>1. j - (k + 1) \in 1..(Len(o) - k) BY <1>1, <1>2, <2>1, <2>4
    <3>2. b[j - (k + 1)] = o[k + (j - (k + 1))] BY <1>6, <3>1
    <3>3. k + (j - (k + 1)) = j - 1 BY <1>1, <2>1
    <3>4. QED BY <1>1, <2>1, <2>2, <2>4, <3>2, <3>3
  <2>5. QED BY <1>1, <2>1, <2>3, <2>4
<1>11. Reinsert(s, i, k) = ai \o b BY DEF Reinsert, ai, a, b, o
<1>12. QED BY <1>8, <1>9, <1>10, <1>11 DEF o

LEMMA AppendDistinct ==
  ASSUME NEW s \in Seq(Entry), Distinct(s), NEW e \in Entry, ~HasTask(s, e.task)
  PROVE  Distinct(Append(s, e))
<1>1. Len(s) \in Nat /\ DOMAIN s = 1..Len(s) BY LenProperties
<1>2. /\ Append(s, e) \in Seq(Entry) /\ Len(Append(s, e)) = Len(s) + 1
      /\ \A i \in 1..Len(s) : Append(s, e)[i] = s[i]
      /\ Append(s, e)[Len(s) + 1] = e
  BY AppendProperties
<1>3. DOMAIN Append(s, e) = 1..(Len(s) + 1) BY <1>2, LenProperties
<1>4. \A i \in 1..Len(s) : s[i].task # e.task BY <1>1 DEF HasTask
<1>5. \A i, j \in 1..Len(s) : s[i].task = s[j].task => i = j BY <1>1 DEF Distinct
<1>6. ASSUME NEW i \in 1..(Len(s) + 1), NEW j \in 1..(Len(s) + 1),
             Append(s, e)[i].task = Append(s, e)[j].task
      PROVE  i = j
  <2>1. i \in 1..Len(s) \/ i = Len(s) + 1 BY <1>1
  <2>2. j \in 1..Len(s) \/ j = Len(s) + 1 BY <1>1
  <2>3. QED BY <1>2, <1>4, <1>5, <1>6, <2>1, <2>2
<1>7. QED BY <1>3, <1>6 DEF Distinct

LEMMA RemoveAtDistinct ==
  ASSUME NEW s \in Seq(Entry), Distinct(s), NEW i \in DOMAIN s
  PROVE  /\ Distinct(RemoveAt(s, i))
         /\ \A j \in DOMAIN RemoveAt(s, i) : RemoveAt(s, i)[j].task # s[i].task
<1> DEFINE o == RemoveAt(s, i)
<1>1. Len(s) \in Nat /\ DOMAIN s = 1..Len(s) /\ i \in 1..Len(s) BY LenProperties
<1>2. /\ o \in Seq(Entry) /\ Len(o) = Len(s) - 1
      /\ \A k \in 1..(Len(s) - 1) : o[k] = IF k < i THEN s[k] ELSE s[k + 1]
  BY RemoveAtProperties
<1> HIDE DEF o
<1>3. DOMAIN o = 1..(Len(s) - 1) BY <1>2, LenProperties
<1> DEFINE at(k) == IF k < i THEN k ELSE k + 1
<1>4. \A k \in 1..(Len(s) - 1) : at(k) \in 1..Len(s) /\ at(k) # i /\ o[k] = s[at(k)]
  BY <1>1, <1>2
<1>5. \A k, j \in 1..(Len(s) - 1) : at(k) = at(j) => k = j BY <1>1
<1> HIDE DEF at
<1>6. \A k, j \in 1..Len(s) : s[k].task = s[j].task => k = j BY <1>1 DEF Distinct
<1>7. Distinct(o) BY <1>3, <1>4, <1>5, <1>6 DEF Distinct
<1>8. \A j \in DOMAIN o : o[j].task # s[i].task BY <1>1, <1>3, <1>4, <1>6
<1>9. QED BY <1>7, <1>8 DEF o

LEMMA ReinsertDistinct ==
  ASSUME NEW s \in Seq(Entry), Distinct(s), NEW i \in DOMAIN s, NEW k \in 0..(Len(s) - 1)
  PROVE  Distinct(Reinsert(s, i, k))
<1> DEFINE o == RemoveAt(s, i)
           r == Reinsert(s, i, k)
<1>1. Len(s) \in Nat /\ k \in Int BY LenProperties
<1>2. Distinct(o) /\ \A j \in DOMAIN o : o[j].task # s[i].task BY RemoveAtDistinct
<1>3. o \in Seq(Entry) /\ Len(o) = Len(s) - 1 BY RemoveAtProperties
<1>4. /\ r \in Seq(Entry) /\ Len(r) = Len(s)
      /\ \A j \in 1..Len(s) : r[j] = IF j <= k THEN o[j] ELSE IF j = k + 1 THEN s[i]
                                      ELSE o[j - 1]
  BY ReinsertProperties
<1> HIDE DEF o, r
<1>5. DOMAIN o = 1..(Len(s) - 1) /\ DOMAIN r = 1..Len(s) BY <1>3, <1>4, LenProperties
<1> DEFINE at(j) == IF j <= k THEN j ELSE j - 1
<1>6. \A j \in 1..Len(s) : j # k + 1 => at(j) \in DOMAIN o /\ r[j] = o[at(j)]
  BY <1>1, <1>4, <1>5
<1>7. \A j, l \in 1..Len(s) : j # k + 1 /\ l # k + 1 /\ at(j) = at(l) => j = l
  BY <1>1
<1> HIDE DEF at
<1>8. \A j, l \in DOMAIN o : o[j].task = o[l].task => j = l BY <1>2 DEF Distinct
<1>9. k + 1 \in 1..Len(s) /\ r[k + 1] = s[i] BY <1>1, <1>4
<1>10. \A j \in 1..Len(s) : j # k + 1 => r[j].task # s[i].task BY <1>2, <1>6
<1>11. ASSUME NEW j \in 1..Len(s), NEW l \in 1..Len(s), r[j].task = r[l].task
       PROVE  j = l
  <2>1. CASE j = k + 1 BY <1>9, <1>10, <1>11, <2>1
  <2>2. CASE l = k + 1 BY <1>9, <1>10, <1>11, <2>2
  <2>3. CASE j # k + 1 /\ l # k + 1 BY <1>6, <1>7, <1>8, <1>11, <2>3
  <2>4. QED BY <2>1, <2>2, <2>3
<1>12. QED BY <1>5, <1>11 DEF Distinct, r

LEMMA LineStepDistinct ==
  ASSUME NEW s \in Seq(Entry), Distinct(s), NEW new, LineStep(s, new)
  PROVE  Distinct(new)
<1>1. Distinct(<<>>) BY DEF Distinct
<1>2. QED BY <1>1, AppendDistinct, RemoveAtDistinct, ReinsertDistinct DEF LineStep

\* No queue ever holds two entries of one task: add_task tests for the task in the
\* filter of its push, so no interleaving of its earlier read can break this.
THEOREM NoDuplicates == Spec => []NoDuplicateEntries
<1>1. NoDuplicateEntries <=> \A q \in Queues : Distinct(queues[q].entries)
  BY DEF NoDuplicateEntries, Distinct
<1>2. Init => NoDuplicateEntries BY DEF Init, NoDuplicateEntries
<1>3. Inv /\ NoDuplicateEntries /\ [Next]_vars => NoDuplicateEntries'
  <2> SUFFICES ASSUME Inv, NoDuplicateEntries, [Next]_vars
               PROVE  \A q \in Queues : Distinct(queues'[q].entries)
    BY DEF NoDuplicateEntries, Distinct
  <2>1. CASE UNCHANGED queues BY <1>1, <2>1
  <2>2. CASE OneQueueSteps
    <3>1. PICK q \in Queues : /\ LineStep(queues[q].entries, queues'[q].entries)
                              /\ \A r \in Queues \ {q} : queues'[r] = queues[r]
      BY <2>2 DEF OneQueueSteps
    <3>2. queues[q].entries \in Seq(Entry) BY DEF Inv, TypeOK, QueueDoc
    <3>3. Distinct(queues'[q].entries) BY <1>1, <3>1, <3>2, LineStepDistinct
    <3>4. QED BY <1>1, <3>1, <3>3
  <2>3. QED BY <2>1, <2>2, NextQueues
<1>4. QED BY <1>2, <1>3, InitOK, NextOK, PTL DEF Spec

-----------------------------------------------------------------------------
(* The queues implement WaitingLines.                                      *)

\* The tasks that wait, in order: what the refinement mapping makes of a queue.
Line(s) == [i \in DOMAIN s |-> s[i].task]

LEMMA LineProperties ==
  ASSUME NEW s \in Seq(Entry)
  PROVE  /\ Line(s) \in Seq(Tasks)
         /\ Len(Line(s)) = Len(s)
         /\ DOMAIN Line(s) = 1..Len(s) /\ DOMAIN s = 1..Len(s)
         /\ \A i \in 1..Len(s) : Line(s)[i] = s[i].task
<1>1. Len(s) \in Nat /\ DOMAIN s = 1..Len(s) BY LenProperties
<1>2. ASSUME NEW i \in 1..Len(s) PROVE s[i].task \in Tasks
  <2>1. s[i] \in Entry BY ElementOfSeq
  <2>2. QED BY <2>1 DEF Entry
<1>3. Line(s) \in [1..Len(s) -> Tasks] BY <1>1, <1>2 DEF Line
<1>4. Line(s) \in Seq(Tasks) BY <1>1, <1>3, SeqDef
<1>5. Len(Line(s)) = Len(s) BY <1>1, <1>3, <1>4, LenProperties
<1>6. QED BY <1>1, <1>3, <1>4, <1>5 DEF Line

LEMMA LineOfAppend ==
  ASSUME NEW s \in Seq(Entry), NEW e \in Entry
  PROVE  Line(Append(s, e)) = Append(Line(s), e.task)
<1>1. e.task \in Tasks BY DEF Entry
<1>2. Len(s) \in Nat BY LenProperties
<1>3. /\ Append(s, e) \in Seq(Entry) /\ Len(Append(s, e)) = Len(s) + 1
      /\ \A i \in 1..Len(s) : Append(s, e)[i] = s[i]
      /\ Append(s, e)[Len(s) + 1] = e
  BY AppendProperties
<1>4. /\ Append(Line(s), e.task) \in Seq(Tasks)
      /\ Len(Append(Line(s), e.task)) = Len(s) + 1
      /\ \A i \in 1..Len(s) : Append(Line(s), e.task)[i] = s[i].task
      /\ Append(Line(s), e.task)[Len(s) + 1] = e.task
  BY <1>1, AppendProperties, LineProperties
<1>5. /\ Line(Append(s, e)) \in Seq(Tasks) /\ Len(Line(Append(s, e))) = Len(s) + 1
      /\ \A i \in 1..(Len(s) + 1) : Line(Append(s, e))[i] = Append(s, e)[i].task
  BY <1>3, LineProperties
<1>6. ASSUME NEW i \in 1..(Len(s) + 1)
      PROVE  Line(Append(s, e))[i] = Append(Line(s), e.task)[i]
  <2>1. CASE i \in 1..Len(s) BY <1>3, <1>4, <1>5, <2>1
  <2>2. CASE i = Len(s) + 1 BY <1>3, <1>4, <1>5, <2>2
  <2>3. i \in 1..Len(s) \/ i = Len(s) + 1 BY <1>2
  <2>4. QED BY <2>1, <2>2, <2>3
<1>7. QED BY <1>4, <1>5, <1>6, SeqEqual

LEMMA LineOfRemoveAt ==
  ASSUME NEW s \in Seq(Entry), NEW i \in DOMAIN s
  PROVE  Line(RemoveAt(s, i)) = RemoveAt(Line(s), i)
<1>1. Len(s) \in Nat /\ DOMAIN s = 1..Len(s) BY LenProperties
<1>2. /\ RemoveAt(s, i) \in Seq(Entry) /\ Len(RemoveAt(s, i)) = Len(s) - 1
      /\ \A k \in 1..(Len(s) - 1) :
           RemoveAt(s, i)[k] = IF k < i THEN s[k] ELSE s[k + 1]
  BY RemoveAtProperties
<1>3. /\ RemoveAt(Line(s), i) \in Seq(Tasks) /\ Len(RemoveAt(Line(s), i)) = Len(s) - 1
      /\ \A k \in 1..(Len(s) - 1) :
           RemoveAt(Line(s), i)[k] = IF k < i THEN Line(s)[k] ELSE Line(s)[k + 1]
  <2>1. Line(s) \in Seq(Tasks) /\ Len(Line(s)) = Len(s) /\ i \in DOMAIN Line(s)
    BY <1>1, LineProperties
  <2>2. QED BY <2>1, RemoveAtProperties
<1>4. /\ Line(RemoveAt(s, i)) \in Seq(Tasks) /\ Len(Line(RemoveAt(s, i))) = Len(s) - 1
      /\ \A k \in 1..(Len(s) - 1) : Line(RemoveAt(s, i))[k] = RemoveAt(s, i)[k].task
  BY <1>2, LineProperties
<1>5. ASSUME NEW k \in 1..(Len(s) - 1)
      PROVE  Line(RemoveAt(s, i))[k] = RemoveAt(Line(s), i)[k]
  <2>1. k \in 1..Len(s) /\ k + 1 \in 1..Len(s) BY <1>1
  <2>2. Line(s)[k] = s[k].task /\ Line(s)[k + 1] = s[k + 1].task BY <2>1, LineProperties
  <2>3. QED BY <1>2, <1>3, <1>4, <2>2
<1>6. QED BY <1>3, <1>4, <1>5, SeqEqual

LEMMA LineOfReinsert ==
  ASSUME NEW s \in Seq(Entry), NEW i \in DOMAIN s, NEW k \in 0..(Len(s) - 1)
  PROVE  Line(Reinsert(s, i, k)) = Reinsert(Line(s), i, k)
<1>1. Len(s) \in Nat /\ DOMAIN s = 1..Len(s) /\ k \in Int BY LenProperties
<1>2. /\ Reinsert(s, i, k) \in Seq(Entry) /\ Len(Reinsert(s, i, k)) = Len(s)
      /\ \A j \in 1..Len(s) :
           Reinsert(s, i, k)[j] = IF j <= k THEN RemoveAt(s, i)[j]
                                  ELSE IF j = k + 1 THEN s[i] ELSE RemoveAt(s, i)[j - 1]
  BY ReinsertProperties
<1>3. /\ Line(s) \in Seq(Tasks) /\ Len(Line(s)) = Len(s) /\ i \in DOMAIN Line(s)
      /\ Line(s)[i] = s[i].task
  BY <1>1, LineProperties
<1>4. /\ Reinsert(Line(s), i, k) \in Seq(Tasks) /\ Len(Reinsert(Line(s), i, k)) = Len(s)
      /\ \A j \in 1..Len(s) :
           Reinsert(Line(s), i, k)[j] = IF j <= k THEN RemoveAt(Line(s), i)[j]
                                        ELSE IF j = k + 1 THEN Line(s)[i]
                                        ELSE RemoveAt(Line(s), i)[j - 1]
  BY <1>3, ReinsertProperties
<1>5. /\ Line(Reinsert(s, i, k)) \in Seq(Tasks) /\ Len(Line(Reinsert(s, i, k))) = Len(s)
      /\ \A j \in 1..Len(s) : Line(Reinsert(s, i, k))[j] = Reinsert(s, i, k)[j].task
  BY <1>2, LineProperties
<1>6. \A j \in 1..(Len(s) - 1) : RemoveAt(s, i)[j].task = RemoveAt(Line(s), i)[j]
  <2>1. RemoveAt(s, i) \in Seq(Entry) /\ Len(RemoveAt(s, i)) = Len(s) - 1
    BY RemoveAtProperties
  <2>2. QED BY <2>1, LineProperties, LineOfRemoveAt
<1>7. ASSUME NEW j \in 1..Len(s)
      PROVE  Line(Reinsert(s, i, k))[j] = Reinsert(Line(s), i, k)[j]
  <2>1. CASE j <= k
    <3>1. j \in 1..(Len(s) - 1) BY <1>1, <2>1
    <3>2. QED BY <1>2, <1>4, <1>5, <1>6, <2>1, <3>1
  <2>2. CASE j = k + 1 BY <1>1, <1>2, <1>3, <1>4, <1>5, <2>2
  <2>3. CASE j > k + 1
    <3>1. j - 1 \in 1..(Len(s) - 1) /\ ~(j <= k) /\ j # k + 1 BY <1>1, <2>3
    <3>2. QED BY <1>2, <1>4, <1>5, <1>6, <3>1
  <2>4. QED BY <1>1, <2>1, <2>2, <2>3
<1>8. QED BY <1>4, <1>5, <1>7, SeqEqual

\* A change of one queue is a change of one waiting line.
LEMMA LineStepImplements ==
  ASSUME Inv, OneQueueSteps
  PROVE  Lines!LinesNext
<1> DEFINE waiting == [q \in Queues |-> Line(queues[q].entries)]
<1>0. waitingTasks = waiting /\ waitingTasks' = waiting' BY DEF waitingTasks, Line
<1>1. PICK q \in Queues : /\ LineStep(queues[q].entries, queues'[q].entries)
                          /\ \A r \in Queues \ {q} : queues'[r] = queues[r]
  BY DEF OneQueueSteps
<1> DEFINE s == queues[q].entries
           new == queues'[q].entries
<1>2. s \in Seq(Entry) BY DEF Inv, TypeOK, QueueDoc
<1>3. waiting[q] = Line(s) OBVIOUS
<1>4. waiting' = [waiting EXCEPT ![q] = Line(new)]
  <2>1. \A r \in Queues : Line(queues'[r].entries) =
                            IF r = q THEN Line(new) ELSE Line(queues[r].entries)
    BY <1>1
  <2>2. QED BY <2>1
<1>5. CASE \E e \in Entry : ~HasTask(s, e.task) /\ new = Append(s, e)
  <2>1. PICK e \in Entry : ~HasTask(s, e.task) /\ new = Append(s, e) BY <1>5
  <2>2. e.task \in Tasks BY DEF Entry
  <2>3. \A i \in DOMAIN waiting[q] : waiting[q][i] # e.task
    BY <1>2, <2>1, LineProperties DEF HasTask
  <2>4. Line(new) = Append(waiting[q], e.task) BY <1>2, <2>1, LineOfAppend
  <2>5. Lines!Change(q, Append(waiting[q], e.task)) BY <1>0, <1>4, <2>4 DEF Lines!Change
  <2>6. Lines!Join(q, e.task) BY <1>0, <2>3, <2>5 DEF Lines!Join
  <2>7. QED BY <2>2, <2>6 DEF Lines!LinesNext
<1>6. CASE \E i \in DOMAIN s : new = RemoveAt(s, i)
  <2>1. PICK i \in DOMAIN s : new = RemoveAt(s, i) BY <1>6
  <2>2. i \in DOMAIN waiting[q] BY <1>2, <2>1, LineProperties
  <2>3. Line(new) = Lines!Without(waiting[q], i)
    BY <1>2, <2>1, LineOfRemoveAt DEF Lines!Without, RemoveAt
  <2>4. Lines!Change(q, Lines!Without(waiting[q], i))
    BY <1>0, <1>4, <2>3 DEF Lines!Change
  <2>5. Lines!Leave(q) BY <1>0, <2>2, <2>4 DEF Lines!Leave
  <2>6. QED BY <2>5 DEF Lines!LinesNext
<1>7. CASE \E i \in DOMAIN s : \E k \in 0..(Len(s) - 1) : new = Reinsert(s, i, k)
  <2>1. PICK i \in DOMAIN s, k \in 0..(Len(s) - 1) : new = Reinsert(s, i, k) BY <1>7
  <2>2. i \in DOMAIN waiting[q] /\ k \in 0..(Len(waiting[q]) - 1)
    BY <1>2, <2>1, LineProperties
  <2>3. Line(new) = Lines!InsertAt(Lines!Without(waiting[q], i), k, waiting[q][i])
    BY <1>2, <2>1, LineOfReinsert
       DEF Lines!InsertAt, Lines!Without, RemoveAt, Reinsert
  <2>4. Lines!Change(q, Lines!InsertAt(Lines!Without(waiting[q], i), k, waiting[q][i]))
    BY <1>0, <1>4, <2>3 DEF Lines!Change
  <2>5. Lines!ChangePlace(q) BY <1>0, <2>2, <2>4 DEF Lines!ChangePlace
  <2>6. QED BY <2>5 DEF Lines!LinesNext
<1>8. CASE new = <<>>
  <2>1. Line(<<>>) = <<>> BY DEF Line
  <2>2. Lines!Change(q, <<>>) BY <1>0, <1>4, <1>8, <2>1 DEF Lines!Change
  <2>3. Lines!AllLeave(q) BY <2>2 DEF Lines!AllLeave
  <2>4. QED BY <2>3 DEF Lines!LinesNext
<1>9. QED BY <1>1, <1>5, <1>6, <1>7, <1>8 DEF LineStep

\* Whatever the handlers interleave to, the queues are waiting lines of distinct
\* tasks: joined at the end, left from any place, never otherwise reordered.
THEOREM ImplementsLines == Spec => QueuesAreLines
<1>1. Init => Lines!LinesInit
  <2>1. Line(<<>>) = <<>> BY DEF Line
  <2>2. QED BY <2>1 DEF Init, Lines!LinesInit, waitingTasks, Line
<1>2. Inv /\ [Next]_vars => [Lines!LinesNext]_waitingTasks
  <2>1. UNCHANGED queues => UNCHANGED waitingTasks BY DEF waitingTasks
  <2>2. QED BY <2>1, NextQueues, LineStepImplements
<1>3. QED BY <1>1, <1>2, InitOK, NextOK, PTL DEF Spec, QueuesAreLines, Lines!LinesSpec

-----------------------------------------------------------------------------
(* Unforced requests follow the state machine.                             *)

\* The step a process takes when the next call of its program is a checked one.
LEMMA OnlyThatStep ==
  ASSUME NEW p \in Procs, call[p].rest # <<>>, Request(p) \/ Step(p),
         Head(call[p].rest) \in CheckedSteps
  PROVE  \/ ToQueued(p) /\ Head(call[p].rest) = "to_queued"
         \/ ChangeStatus(p) /\ Head(call[p].rest) = "change"
         \/ ToCreated(p) /\ Head(call[p].rest) = "to_created"
         \/ SetPublished(p) /\ Head(call[p].rest) = "published"
<1>1. ~Request(p)
  BY DEF Request, Begin, Enqueue, DequeueTask, StopTask, SetStatusFromCall, ArchiveTask,
     UnarchiveTask, DeleteTask, ResetTask, PublishTask, GetNextTask, AddTaskToQueue,
     RemoveTaskFromQueue, MoveTaskToQueue, RepositionTask, ClearQueue, DeleteQueue
<1>2. QED
  BY <1>1 DEF CheckedSteps, At, Step, ToQueued, CheckQueue, PushEntry, LogAdded, Revert,
     SetExecutionQueue, PullFromOthers, FindEntry, PullEntry, LogRemoved, RestoreStatus,
     ChangeStatus, TagTask, CleanupTask, DeleteDocument, ToCreated, SetPublishing,
     PublishModel, SetPublished, RollbackPublish, ReadPopped, FixPopped, MoveEntry,
     DetachRead, DetachWrite, EmptyQueue, DropQueue

\* Only its own steps change what a process remembers.
LEMMA OwnStep ==
  ASSUME Inv, NEW r \in Procs, Request(r) \/ Step(r), NEW p \in Procs, call'[p] # call[p]
  PROVE  r = p
<1> SUFFICES ASSUME r # p PROVE call'[p] = call[p] OBVIOUS
<1>1. call \in [Procs -> Call] BY DEF Inv, TypeOK
<1>2. \A c, rest : Goto(r, c, rest) => call'[p] = call[p] BY <1>1 DEF Goto
<1>3. Continue(r) => call'[p] = call[p] BY <1>2 DEF Continue
<1>4. Done(r) => call'[p] = call[p] BY <1>2 DEF Done
<1>5. AddFails(r) => call'[p] = call[p] BY <1>2, <1>4 DEF AddFails
<1>6. PublishFails(r) => call'[p] = call[p] BY <1>2, <1>4 DEF PublishFails
<1>7. \A c : DetachNext(r, c) => call'[p] = call[p] BY <1>2 DEF DetachNext
<1>8. \A op, c : Begin(r, op, c) => call'[p] = call[p] BY <1>1 DEF Begin
<1>9. CASE Request(r)
  <2>1. CASE Enqueue(r) BY <1>8, <2>1 DEF Enqueue
  <2>2. CASE DequeueTask(r) BY <1>8, <2>2 DEF DequeueTask
  <2>3. CASE StopTask(r) \/ SetStatusFromCall(r) BY <1>8, <2>3 DEF StopTask, SetStatusFromCall
  <2>4. CASE ArchiveTask(r) \/ UnarchiveTask(r) \/ DeleteTask(r) \/ ResetTask(r)
    BY <1>8, <2>4 DEF ArchiveTask, UnarchiveTask, DeleteTask, ResetTask
  <2>5. CASE PublishTask(r) \/ GetNextTask(r) BY <1>8, <2>5 DEF PublishTask, GetNextTask
  <2>6. CASE AddTaskToQueue(r) \/ RemoveTaskFromQueue(r) \/ MoveTaskToQueue(r)
    BY <1>8, <2>6 DEF AddTaskToQueue, RemoveTaskFromQueue, MoveTaskToQueue
  <2>7. CASE RepositionTask(r) \/ ClearQueue(r) \/ DeleteQueue(r)
    BY <1>8, <2>7 DEF RepositionTask, ClearQueue, DeleteQueue
  <2>8. QED BY <1>9, <2>1, <2>2, <2>3, <2>4, <2>5, <2>6, <2>7 DEF Request
<1>10. CASE Step(r)
  <2>1. CASE ToQueued(r) \/ CheckQueue(r) \/ PushEntry(r) \/ LogAdded(r)
    BY <1>3, <1>4, <1>5, <2>1 DEF ToQueued, CheckQueue, PushEntry, LogAdded
  <2>2. CASE Revert(r) \/ SetExecutionQueue(r) \/ LogRemoved(r) \/ RestoreStatus(r)
    BY <1>3, <1>4, <2>2 DEF Revert, SetExecutionQueue, LogRemoved, RestoreStatus
  <2>3. CASE PullFromOthers(r) BY <1>1, <1>3, <2>3 DEF PullFromOthers
  <2>4. CASE FindEntry(r) \/ PullEntry(r) BY <1>2, <1>4, <2>4 DEF FindEntry, PullEntry
  <2>5. CASE ChangeStatus(r) \/ TagTask(r) \/ CleanupTask(r) \/ DeleteDocument(r)
             \/ ToCreated(r)
    BY <1>3, <1>4, <2>5 DEF ChangeStatus, TagTask, CleanupTask, DeleteDocument, ToCreated
  <2>6. CASE SetPublishing(r) \/ PublishModel(r) \/ SetPublished(r) \/ RollbackPublish(r)
    BY <1>3, <1>4, <1>6, <2>6
       DEF SetPublishing, PublishModel, SetPublished, RollbackPublish
  <2>7. CASE ReadPopped(r) \/ FixPopped(r) BY <1>2, <1>4, <2>7 DEF ReadPopped, FixPopped
  <2>8. CASE MoveEntry(r) \/ EmptyQueue(r) \/ DropQueue(r)
    BY <1>4, <2>8 DEF MoveEntry, EmptyQueue, DropQueue
  <2>9. CASE DetachRead(r) \/ DetachWrite(r) BY <1>2, <1>7, <2>9 DEF DetachRead, DetachWrite
  <2>10. QED BY <1>10, <2>1, <2>2, <2>3, <2>4, <2>5, <2>6, <2>7, <2>8, <2>9 DEF Step
<1>11. QED BY <1>9, <1>10

LEMMA FollowsMachine ==
  ASSUME Inv, NEW r \in Procs, Request(r) \/ Step(r), NEW p \in Procs, ActsUnforced(p),
         NEW t \in Tasks, tasks'[t].status # tasks[t].status
  PROVE  ValidChange(tasks[t].status, tasks'[t].status)
<1> DEFINE c == call[p]
<1>1. r = p BY OwnStep DEF ActsUnforced
<1>2. TypeOK /\ c \in Call /\ ProgramOK(c) BY CallFacts DEF Inv
<1>3. c.rest # <<>> /\ Head(c.rest) \in CheckedSteps /\ ~c.force BY DEF ActsUnforced
<1>4. \A new : Legal(c, new) /\ new # c.expect => ValidChange(c.expect, new)
  BY <1>3 DEF Legal, ValidTransition
<1>5. CASE ToQueued(p) /\ Head(c.rest) = "to_queued"
  <2> DEFINE doc == [tasks[c.task] EXCEPT !.status = queued, !.enqueue_status = c.enqueue_status]
  <2>1. Legal(c, queued) BY <1>2, <1>3, <1>5, HeadNotAvoided DEF ProgramOK
  <2>2. Execute(c.task, c.expect, doc) BY <1>5 DEF ToQueued
  <2>3. tasks[t].status = c.expect /\ tasks'[t].status = queued
    BY <1>2, <2>2 DEF Execute, Matches, TypeOK, TaskDoc
  <2>4. QED BY <1>4, <2>1, <2>3
<1>6. CASE ChangeStatus(p) /\ Head(c.rest) = "change"
  <2> DEFINE doc == [tasks[c.task] EXCEPT !.status = c.new]
  <2>1. Legal(c, c.new) BY <1>2, <1>3, <1>6, HeadNotAvoided DEF ProgramOK
  <2>2. Execute(c.task, c.expect, doc) BY <1>6 DEF ChangeStatus
  <2>3. tasks[t].status = c.expect /\ tasks'[t].status = c.new
    BY <1>2, <2>2 DEF Execute, Matches, TypeOK, TaskDoc
  <2>4. QED BY <1>4, <2>1, <2>3
<1>7. CASE ToCreated(p) /\ Head(c.rest) = "to_created"
  <2> DEFINE doc == [tasks[c.task] EXCEPT !.status = created, !.enqueue_status = NoStatus,
                                          !.queue = NoQueue]
  <2>1. Legal(c, created) BY <1>2, <1>3, <1>7, HeadNotAvoided DEF ProgramOK
  <2>2. Execute(c.task, c.expect, doc) BY <1>7 DEF ToCreated
  <2>3. tasks[t].status = c.expect /\ tasks'[t].status = created
    BY <1>2, <2>2 DEF Execute, Matches, TypeOK, TaskDoc
  <2>4. QED BY <1>4, <2>1, <2>3
<1>8. CASE SetPublished(p) /\ Head(c.rest) = "published"
  <2> DEFINE doc == [tasks[c.task] EXCEPT !.status = published]
  <2>1. Execute(c.task, publishing, doc) BY <1>8 DEF SetPublished
  <2>2. tasks[t].status = publishing /\ tasks'[t].status = published
    BY <1>2, <2>1 DEF Execute, Matches, TypeOK, TaskDoc
  <2>3. ValidChange(publishing, published)
    BY DEF ValidChange, state_machine, Statuses, created, queued, in_progress, stopped,
       publishing, published, closed, failed, completed
  <2>4. QED BY <2>2, <2>3
<1>9. QED BY <1>1, <1>3, <1>5, <1>6, <1>7, <1>8, OnlyThatStep

\* The compare-and-set of ChangeStatusRequest makes the check of an unforced request
\* hold at the moment of the write, however long before it was made and whatever other
\* handlers did since.
THEOREM UnforcedFollowMachine == Spec => StatusFollowsMachine
<1>1. Inv /\ [Next]_vars =>
        [ \A p \in Procs : ActsUnforced(p) =>
            \A t \in Tasks : tasks'[t].status # tasks[t].status =>
                             ValidChange(tasks[t].status, tasks'[t].status) ]_vars
  BY FollowsMachine DEF Next
<1>2. QED BY <1>1, InitOK, NextOK, PTL DEF Spec, StatusFollowsMachine

-----------------------------------------------------------------------------
(***************************************************************************)
(* Who takes entries out of the queues.                                    *)
(*                                                                         *)
(* clear_queue and a forced delete empty a queue of whatever it holds by   *)
(* then.  Every other call takes out what its request named, what it saw   *)
(* in the queue, or what an agent asked for: for any number of handlers at *)
(* once, where the run tq_one has a single client.                         *)
(***************************************************************************)

\* The behaviours in which no request gets as far as emptying a queue.
NothingEmptied ==
  Init /\ [][Next /\ \A p \in Procs : ~EmptyQueue(p) /\ ~DropQueue(p)]_vars

\* The entries of a step that were there and are not any more.
Gone(q) == ToSet(queues[q].entries) \ ToSet(queues'[q].entries)

TakesOnPurpose(p, q, e) ==
  /\ call'[p] # call[p]
  /\ \/ call'[p].op = "next" /\ e = Head(queues[q].entries)
     \/ call[p].task = e.task
     \/ e \in call[p].found

-----------------------------------------------------------------------------
(* What leaves a sequence.                                                 *)

LEMMA LeavesByRemoval ==
  ASSUME NEW s \in Seq(Entry), NEW i \in DOMAIN s, NEW e \in ToSet(s) \ ToSet(RemoveAt(s, i))
  PROVE  e = s[i]
<1> DEFINE o == RemoveAt(s, i)
<1>1. Len(s) \in Nat /\ DOMAIN s = 1..Len(s) BY LenProperties
<1>2. /\ o \in Seq(Entry) /\ Len(o) = Len(s) - 1
      /\ \A k \in 1..(Len(s) - 1) : o[k] = IF k < i THEN s[k] ELSE s[k + 1]
  BY RemoveAtProperties
<1>3. DOMAIN o = 1..(Len(s) - 1) BY <1>2, LenProperties
<1> HIDE DEF o
<1>4. PICK j \in 1..Len(s) : e = s[j] BY <1>1 DEF ToSet
<1>5. SUFFICES ASSUME j # i PROVE FALSE BY <1>4
<1>6. \E k \in DOMAIN o : o[k] = s[j]
  <2>1. CASE j < i
    <3>1. j \in 1..(Len(s) - 1) BY <1>1, <2>1
    <3>2. QED BY <1>2, <1>3, <2>1, <3>1
  <2>2. CASE ~(j < i)
    <3>1. j - 1 \in 1..(Len(s) - 1) /\ ~(j - 1 < i) /\ (j - 1) + 1 = j BY <1>1, <1>5, <2>2
    <3>2. QED BY <1>2, <1>3, <3>1
  <2>3. QED BY <2>1, <2>2
<1>7. e \in ToSet(o) BY <1>4, <1>6 DEF ToSet
<1>8. QED BY <1>7 DEF o

LEMMA LeavesByPull ==
  ASSUME NEW s \in Seq(Entry), NEW S, NEW e \in ToSet(s) \ ToSet(PullOne(s, S))
  PROVE  e \in S
<1>1. CASE \E i \in DOMAIN s : s[i] \in S
  <2> DEFINE i == CHOOSE j \in DOMAIN s : s[j] \in S
  <2>1. i \in DOMAIN s /\ s[i] \in S BY <1>1
  <2>2. PullOne(s, S) = RemoveAt(s, i) BY <1>1 DEF PullOne
  <2> HIDE DEF i
  <2>3. QED BY <2>1, <2>2, LeavesByRemoval
<1>2. CASE ~ \E i \in DOMAIN s : s[i] \in S BY <1>2 DEF PullOne
<1>3. QED BY <1>1, <1>2

LEMMA NoneLeavesByMove ==
  ASSUME NEW s \in Seq(Entry), NEW i \in DOMAIN s, NEW k \in 0..(Len(s) - 1)
  PROVE  ToSet(s) \subseteq ToSet(Reinsert(s, i, k))
<1> DEFINE o == RemoveAt(s, i)
           r == Reinsert(s, i, k)
<1>1. Len(s) \in Nat /\ DOMAIN s = 1..Len(s) /\ k \in Int BY LenProperties
<1>2. /\ r \in Seq(Entry) /\ Len(r) = Len(s)
      /\ \A j \in 1..Len(s) : r[j] = IF j <= k THEN o[j] ELSE IF j = k + 1 THEN s[i] ELSE o[j - 1]
  BY ReinsertProperties
<1>3. DOMAIN r = 1..Len(s) BY <1>2, LenProperties
<1>4. DOMAIN o = 1..(Len(s) - 1)
  <2>1. o \in Seq(Entry) /\ Len(o) = Len(s) - 1 BY RemoveAtProperties
  <2>2. QED BY <2>1, LenProperties
<1> HIDE DEF r
<1>5. ASSUME NEW e \in ToSet(s) PROVE e \in ToSet(r)
  <2>1. CASE e = s[i]
    <3>1. k + 1 \in 1..Len(s) /\ ~(k + 1 <= k) BY <1>1
    <3>2. QED BY <1>2, <1>3, <2>1, <3>1 DEF ToSet
  <2>2. CASE e # s[i]
    <3>1. e \in ToSet(o) BY <2>2, LeavesByRemoval
    <3>2. PICK j \in 1..(Len(s) - 1) : e = o[j] BY <1>4, <3>1 DEF ToSet
    <3> HIDE DEF o
    <3>3. CASE j <= k
      <4>1. j \in 1..Len(s) BY <1>1
      <4>2. QED BY <1>2, <1>3, <3>2, <3>3, <4>1 DEF ToSet
    <3>4. CASE ~(j <= k)
      <4>1. j + 1 \in 1..Len(s) /\ ~(j + 1 <= k) /\ j + 1 # k + 1 /\ (j + 1) - 1 = j BY <1>1, <3>4
      <4>2. r[j + 1] = o[j] BY <1>2, <4>1
      <4>3. QED BY <1>3, <3>2, <4>1, <4>2 DEF ToSet
    <3>5. QED BY <3>3, <3>4
  <2>3. QED BY <2>1, <2>2
<1>6. QED BY <1>5 DEF r

LEMMA NoneLeavesByPush ==
  ASSUME NEW s \in Seq(Entry), NEW e \in Entry
  PROVE  ToSet(s) \subseteq ToSet(Append(s, e))
<1>1. Len(s) \in Nat /\ DOMAIN s = 1..Len(s) BY LenProperties
<1>2. /\ Append(s, e) \in Seq(Entry) /\ Len(Append(s, e)) = Len(s) + 1
      /\ \A i \in 1..Len(s) : Append(s, e)[i] = s[i]
  BY AppendProperties
<1>3. DOMAIN Append(s, e) = 1..(Len(s) + 1) BY <1>2, LenProperties
<1>4. \A i \in 1..Len(s) : i \in 1..(Len(s) + 1) BY <1>1
<1>5. QED BY <1>1, <1>2, <1>3, <1>4 DEF ToSet

-----------------------------------------------------------------------------
(* Every call of a handler changes what it remembers.                      *)

LEMMA TailDiffers ==
  ASSUME NEW s \in Seq(Steps), s # <<>>
  PROVE  Tail(s) # s
<1> DEFINE t == Tail(s)
<1>1. Len(s) \in Nat /\ Len(t) = Len(s) - 1 BY HeadTailProperties, LenProperties
<1> HIDE DEF t
<1>2. t # s BY <1>1
<1>3. QED BY <1>2 DEF t

LEMMA GotoMoves ==
  ASSUME TypeOK, NEW p \in Procs, NEW c \in Call, NEW rest, rest # call[p].rest,
         call[p].rest # <<>>, Goto(p, c, rest)
  PROVE  call'[p] # call[p]
<1>1. call' = [call EXCEPT ![p] = IF rest = <<>> THEN Idle ELSE [c EXCEPT !.rest = rest]]
  BY DEF Goto
<1>2. call'[p] = IF rest = <<>> THEN Idle ELSE [c EXCEPT !.rest = rest] BY <1>1 DEF TypeOK
<1>3. Idle.rest = <<>> /\ [c EXCEPT !.rest = rest].rest = rest BY DEF Idle, Call
<1>4. QED BY <1>2, <1>3

LEMMA ContinueMoves ==
  ASSUME TypeOK, NEW p \in Procs, call[p].rest # <<>>, Continue(p)
  PROVE  call'[p] # call[p]
<1>1. call[p] \in Call /\ call[p].rest \in Seq(Steps) BY DEF TypeOK, Call
<1>2. Tail(call[p].rest) # call[p].rest BY <1>1, TailDiffers
<1>3. QED BY <1>1, <1>2, GotoMoves DEF Continue

-----------------------------------------------------------------------------
(* The calls that change a queue.                                          *)

\* What leaves a queue when the entries of one are replaced.
LEMMA GoneFrom ==
  ASSUME TypeOK, NEW k, NEW entries, queues' = [queues EXCEPT ![k].entries = entries],
         NEW q \in Queues, NEW e \in Gone(q)
  PROVE  /\ q = k /\ e \in ToSet(queues[q].entries) \ ToSet(entries)
         /\ queues[q].entries \in Seq(Entry)
<1>1. queues[q].entries \in Seq(Entry) /\ queues \in [Queues -> QueueDoc] BY DEF TypeOK, QueueDoc
<1>2. q # k => queues'[q] = queues[q] BY <1>1
<1>3. q = k BY <1>2 DEF Gone
<1>4. queues'[q].entries = entries BY <1>1, <1>3 DEF QueueDoc
<1>5. QED BY <1>1, <1>3, <1>4 DEF Gone

LEMMA AgentsTakeTheFirst ==
  ASSUME Inv, NEW p \in Procs, GetNextTask(p), NEW q \in Queues, NEW e \in Gone(q)
  PROVE  TakesOnPurpose(p, q, e)
<1>1. TypeOK BY DEF Inv
<1>2. PICK k \in Queues :
        /\ queues[k].entries # <<>>
        /\ Begin(p, "next", [Idle EXCEPT !.op = "next", !.task = Head(queues[k].entries).task,
                                         !.rest = <<"pop_read">>])
        /\ queues' = [queues EXCEPT ![k].entries = Tail(queues[k].entries)]
  BY DEF GetNextTask
<1>3. q = k /\ e \in ToSet(queues[q].entries) \ ToSet(Tail(queues[q].entries))
      /\ queues[q].entries \in Seq(Entry)
  BY <1>1, <1>2, GoneFrom
<1>4. e = Head(queues[q].entries)
  <2>1. 1 \in DOMAIN queues[q].entries /\ Tail(queues[q].entries) = RemoveAt(queues[q].entries, 1)
    BY <1>2, <1>3, TailIsRemoveAt
  <2>2. e = queues[q].entries[1] BY <1>3, <2>1, LeavesByRemoval
  <2>3. QED BY <1>2, <1>3, <2>2, HeadTailProperties
<1>5. call'[p] = [Idle EXCEPT !.op = "next", !.task = Head(queues[k].entries).task, !.rest = <<"pop_read">>]
      /\ call[p].rest = <<>>
  BY <1>1, <1>2 DEF Begin, TypeOK
<1>6. call'[p].op = "next" /\ call'[p].rest = <<"pop_read">> BY <1>5 DEF Idle
<1>7. <<"pop_read">> # <<>> OBVIOUS
<1>8. call'[p] # call[p] BY <1>5, <1>6, <1>7
<1>9. QED BY <1>4, <1>6, <1>8 DEF TakesOnPurpose

LEMMA PushTakesNone ==
  ASSUME Inv, NEW p \in Procs, PushEntry(p), NEW q \in Queues
  PROVE  Gone(q) = {}
<1> DEFINE c == call[p]
<1>1. TypeOK /\ ProgramOK(c) BY DEF Inv, ProgramsOK
<1>2. CASE ~MayPush(c.to, c.task) BY <1>2 DEF PushEntry, Gone
<1>3. CASE MayPush(c.to, c.task)
  <2>1. PICK n \in 1..MaxAdded :
          queues' = [queues EXCEPT ![c.to].entries = Push(queues[c.to].entries, [task |-> c.task, added |-> n])]
    BY <1>3 DEF PushEntry
  <2>2. ~Avoids(c, "push") BY HeadNotAvoided DEF PushEntry, At
  <2>3. [task |-> c.task, added |-> n] \in Entry BY <1>1, <2>2 DEF ProgramOK, Entry
  <2>4. SUFFICES ASSUME NEW e \in Gone(q) PROVE FALSE OBVIOUS
  <2>5. /\ q = c.to /\ queues[q].entries \in Seq(Entry)
        /\ e \in ToSet(queues[q].entries)
                   \ ToSet(Push(queues[c.to].entries, [task |-> c.task, added |-> n]))
    BY <1>1, <2>1, <2>4, GoneFrom
  <2>6. QED BY <2>3, <2>5, NoneLeavesByPush DEF Push
<1>4. QED BY <1>2, <1>3

LEMMA OthersLoseTheTask ==
  ASSUME Inv, NEW p \in Procs, PullFromOthers(p), NEW q \in Queues, NEW e \in Gone(q)
  PROVE  TakesOnPurpose(p, q, e)
<1> DEFINE c == call[p]
<1>1. TypeOK /\ c \in Call /\ c.rest # <<>> BY DEF Inv, TypeOK, PullFromOthers, At
<1>2. PICK k \in c.todo :
        /\ queues' = [queues EXCEPT ![k].entries = PullTask(queues[k].entries, c.task)]
        /\ IF c.todo = {k} THEN Continue(p) ELSE call' = [call EXCEPT ![p].todo = @ \ {k}]
  BY DEF PullFromOthers
<1>3. /\ q = k /\ queues[q].entries \in Seq(Entry)
      /\ e \in ToSet(queues[q].entries) \ ToSet(PullTask(queues[q].entries, c.task))
  <2> DEFINE pulled == PullTask(queues[k].entries, c.task)
  <2>1. queues' = [queues EXCEPT ![k].entries = pulled] BY <1>2
  <2> HIDE DEF pulled
  <2>2. /\ q = k /\ queues[q].entries \in Seq(Entry)
        /\ e \in ToSet(queues[q].entries) \ ToSet(pulled)
    BY <1>1, <2>1, GoneFrom
  <2>3. QED BY <2>2 DEF pulled
<1>4. e \in EntriesOf(queues[q].entries, c.task) BY <1>3, LeavesByPull DEF PullTask
<1>5. c.task = e.task BY <1>4 DEF EntriesOf
<1>6. call'[p] # call[p]
  <2>1. CASE c.todo = {k} BY <1>1, <1>2, <2>1, ContinueMoves
  <2>2. CASE c.todo # {k}
    <3>1. call'[p].todo = c.todo \ {k} BY <1>1, <1>2, <2>2 DEF TypeOK, Call
    <3>2. QED BY <1>2, <3>1
  <2>3. QED BY <2>1, <2>2
<1>7. QED BY <1>5, <1>6 DEF TakesOnPurpose

LEMMA PullTakesTheFound ==
  ASSUME Inv, NEW p \in Procs, PullEntry(p), NEW q \in Queues, NEW e \in Gone(q)
  PROVE  TakesOnPurpose(p, q, e)
<1> DEFINE c == call[p]
           hit == Holds(c.from, c.task)
           rest == IF ~hit /\ c.op \in {"move", "remove_update"} THEN <<"reload">> ELSE Tail(c.rest)
           d == [c EXCEPT !.found = {}, !.task = IF c.op = "remove_update" THEN NoTask ELSE @]
<1>1. /\ TypeOK /\ c \in Call /\ c.rest # <<>> /\ Head(c.rest) = "pull" /\ c.rest \in Seq(Steps)
  BY DEF Inv, TypeOK, PullEntry, At, Call
<1>2. CASE ~hit BY <1>2 DEF PullEntry, Gone
<1>3. CASE hit
  <2>1. queues' = [queues EXCEPT ![c.from].entries = PullOne(queues[c.from].entries, c.found)]
    BY <1>3 DEF PullEntry
  <2>2. /\ q = c.from /\ queues[q].entries \in Seq(Entry)
        /\ e \in ToSet(queues[q].entries) \ ToSet(PullOne(queues[q].entries, c.found))
    BY <1>1, <2>1, GoneFrom
  <2>3. e \in c.found BY <2>2, LeavesByPull
  <2>4. Goto(p, d, Tail(c.rest)) BY <1>3 DEF PullEntry
  <2>5. Tail(c.rest) # c.rest BY <1>1, TailDiffers
  <2>6. d \in Call BY <1>1 DEF Call
  <2> HIDE DEF d
  <2>7. call'[p] # call[p] BY <1>1, <2>4, <2>5, <2>6, GotoMoves
  <2>8. QED BY <2>3, <2>7 DEF TakesOnPurpose
<1>4. QED BY <1>2, <1>3

LEMMA MoveTakesNone ==
  ASSUME Inv, NEW p \in Procs, MoveEntry(p), NEW q \in Queues
  PROVE  Gone(q) = {}
<1> DEFINE c == call[p]
<1>1. TypeOK /\ c.move \in Moves BY DEF Inv, TypeOK, Call
<1>2. CASE ~Holds(c.from, c.task) BY <1>2 DEF MoveEntry, Gone
<1>3. CASE Holds(c.from, c.task)
  <2>1. queues' = [queues EXCEPT ![c.from].entries = Reposition(queues[c.from].entries, c.task, c.move)]
    BY <1>3 DEF MoveEntry
  <2>2. SUFFICES ASSUME NEW e \in Gone(q) PROVE FALSE OBVIOUS
  <2>3. /\ q = c.from /\ queues[q].entries \in Seq(Entry)
        /\ e \in ToSet(queues[q].entries) \ ToSet(Reposition(queues[q].entries, c.task, c.move))
    BY <1>1, <2>1, <2>2, GoneFrom
  <2>4. HasTask(queues[q].entries, c.task) BY <1>3, <2>3 DEF Holds
  <2> DEFINE s == queues[q].entries
             moved == Reposition(s, c.task, c.move)
  <2>5. \E i \in DOMAIN s : \E k \in 0..(Len(s) - 1) : moved = Reinsert(s, i, k)
    <3>1. s \in Seq(Entry) /\ HasTask(s, c.task) BY <2>3, <2>4
    <3> HIDE DEF s
    <3>2. QED BY <1>1, <3>1, RepositionShape DEF Reinsert
  <2>6. s \in Seq(Entry) /\ e \in ToSet(s) \ ToSet(moved) BY <2>3
  <2> HIDE DEF s, moved
  <2>7. QED BY <2>5, <2>6, NoneLeavesByMove
<1>4. QED BY <1>2, <1>3

LEMMA OnPurpose ==
  ASSUME Inv, NEW p \in Procs, Request(p) \/ Step(p), ~EmptyQueue(p), ~DropQueue(p),
         NEW q \in Queues, NEW e \in Gone(q)
  PROVE  TakesOnPurpose(p, q, e)
<1>1. CASE Request(p)
  <2>1. CASE GetNextTask(p) BY <2>1, AgentsTakeTheFirst
  <2>2. CASE ~GetNextTask(p)
    BY <1>1, <2>2 DEF Gone, Request, Enqueue, DequeueTask, StopTask, SetStatusFromCall, ArchiveTask,
       UnarchiveTask, DeleteTask, ResetTask, PublishTask, AddTaskToQueue,
       RemoveTaskFromQueue, MoveTaskToQueue, RepositionTask, ClearQueue, DeleteQueue
  <2>3. QED BY <2>1, <2>2
<1>2. CASE Step(p)
  <2>1. CASE PushEntry(p) \/ MoveEntry(p) BY <2>1, PushTakesNone, MoveTakesNone
  <2>2. CASE PullFromOthers(p) BY <2>2, OthersLoseTheTask
  <2>3. CASE PullEntry(p) BY <2>3, PullTakesTheFound
  <2>4. CASE ~(PushEntry(p) \/ PullFromOthers(p) \/ PullEntry(p) \/ MoveEntry(p))
    BY <1>2, <2>4 DEF Gone, Step, ToQueued, CheckQueue, LogAdded, Revert, SetExecutionQueue, FindEntry,
       LogRemoved, RestoreStatus, ChangeStatus, TagTask, CleanupTask, DeleteDocument,
       ToCreated, SetPublishing, PublishModel, SetPublished, RollbackPublish, ReadPopped,
       FixPopped, DetachRead, DetachWrite
  <2>5. QED BY <2>1, <2>2, <2>3, <2>4
<1>3. QED BY <1>1, <1>2

\* As long as no clear and no deletion of a queue gets to its last call, an entry leaves a
\* queue only by the hand of a handler that meant it, whatever handlers interleave: what
\* remove_task and remove_task_from_all_queues pull by value is never the entry of another
\* task, and an agent gets the first one.
THEOREM OnlyOnPurpose == NothingEmptied => EntriesLeaveOnPurpose
<1> DEFINE A == \A q \in Queues :
                  LET gone == ToSet(queues[q].entries) \ ToSet(queues'[q].entries) IN
                  \A e \in gone : \E p \in Procs :
                    /\ call'[p] # call[p]
                    /\ \/ call'[p].op = "next" /\ e = Head(queues[q].entries)
                       \/ call[p].task = e.task
                       \/ e \in call[p].found
           Quietly == Next /\ \A p \in Procs : ~EmptyQueue(p) /\ ~DropQueue(p)
<1>1. Inv /\ [Quietly]_vars => [A]_vars
  <2>1. SUFFICES ASSUME Inv, Quietly PROVE A OBVIOUS
  <2>2. PICK p \in Procs : Request(p) \/ Step(p) BY <2>1 DEF Next
  <2>3. \A q \in Queues : \A e \in Gone(q) : TakesOnPurpose(p, q, e) BY <2>1, <2>2, OnPurpose
  <2>4. QED BY <2>3 DEF Gone, TakesOnPurpose
<1>2. [Quietly]_vars => [Next]_vars OBVIOUS
<1> HIDE DEF A
<1>3. NothingEmptied => [][A]_vars BY <1>1, <1>2, InitOK, NextOK, PTL DEF NothingEmptied
<1>4. QED BY <1>3 DEF EntriesLeaveOnPurpose, A

-----------------------------------------------------------------------------
(***************************************************************************)
(* Where a task waits: in one queue at most, once the requests about it    *)
(* have ended.                                                             *)
(*                                                                         *)
(* While requests are under way a task may well be in two queues.  Places  *)
(* says who will do something about it: of any two queues that hold a task *)
(* there is a handler of enqueue that pushed it into one of them and has   *)
(* yet to visit the other.  That holds when the task is pushed, because    *)
(* the visits come after the push, and no step of anybody else's undoes it.*)
(***************************************************************************)

\* queues.add_task and move_task_to_queue push without visiting the other queues, and an
\* enqueue whose write of the metrics raises goes back on the status alone.
OnlyEnqueuePushes ==
  /\ \A p \in Procs : Ops[p] \cap {"add", "move"} = {}
  /\ ~MetricsMayFail

Enqueuers == {"enqueue", "enqueue_keep"}

\* What is left of EnqueueProgram before and after the push.
ToPush == { <<"to_queued", "check", "push", "metrics", "set_queue", "pull_others">>,
            <<"to_queued", "check", "push", "metrics", "pull_others">>,
            <<"check", "push", "metrics", "set_queue", "pull_others">>,
            <<"check", "push", "metrics", "pull_others">>,
            <<"push", "metrics", "set_queue", "pull_others">>,
            <<"push", "metrics", "pull_others">> }
Pushed == { <<"metrics", "set_queue", "pull_others">>, <<"metrics", "pull_others">>,
            <<"set_queue", "pull_others">>, <<"pull_others">> }

EnqueuePlan(c) ==
  /\ c.op \notin {"add", "move"}
  /\ c.op \in Enqueuers /\ Queues # {c.to} =>
       /\ c.rest \in ToPush \cup Pushed \cup {<<"revert">>}
       /\ c.rest \in ToPush => c.todo = Queues \ {c.to}

\* The handler has pushed the task into q and will visit r.
WillVisit(c, t, q, r) ==
  c.op \in Enqueuers /\ c.task = t /\ c.rest \in Pushed /\ c.to = q /\ r \in c.todo

PlansOK == \A p \in Procs : EnqueuePlan(call[p])

Places ==
  \A t \in Tasks, q, r \in Queues : q # r /\ Holds(q, t) /\ Holds(r, t) =>
    \E p \in Procs : WillVisit(call[p], t, q, r) \/ WillVisit(call[p], t, r, q)

PlacesInv == Inv /\ NoDuplicateEntries /\ PlansOK /\ Places

-----------------------------------------------------------------------------
(* The program of enqueue.                                                 *)

LEMMA ConcatIs ==
  ASSUME NEW S, NEW s \in Seq(S), NEW t \in Seq(S), NEW u \in Seq(S),
         Len(u) = Len(s) + Len(t),
         \A i \in 1..Len(s) : u[i] = s[i], \A i \in 1..Len(t) : u[Len(s) + i] = t[i]
  PROVE  s \o t = u
<1> DEFINE v == s \o t
<1>1. /\ v \in Seq(S) /\ Len(v) = Len(s) + Len(t)
      /\ \A i \in 1..(Len(s) + Len(t)) : v[i] = IF i <= Len(s) THEN s[i] ELSE t[i - Len(s)]
  BY ConcatProperties
<1>2. Len(s) \in Nat /\ Len(t) \in Nat BY LenProperties
<1> HIDE DEF v
<1>3. ASSUME NEW i \in 1..(Len(s) + Len(t)) PROVE v[i] = u[i]
  <2>1. CASE i <= Len(s) BY <1>1, <1>2, <2>1
  <2>2. CASE ~(i <= Len(s))
    <3>1. i - Len(s) \in 1..Len(t) /\ Len(s) + (i - Len(s)) = i BY <1>2, <2>2
    <3>2. QED BY <1>1, <2>2, <3>1
  <2>3. QED BY <2>1, <2>2
<1>4. v = u BY <1>1, <1>3, SeqEqual
<1>5. QED BY <1>4 DEF v

LEMMA EnqueueProgramForms ==
  ASSUME NEW op \in Enqueuers, NEW others
  PROVE  EnqueueProgram(op, others) =
           IF op = "enqueue"
           THEN IF others # {}
                THEN <<"to_queued", "check", "push", "metrics", "set_queue", "pull_others">>
                ELSE <<"to_queued", "check", "push", "metrics", "set_queue">>
           ELSE IF others # {}
                THEN <<"to_queued", "check", "push", "metrics", "pull_others">>
                ELSE <<"to_queued", "check", "push", "metrics">>
<1> DEFINE A == <<"to_queued">>
           B == <<"check", "push", "metrics">>
           C == <<"set_queue">>
           D == <<"pull_others">>
           AB == <<"to_queued", "check", "push", "metrics">>
           ABC == <<"to_queued", "check", "push", "metrics", "set_queue">>
           ABD == <<"to_queued", "check", "push", "metrics", "pull_others">>
           ABCD == <<"to_queued", "check", "push", "metrics", "set_queue", "pull_others">>
           N == <<>>
           S == {"to_queued", "check", "push", "metrics", "set_queue", "pull_others"}
<1>1. /\ A \in Seq(S) /\ B \in Seq(S) /\ C \in Seq(S) /\ D \in Seq(S)
      /\ AB \in Seq(S) /\ ABC \in Seq(S) /\ ABD \in Seq(S) /\ ABCD \in Seq(S)
  OBVIOUS
<1> HIDE DEF S
<1>2. /\ Len(A) = 1 /\ Len(B) = 3 /\ Len(C) = 1 /\ Len(D) = 1
      /\ Len(AB) = 4 /\ Len(ABC) = 5 /\ Len(ABD) = 5 /\ Len(ABCD) = 6
  OBVIOUS
<1>3. A \o B = AB
  <2>1. \A i \in 1..1 : AB[i] = A[i] OBVIOUS
  <2>2. \A i \in 1..3 : AB[1 + i] = B[i]
    <3>1. AB[2] = B[1] /\ AB[3] = B[2] /\ AB[4] = B[3] OBVIOUS
    <3> HIDE DEF AB, B
    <3>2. QED BY <3>1
  <2> HIDE DEF A, B, AB
  <2>3. /\ Len(AB) = Len(A) + Len(B)
        /\ \A i \in 1..Len(A) : AB[i] = A[i]
        /\ \A i \in 1..Len(B) : AB[Len(A) + i] = B[i]
    BY <1>2, <2>1, <2>2
  <2>4. QED BY <1>1, <2>3, ConcatIs
<1>4. AB \o C = ABC
  <2>1. \A i \in 1..4 : ABC[i] = AB[i] OBVIOUS
  <2>2. ABC[5] = C[1] OBVIOUS
  <2> HIDE DEF C, AB, ABC
  <2>3. \A i \in 1..1 : ABC[4 + i] = C[i] BY <2>2
  <2>4. /\ Len(ABC) = Len(AB) + Len(C)
        /\ \A i \in 1..Len(AB) : ABC[i] = AB[i]
        /\ \A i \in 1..Len(C) : ABC[Len(AB) + i] = C[i]
    BY <1>2, <2>1, <2>3
  <2>5. QED BY <1>1, <2>4, ConcatIs
<1>5. AB \o D = ABD
  <2>1. \A i \in 1..4 : ABD[i] = AB[i] OBVIOUS
  <2>2. ABD[5] = D[1] OBVIOUS
  <2> HIDE DEF D, AB, ABD
  <2>3. \A i \in 1..1 : ABD[4 + i] = D[i] BY <2>2
  <2>4. /\ Len(ABD) = Len(AB) + Len(D)
        /\ \A i \in 1..Len(AB) : ABD[i] = AB[i]
        /\ \A i \in 1..Len(D) : ABD[Len(AB) + i] = D[i]
    BY <1>2, <2>1, <2>3
  <2>5. QED BY <1>1, <2>4, ConcatIs
<1>6. ABC \o D = ABCD
  <2>1. \A i \in 1..5 : ABCD[i] = ABC[i] OBVIOUS
  <2>2. ABCD[6] = D[1] OBVIOUS
  <2> HIDE DEF D, ABC, ABCD
  <2>3. \A i \in 1..1 : ABCD[5 + i] = D[i] BY <2>2
  <2>4. /\ Len(ABCD) = Len(ABC) + Len(D)
        /\ \A i \in 1..Len(ABC) : ABCD[i] = ABC[i]
        /\ \A i \in 1..Len(D) : ABCD[Len(ABC) + i] = D[i]
    BY <1>2, <2>1, <2>3
  <2>5. QED BY <1>1, <2>4, ConcatIs
<1>7. AB \o N = AB /\ ABC \o N = ABC BY <1>1, EmptySeq, ConcatEmptySeq
<1>8. EnqueueProgram(op, others)
        = ((A \o B) \o When(op = "enqueue", C)) \o When(others # {}, D)
  BY DEF EnqueueProgram, AddTask
<1>9. /\ When(op = "enqueue", C) = IF op = "enqueue" THEN C ELSE N
      /\ When(others # {}, D) = IF others # {} THEN D ELSE N
  BY DEF When
<1> HIDE DEF A, B, C, D, N
<1>10. EnqueueProgram(op, others) =
         IF op = "enqueue" THEN IF others # {} THEN ABCD ELSE ABC
         ELSE IF others # {} THEN ABD ELSE AB
  BY <1>3, <1>4, <1>5, <1>6, <1>7, <1>8, <1>9
<1>11. QED BY <1>10

LEMMA EnqueueProgramIs ==
  ASSUME NEW op \in Enqueuers, NEW others, others # {}
  PROVE  EnqueueProgram(op, others) \in ToPush
BY EnqueueProgramForms DEF ToPush

\* How the rest of the program gets shorter.
LEMMA BeforeThePush ==
  ASSUME NEW rest \in ToPush
  PROVE  /\ rest # <<>> /\ Head(rest) \in {"to_queued", "check", "push"} /\ rest \notin Pushed
         /\ Head(rest) # "push" => Tail(rest) \in ToPush
         /\ Head(rest) = "push" => Tail(rest) \in Pushed
<1>1. \/ rest = <<"to_queued", "check", "push", "metrics", "set_queue", "pull_others">>
      \/ rest = <<"to_queued", "check", "push", "metrics", "pull_others">>
      \/ rest = <<"check", "push", "metrics", "set_queue", "pull_others">>
      \/ rest = <<"check", "push", "metrics", "pull_others">>
      \/ rest = <<"push", "metrics", "set_queue", "pull_others">>
      \/ rest = <<"push", "metrics", "pull_others">>
  BY DEF ToPush
<1>2. CASE rest = <<"to_queued", "check", "push", "metrics", "set_queue", "pull_others">>
  BY <1>2 DEF ToPush, Pushed
<1>3. CASE rest = <<"to_queued", "check", "push", "metrics", "pull_others">>
  BY <1>3 DEF ToPush, Pushed
<1>4. CASE rest = <<"check", "push", "metrics", "set_queue", "pull_others">>
  BY <1>4 DEF ToPush, Pushed
<1>5. CASE rest = <<"check", "push", "metrics", "pull_others">>
  BY <1>5 DEF ToPush, Pushed
<1>6. CASE rest = <<"push", "metrics", "set_queue", "pull_others">>
  BY <1>6 DEF ToPush, Pushed
<1>7. CASE rest = <<"push", "metrics", "pull_others">>
  BY <1>7 DEF ToPush, Pushed
<1>8. QED BY <1>1, <1>2, <1>3, <1>4, <1>5, <1>6, <1>7

LEMMA AfterThePush ==
  ASSUME NEW rest \in Pushed
  PROVE  /\ rest # <<>> /\ Head(rest) \in {"metrics", "set_queue", "pull_others"} /\ rest \notin ToPush
         /\ Head(rest) # "pull_others" => Tail(rest) \in Pushed
         /\ Head(rest) = "pull_others" => Tail(rest) = <<>>
<1>1. \/ rest = <<"metrics", "set_queue", "pull_others">>
      \/ rest = <<"metrics", "pull_others">>
      \/ rest = <<"set_queue", "pull_others">>
      \/ rest = <<"pull_others">>
  BY DEF Pushed
<1>2. CASE rest = <<"metrics", "set_queue", "pull_others">>
  BY <1>2 DEF ToPush, Pushed
<1>3. CASE rest = <<"metrics", "pull_others">>
  BY <1>3 DEF ToPush, Pushed
<1>4. CASE rest = <<"set_queue", "pull_others">>
  BY <1>4 DEF ToPush, Pushed
<1>5. CASE rest = <<"pull_others">>
  BY <1>5 DEF ToPush, Pushed
<1>6. QED BY <1>1, <1>2, <1>3, <1>4, <1>5

LEMMA AtTheRevert ==
  /\ <<"revert">> # <<>> /\ Head(<<"revert">>) = "revert" /\ Tail(<<"revert">>) = <<>>
  /\ <<"revert">> \notin ToPush /\ <<"revert">> \notin Pushed
BY DEF ToPush, Pushed

-----------------------------------------------------------------------------
(* Only a push puts a task into a queue.                                   *)

LEMMA RemovalBringsNone ==
  ASSUME NEW s \in Seq(Entry), NEW i \in DOMAIN s, NEW t, HasTask(RemoveAt(s, i), t)
  PROVE  HasTask(s, t)
<1> DEFINE o == RemoveAt(s, i)
<1>1. Len(s) \in Nat /\ DOMAIN s = 1..Len(s) BY LenProperties
<1>2. /\ o \in Seq(Entry) /\ Len(o) = Len(s) - 1
      /\ \A k \in 1..(Len(s) - 1) : o[k] = IF k < i THEN s[k] ELSE s[k + 1]
  BY RemoveAtProperties
<1> HIDE DEF o
<1>3. DOMAIN o = 1..(Len(s) - 1) BY <1>2, LenProperties
<1>4. HasTask(o, t) BY DEF o
<1>5. PICK k \in 1..(Len(s) - 1) : o[k].task = t BY <1>3, <1>4 DEF HasTask
<1>6. k \in 1..Len(s) /\ k + 1 \in 1..Len(s) BY <1>1
<1>7. QED BY <1>1, <1>2, <1>5, <1>6 DEF HasTask

LEMMA PullBringsNone ==
  ASSUME NEW s \in Seq(Entry), NEW S, NEW t, HasTask(PullOne(s, S), t)
  PROVE  HasTask(s, t)
<1>1. CASE \E i \in DOMAIN s : s[i] \in S
  <2> DEFINE i == CHOOSE j \in DOMAIN s : s[j] \in S
  <2>1. i \in DOMAIN s BY <1>1
  <2>2. PullOne(s, S) = RemoveAt(s, i) BY <1>1 DEF PullOne
  <2> HIDE DEF i
  <2>3. QED BY <2>1, <2>2, RemovalBringsNone
<1>2. CASE ~ \E i \in DOMAIN s : s[i] \in S BY <1>2 DEF PullOne
<1>3. QED BY <1>1, <1>2

LEMMA MoveBringsNone ==
  ASSUME NEW s \in Seq(Entry), NEW i \in DOMAIN s, NEW k \in 0..(Len(s) - 1), NEW t,
         HasTask(Reinsert(s, i, k), t)
  PROVE  HasTask(s, t)
<1> DEFINE o == RemoveAt(s, i)
           r == Reinsert(s, i, k)
<1>1. Len(s) \in Nat /\ DOMAIN s = 1..Len(s) /\ k \in Int BY LenProperties
<1>2. /\ r \in Seq(Entry) /\ Len(r) = Len(s)
      /\ \A j \in 1..Len(s) : r[j] = IF j <= k THEN o[j] ELSE IF j = k + 1 THEN s[i] ELSE o[j - 1]
  BY ReinsertProperties
<1>3. DOMAIN r = 1..Len(s) BY <1>2, LenProperties
<1>4. DOMAIN o = 1..(Len(s) - 1)
  <2>1. o \in Seq(Entry) /\ Len(o) = Len(s) - 1 BY RemoveAtProperties
  <2>2. QED BY <2>1, LenProperties
<1>5. HasTask(o, t) => HasTask(s, t) BY RemovalBringsNone
<1> HIDE DEF r
<1>6. HasTask(r, t) BY DEF r
<1> HIDE DEF o
<1>7. PICK j \in 1..Len(s) : r[j].task = t BY <1>3, <1>6 DEF HasTask
<1>8. CASE j = k + 1
  <2>1. ~(j <= k) BY <1>1, <1>8
  <2>2. r[j] = s[i] BY <1>2, <1>8, <2>1
  <2>3. QED BY <1>7, <2>2 DEF HasTask
<1>9. CASE j <= k
  <2>1. j \in 1..(Len(s) - 1) BY <1>1, <1>9
  <2>2. QED BY <1>2, <1>4, <1>5, <1>7, <1>9, <2>1 DEF HasTask
<1>10. CASE j > k + 1
  <2>1. j - 1 \in 1..(Len(s) - 1) /\ ~(j <= k) /\ j # k + 1 BY <1>1, <1>10
  <2>2. QED BY <1>2, <1>4, <1>5, <1>7, <2>1 DEF HasTask
<1>11. QED BY <1>1, <1>8, <1>9, <1>10

LEMMA NothingNew ==
  ASSUME TypeOK, NEW k, NEW entries, queues' = [queues EXCEPT ![k].entries = entries],
         NEW t, k \in Queues /\ HasTask(entries, t) => HasTask(queues[k].entries, t),
         NEW q \in Queues, Holds(q, t)'
  PROVE  Holds(q, t)
<1>1. queues \in [Queues -> QueueDoc] BY DEF TypeOK
<1>2. CASE q # k
  <2>1. queues'[q] = queues[q] BY <1>1, <1>2
  <2>2. QED BY <2>1 DEF Holds
<1>3. CASE q = k
  <2>1. queues'[q].entries = entries /\ queues'[q].exists = queues[q].exists BY <1>1, <1>3 DEF QueueDoc
  <2>2. QED BY <1>3, <2>1 DEF Holds
<1>4. QED BY <1>2, <1>3

\* A task that is in a queue and was not before: somebody has pushed it there.
LEMMA OnlyPushBrings ==
  ASSUME Inv, NEW r \in Procs, Request(r) \/ Step(r), NEW q \in Queues, NEW t \in Tasks,
         Holds(q, t)', ~Holds(q, t)
  PROVE  PushEntry(r) /\ q = call[r].to /\ t = call[r].task /\ MayPush(q, t)
<1> DEFINE c == call[r]
<1>1. TypeOK /\ c \in Call /\ ProgramOK(c) BY CallFacts DEF Inv
<1>2. \A k \in Queues : queues[k].entries \in Seq(Entry) BY <1>1 DEF TypeOK, QueueDoc
<1>3. ~UNCHANGED queues BY DEF Holds
<1>4. ~GetNextTask(r)
  <2> SUFFICES ASSUME GetNextTask(r) PROVE FALSE OBVIOUS
  <2>1. PICK k \in Queues : /\ queues[k].entries # <<>>
                            /\ queues' = [queues EXCEPT ![k].entries = Tail(queues[k].entries)]
    BY DEF GetNextTask
  <2>2. HasTask(Tail(queues[k].entries), t) => HasTask(queues[k].entries, t)
    BY <1>2, <2>1, TailIsRemoveAt, RemovalBringsNone
  <2>3. QED BY <1>1, <2>1, <2>2, NothingNew
<1>5. Step(r)
  BY <1>3, <1>4 DEF Request, Enqueue, DequeueTask, StopTask, SetStatusFromCall, ArchiveTask,
     UnarchiveTask, DeleteTask, ResetTask, PublishTask, AddTaskToQueue,
     RemoveTaskFromQueue, MoveTaskToQueue, RepositionTask, ClearQueue, DeleteQueue
<1>6. CASE PushEntry(r)
  <2>1. MayPush(c.to, c.task) BY <1>3, <1>6 DEF PushEntry
  <2>2. PICK n \in 1..MaxAdded :
          queues' = [queues EXCEPT ![c.to].entries =
                       Push(queues[c.to].entries, [task |-> c.task, added |-> n])]
    BY <1>6, <2>1 DEF PushEntry
  <2> DEFINE e == [task |-> c.task, added |-> n]
             s == queues[c.to].entries
  <2>3. q = c.to
    <3>1. q # c.to => queues'[q] = queues[q] BY <1>1, <2>2 DEF TypeOK
    <3>2. QED BY <3>1 DEF Holds
  <2>4. e \in Entry /\ s \in Seq(Entry)
    <3>1. ~Avoids(c, "push") BY <1>6, HeadNotAvoided DEF PushEntry, At
    <3>2. c.task \in Tasks BY <1>1, <3>1 DEF ProgramOK
    <3>3. QED BY <1>2, <2>3, <3>2 DEF Entry
  <2>5. t = c.task
    <3>1. queues'[q].exists = queues[q].exists /\ queues'[q].entries = Append(s, e)
      BY <1>1, <2>2, <2>3 DEF TypeOK, QueueDoc, Push
    <3>2. ~HasTask(s, t) /\ HasTask(Append(s, e), t) BY <2>3, <3>1 DEF Holds
    <3>3. e.task = c.task OBVIOUS
    <3> HIDE DEF s, e
    <3>4. Len(s) \in Nat /\ DOMAIN s = 1..Len(s) BY <2>4, LenProperties
    <3>5. /\ Append(s, e) \in Seq(Entry) /\ Len(Append(s, e)) = Len(s) + 1
          /\ \A i \in 1..Len(s) : Append(s, e)[i] = s[i]
          /\ Append(s, e)[Len(s) + 1] = e
      BY <2>4, AppendProperties
    <3>6. DOMAIN Append(s, e) = 1..(Len(s) + 1) BY <3>4, <3>5, LenProperties
    <3>7. PICK i \in 1..(Len(s) + 1) : Append(s, e)[i].task = t BY <3>2, <3>6 DEF HasTask
    <3>8. i \in 1..Len(s) => HasTask(s, t) BY <3>4, <3>5, <3>7 DEF HasTask
    <3>9. i = Len(s) + 1 BY <3>2, <3>4, <3>7, <3>8
    <3>10. QED BY <3>3, <3>5, <3>7, <3>9
  <2>6. QED BY <1>6, <2>1, <2>3, <2>5
<1>7. ~PullFromOthers(r)
  <2> SUFFICES ASSUME PullFromOthers(r) PROVE FALSE OBVIOUS
  <2>1. PICK k \in c.todo : queues' = [queues EXCEPT ![k].entries = PullTask(queues[k].entries, c.task)]
    BY DEF PullFromOthers
  <2>2. k \in Queues => (HasTask(PullTask(queues[k].entries, c.task), t) => HasTask(queues[k].entries, t))
    BY <1>2, PullBringsNone DEF PullTask
  <2>3. QED BY <1>1, <2>1, <2>2, NothingNew
<1>8. ~PullEntry(r)
  <2> SUFFICES ASSUME PullEntry(r) PROVE FALSE OBVIOUS
  <2>1. queues' = [queues EXCEPT ![c.from].entries = PullOne(queues[c.from].entries, c.found)]
    BY <1>3 DEF PullEntry
  <2>2. c.from \in Queues => (HasTask(PullOne(queues[c.from].entries, c.found), t)
                              => HasTask(queues[c.from].entries, t))
    BY <1>2, PullBringsNone
  <2>3. QED BY <1>1, <2>1, <2>2, NothingNew
<1>9. ~MoveEntry(r)
  <2> SUFFICES ASSUME MoveEntry(r) PROVE FALSE OBVIOUS
  <2> DEFINE s == queues[c.from].entries
             moved == Reposition(s, c.task, c.move)
  <2>1. queues' = [queues EXCEPT ![c.from].entries = moved] /\ Holds(c.from, c.task)
    BY <1>3 DEF MoveEntry
  <2>2. HasTask(s, c.task) /\ c.move \in Moves BY <1>1, <2>1 DEF Holds, Call
  <2>3. c.from \in Queues => s \in Seq(Entry) BY <1>2
  <2> HIDE DEF s
  <2>4. c.from \in Queues => \E i \in DOMAIN s : \E k \in 0..(Len(s) - 1) : moved = Reinsert(s, i, k)
    BY <2>2, <2>3, RepositionShape DEF Reinsert
  <2> HIDE DEF moved
  <2>5. c.from \in Queues => (HasTask(moved, t) => HasTask(s, t)) BY <2>3, <2>4, MoveBringsNone
  <2>6. c.from \in Queues /\ HasTask(moved, t) => HasTask(queues[c.from].entries, t) BY <2>5 DEF s
  <2>7. QED BY <1>1, <2>1, <2>6, NothingNew
<1>10. ~EmptyQueue(r) /\ ~DropQueue(r)
  <2>1. ~HasTask(<<>>, t) BY DEF HasTask
  <2>2. EmptyQueue(r) => FALSE
    <3> SUFFICES ASSUME EmptyQueue(r) PROVE FALSE OBVIOUS
    <3>1. queues' = [queues EXCEPT ![c.from].entries = <<>>] BY <1>3 DEF EmptyQueue
    <3>2. QED BY <1>1, <2>1, <3>1, NothingNew
  <2>3. DropQueue(r) => FALSE
    <3> SUFFICES ASSUME DropQueue(r) PROVE FALSE OBVIOUS
    <3>1. queues' = [queues EXCEPT ![c.from] = [exists |-> FALSE, entries |-> <<>>]] BY DEF DropQueue
    <3>2. queues'[q] = queues[q] \/ queues'[q].exists = FALSE BY <1>1, <3>1 DEF TypeOK
    <3>3. QED BY <3>2 DEF Holds
  <2>4. QED BY <2>2, <2>3
<1>11. PushEntry(r)
  BY <1>3, <1>5, <1>7, <1>8, <1>9, <1>10
     DEF Step, ToQueued, CheckQueue, LogAdded, Revert, SetExecutionQueue, FindEntry,
     LogRemoved, RestoreStatus, ChangeStatus, TagTask, CleanupTask, DeleteDocument,
     ToCreated, SetPublishing, PublishModel, SetPublished, RollbackPublish, ReadPopped,
     FixPopped, DetachRead, DetachWrite
<1>12. QED BY <1>6, <1>11

-----------------------------------------------------------------------------
(* What a handler has yet to do.                                           *)

LEMMA GotoIs ==
  ASSUME TypeOK, NEW r \in Procs, NEW c \in Call, NEW rest, Goto(r, c, rest)
  PROVE  \/ rest = <<>> /\ call'[r] = Idle
         \/ /\ rest # <<>> /\ call'[r].rest = rest /\ call'[r].op = c.op /\ call'[r].task = c.task
            /\ call'[r].to = c.to /\ call'[r].todo = c.todo /\ call'[r].from = c.from
            /\ call'[r].force = c.force /\ call'[r].expect = c.expect /\ call'[r].new = c.new
            /\ call'[r].found = c.found /\ call'[r].work = c.work
<1>1. call'[r] = IF rest = <<>> THEN Idle ELSE [c EXCEPT !.rest = rest] BY DEF Goto, TypeOK
<1>2. QED BY <1>1 DEF Call

LEMMA NothingPlanned == Idle.op = "none" /\ EnqueuePlan(Idle)
BY DEF Idle, EnqueuePlan, Enqueuers

\* A request of another endpoint plans nothing.
LEMMA OtherRequests ==
  ASSUME OnlyEnqueuePushes, TypeOK, NEW r \in Procs, Request(r), ~Enqueue(r)
  PROVE  EnqueuePlan(call'[r])
<1> DEFINE Others == OpNames \ (Enqueuers \cup {"add", "move"})
<1>1. \A op, c : Begin(r, op, c) => call'[r] = c /\ op \in Ops[r] BY DEF Begin, TypeOK
<1>2. "add" \notin Ops[r] /\ "move" \notin Ops[r] BY DEF OnlyEnqueuePushes
<1>3. \A c : c.op \in Others => EnqueuePlan(c) BY DEF EnqueuePlan
<1>4. /\ {"dequeue", "dequeue_all", "stop", "change", "archive", "unarchive", "delete"} \subseteq Others
      /\ {"reset", "publish", "next", "remove", "remove_update", "reposition"} \subseteq Others
      /\ {"clear", "drop", "drop_forced"} \subseteq Others
  BY DEF OpNames, Enqueuers
<1> HIDE DEF Others
<1>5. ~AddTaskToQueue(r) /\ ~MoveTaskToQueue(r) BY <1>1, <1>2 DEF AddTaskToQueue, MoveTaskToQueue
<1>6. call'[r].op \in Others
  <2>0. call \in [Procs -> Call] BY DEF TypeOK
  <2>1. CASE DequeueTask(r)
    <3> DEFINE base(t, op) == [Idle EXCEPT !.op = op, !.task = t, !.todo = Queues]
    <3>1. PICK t \in Tasks, op \in {"dequeue", "dequeue_all"}, asked \in AskedStatuses :
            \/ Begin(r, op, [base(t, op) EXCEPT !.rest = <<"pull_others">>])
            \/ Begin(r, op,
                 [base(t, op) EXCEPT !.from = tasks[t].queue, !.expect = tasks[t].status,
                    !.new = RestoredStatus(tasks[t], asked, NoStatus), !.force = TRUE,
                    !.rest = DequeueAndChangeStatus(tasks[t], op = "dequeue_all")])
      BY <2>1 DEF DequeueTask
    <3>2. base(t, op) \in Call /\ base(t, op).op = op BY IdleOK DEF Idle, Call, OpNames
    <3> HIDE DEF base
    <3> DEFINE a == [base(t, op) EXCEPT !.rest = <<"pull_others">>]
               d == [base(t, op) EXCEPT !.from = tasks[t].queue, !.expect = tasks[t].status,
                       !.new = RestoredStatus(tasks[t], asked, NoStatus), !.force = TRUE,
                       !.rest = DequeueAndChangeStatus(tasks[t], op = "dequeue_all")]
    <3>3. a.op = op /\ d.op = op BY <3>2 DEF Call
    <3>4. Begin(r, op, a) \/ Begin(r, op, d) BY <3>1
    <3> HIDE DEF a, d
    <3>5. call'[r].op = op BY <2>0, <3>3, <3>4 DEF Begin
    <3>6. QED BY <1>4, <3>5
  <2>2. CASE StopTask(r) BY <1>4, <2>0, <2>2 DEF StopTask, Begin, Idle
  <2>3. CASE SetStatusFromCall(r) BY <1>4, <2>0, <2>3 DEF SetStatusFromCall, Begin, Idle
  <2>4. CASE ArchiveTask(r) BY <1>4, <2>0, <2>4 DEF ArchiveTask, Begin, Idle
  <2>5. CASE UnarchiveTask(r) BY <1>4, <2>0, <2>5 DEF UnarchiveTask, Begin, Idle
  <2>6. CASE DeleteTask(r) BY <1>4, <2>0, <2>6 DEF DeleteTask, Begin, Idle
  <2>7. CASE ResetTask(r) BY <1>4, <2>0, <2>7 DEF ResetTask, Begin, Idle
  <2>8. CASE PublishTask(r) BY <1>4, <2>0, <2>8 DEF PublishTask, Begin, Idle
  <2>9. CASE GetNextTask(r) BY <1>4, <2>0, <2>9 DEF GetNextTask, Begin, Idle
  <2>10. CASE RemoveTaskFromQueue(r) BY <1>4, <2>0, <2>10 DEF RemoveTaskFromQueue, Begin, Idle
  <2>11. CASE RepositionTask(r) BY <1>4, <2>0, <2>11 DEF RepositionTask, Begin, Idle
  <2>12. CASE ClearQueue(r) BY <1>4, <2>0, <2>12 DEF ClearQueue, Begin, Idle
  <2>13. CASE DeleteQueue(r) BY <1>4, <2>0, <2>13 DEF DeleteQueue, Begin, Idle
  <2>14. QED
    BY <1>5, <2>1, <2>2, <2>3, <2>4, <2>5, <2>6, <2>7, <2>8, <2>9, <2>10, <2>11, <2>12, <2>13
       DEF Request
<1>7. QED BY <1>3, <1>6

LEMMA EnqueuePlans ==
  ASSUME Inv, NEW r \in Procs, Enqueue(r)
  PROVE  EnqueuePlan(call'[r])
<1> DEFINE c(t, q, force, op) ==
             [Idle EXCEPT !.op = op, !.task = t, !.to = q, !.force = force,
                !.expect = tasks[t].status, !.new = queued,
                !.enqueue_status = BeforeEnqueue(tasks[t]), !.todo = Queues \ {q},
                !.rest = EnqueueProgram(op, Queues \ {q})]
<1>1. PICK t \in Tasks, q \in Queues, force \in ForceFlags, op \in Enqueuers :
        Begin(r, op, c(t, q, force, op))
  BY DEF Enqueue, Enqueuers
<1> DEFINE d == c(t, q, force, op)
<1>2. call'[r] = d BY <1>1 DEF Begin, Inv, TypeOK
<1>3. d.op = op /\ d.to = q /\ d.todo = Queues \ {q} /\ d.rest = EnqueueProgram(op, Queues \ {q})
  BY DEF Idle
<1> HIDE DEF d
<1>4. Queues # {q} => Queues \ {q} # {} OBVIOUS
<1>5. Queues # {q} => d.rest \in ToPush BY <1>3, <1>4, EnqueueProgramIs
<1>6. op \notin {"add", "move"} BY DEF Enqueuers
<1>7. QED BY <1>2, <1>3, <1>5, <1>6 DEF EnqueuePlan

\* Of the endpoints considered, a handler keeps its own and what it was asked: it takes on
\* no task, and reads statuses anew only when it restores those of the tasks it removed.
Carries(c, d) ==
  /\ d.op = c.op /\ d.to = c.to /\ d.from = c.from /\ d.force = c.force
  /\ d.task \in {c.task, NoTask} \cup c.work /\ d.work \subseteq c.work
  /\ Head(c.rest) # "detach" => d.expect = c.expect /\ d.new = c.new

Keeps(r) == call'[r] = Idle \/ Carries(call[r], call'[r])

LEMMA StepKeeps ==
  ASSUME Inv, NEW r \in Procs, Step(r), call[r].op # "move"
  PROVE  Keeps(r)
<1> DEFINE c == call[r]
<1>1. TypeOK /\ c \in Call BY CallFacts DEF Inv
<1>0. Carries(c, c) BY DEF Carries
<1>2. ASSUME NEW d \in Call, Carries(c, d), NEW rest, Goto(r, d, rest) PROVE Keeps(r)
  BY <1>1, <1>2, GotoIs DEF Keeps, Carries
<1>3. Continue(r) => Keeps(r) BY <1>0, <1>1, <1>2 DEF Continue
<1>4. Done(r) => Keeps(r)
  <2>1. Idle \in Call BY IdleOK
  <2>2. QED BY <1>1, <2>1, GotoIs DEF Done, Keeps
<1>5. AddFails(r) => Keeps(r) BY <1>0, <1>1, <1>2, <1>4 DEF AddFails
<1>6. PublishFails(r) => Keeps(r) BY <1>0, <1>1, <1>2, <1>4 DEF PublishFails
<1>7. ASSUME NEW d \in Call, Carries(c, d), DetachNext(r, d) PROVE Keeps(r)
  BY <1>2, <1>7 DEF DetachNext
<1>8. CASE ToQueued(r) \/ CheckQueue(r) \/ PushEntry(r) \/ LogAdded(r)
  BY <1>3, <1>4, <1>5, <1>8 DEF ToQueued, CheckQueue, PushEntry, LogAdded
<1>9. CASE Revert(r) \/ SetExecutionQueue(r) \/ LogRemoved(r) \/ RestoreStatus(r)
  BY <1>3, <1>4, <1>9 DEF Revert, SetExecutionQueue, LogRemoved, RestoreStatus
<1>10. CASE PullFromOthers(r)
  <2>1. PICK q \in c.todo : IF c.todo = {q} THEN Continue(r) ELSE call' = [call EXCEPT ![r].todo = @ \ {q}]
    BY <1>10 DEF PullFromOthers
  <2>2. ASSUME c.todo # {q} PROVE Carries(c, call'[r])
    <3>1. call'[r] = [c EXCEPT !.todo = @ \ {q}] BY <1>1, <2>1, <2>2 DEF TypeOK
    <3>2. QED BY <1>1, <3>1 DEF Call, Carries
  <2>3. QED BY <1>3, <2>1, <2>2 DEF Keeps
<1>11. CASE FindEntry(r)
  <2> DEFINE d == [c EXCEPT !.found = EntriesOf(queues[c.from].entries, c.task)]
  <2>1. \/ Goto(r, d, Tail(c.rest)) /\ Holds(c.from, c.task)
        \/ Goto(r, c, SubSeq(c.rest, Len(RemoveTask) + 1, Len(c.rest)))
        \/ Done(r)
    BY <1>11 DEF FindEntry
  <2>2. ASSUME Goto(r, d, Tail(c.rest)) PROVE Keeps(r)
    <3>1. call'[r] = IF Tail(c.rest) = <<>> THEN Idle ELSE [d EXCEPT !.rest = Tail(c.rest)]
      BY <1>1, <2>2 DEF Goto, TypeOK
    <3>2. Carries(c, [d EXCEPT !.rest = Tail(c.rest)]) BY <1>1 DEF Call, Carries
    <3>3. QED BY <3>1, <3>2 DEF Keeps
  <2>3. QED BY <1>0, <1>1, <1>2, <1>4, <2>1, <2>2
<1>12. CASE PullEntry(r)
  <2> DEFINE d == [c EXCEPT !.found = {}, !.task = IF c.op = "remove_update" THEN NoTask ELSE @]
  <2>1. PICK rest : Goto(r, d, rest) BY <1>12 DEF PullEntry
  <2>2. Carries(c, d) BY <1>1 DEF Call, Carries
  <2>3. d \in Call BY <1>1 DEF Call
  <2> HIDE DEF d
  <2>4. QED BY <1>2, <2>1, <2>2, <2>3
<1>13. CASE ChangeStatus(r) \/ TagTask(r) \/ CleanupTask(r) \/ DeleteDocument(r) \/ ToCreated(r)
  BY <1>3, <1>4, <1>13 DEF ChangeStatus, TagTask, CleanupTask, DeleteDocument, ToCreated
<1>14. CASE SetPublishing(r) \/ PublishModel(r) \/ SetPublished(r) \/ RollbackPublish(r)
  BY <1>3, <1>4, <1>6, <1>14 DEF SetPublishing, PublishModel, SetPublished, RollbackPublish
<1>15. CASE ReadPopped(r) \/ FixPopped(r) BY <1>0, <1>1, <1>2, <1>4, <1>15 DEF ReadPopped, FixPopped
<1>16. CASE MoveEntry(r) \/ EmptyQueue(r) \/ DropQueue(r)
  BY <1>4, <1>16 DEF MoveEntry, EmptyQueue, DropQueue
<1>17. CASE DetachRead(r)
  <2>1. PICK t \in c.work :
          LET rest == [c EXCEPT !.work = @ \ {t}] IN
          IF Visible(t) /\ tasks[t].queue = c.from
          THEN Goto(r, [rest EXCEPT !.task = t, !.expect = tasks[t].status,
                          !.new = RestoredStatus(tasks[t], NoStatus, NoStatus)], c.rest)
          ELSE DetachNext(r, rest)
    BY <1>17 DEF DetachRead
  <2> DEFINE d == [c EXCEPT !.work = @ \ {t}]
             f == [d EXCEPT !.task = t, !.expect = tasks[t].status,
                            !.new = RestoredStatus(tasks[t], NoStatus, NoStatus)]
  <2>2. d \in Call /\ Carries(c, d) BY <1>1 DEF Call, Carries
  <2>3. f \in Call /\ Carries(c, f)
    <3>1. t \in Tasks BY <1>1 DEF Call
    <3>2. tasks[t] \in TaskDoc /\ tasks[t].status \in Statuses BY <1>1, <3>1 DEF TypeOK, TaskDoc
    <3>3. RestoredStatus(tasks[t], NoStatus, NoStatus) \in Statuses BY <3>2, RestoredStatusType
    <3>0. Head(c.rest) = "detach" BY <1>17 DEF DetachRead, At
    <3>4. QED BY <1>1, <3>0, <3>1, <3>2, <3>3 DEF Call, Carries
  <2>4. Goto(r, f, c.rest) \/ DetachNext(r, d) BY <2>1
  <2> HIDE DEF d, f
  <2>5. QED BY <1>2, <1>7, <2>2, <2>3, <2>4
<1>18. CASE DetachWrite(r)
  <2> DEFINE d == [c EXCEPT !.task = NoTask]
  <2>1. DetachNext(r, d) BY <1>18 DEF DetachWrite
  <2>2. d \in Call /\ Carries(c, d) BY <1>1 DEF Call, Carries
  <2> HIDE DEF d
  <2>3. QED BY <1>7, <2>1, <2>2
<1>19. QED
  BY <1>8, <1>9, <1>10, <1>11, <1>12, <1>13, <1>14, <1>15, <1>16, <1>17, <1>18 DEF Step

\* What is done next about a task that is being put into a queue.
LEMMA NextOfEnqueue ==
  ASSUME NEW r \in Procs, Step(r),
         Head(call[r].rest) \in {"to_queued", "check", "push", "metrics", "set_queue", "pull_others", "revert"}
  PROVE  \/ Head(call[r].rest) = "to_queued" /\ ToQueued(r)
         \/ Head(call[r].rest) = "check" /\ CheckQueue(r)
         \/ Head(call[r].rest) = "push" /\ PushEntry(r)
         \/ Head(call[r].rest) = "metrics" /\ LogAdded(r)
         \/ Head(call[r].rest) = "set_queue" /\ SetExecutionQueue(r)
         \/ Head(call[r].rest) = "pull_others" /\ PullFromOthers(r)
         \/ Head(call[r].rest) = "revert" /\ Revert(r)
BY DEF At, Step, ToQueued, CheckQueue, PushEntry, LogAdded, Revert,
     SetExecutionQueue, PullFromOthers, FindEntry, PullEntry, LogRemoved, RestoreStatus,
     ChangeStatus, TagTask, CleanupTask, DeleteDocument, ToCreated, SetPublishing,
     PublishModel, SetPublished, RollbackPublish, ReadPopped, FixPopped, MoveEntry,
     DetachRead, DetachWrite, EmptyQueue, DropQueue

\* A handler of enqueue that goes on has the plan it had, or gives up.
LEMMA EnqueueSteps ==
  ASSUME Inv, NEW r \in Procs, Step(r), call[r].op \in Enqueuers, Queues # {call[r].to},
         EnqueuePlan(call[r])
  PROVE  EnqueuePlan(call'[r])
<1> DEFINE c == call[r]
<1>1. TypeOK /\ c \in Call BY CallFacts DEF Inv
<1>2. /\ c.rest \in ToPush \cup Pushed \cup {<<"revert">>}
      /\ c.rest \in ToPush => c.todo = Queues \ {c.to}
      /\ c.op \notin {"add", "move"}
  BY DEF EnqueuePlan
<1>3. Done(r) => EnqueuePlan(call'[r])
  <2>1. Idle \in Call BY IdleOK
  <2>2. QED BY <1>1, <2>1, GotoIs, NothingPlanned DEF Done
<1>4. AddFails(r) => EnqueuePlan(call'[r])
  <2> SUFFICES ASSUME AddFails(r) PROVE EnqueuePlan(call'[r]) OBVIOUS
  <2>1. Goto(r, c, <<"revert">>) BY DEF AddFails, Enqueuers
  <2>2. call'[r].rest = <<"revert">> /\ call'[r].op = c.op BY <1>1, <2>1, GotoIs, AtTheRevert
  <2>3. QED BY <1>2, <2>2, AtTheRevert DEF EnqueuePlan
<1>5. ASSUME Continue(r)
      PROVE  \/ call'[r] = Idle
             \/ /\ call'[r].rest = Tail(c.rest) /\ call'[r].op = c.op /\ call'[r].task = c.task
                /\ call'[r].to = c.to /\ call'[r].todo = c.todo
  BY <1>1, <1>5, GotoIs DEF Continue
<1>6. CASE c.rest \in ToPush
  <2>1. Continue(r) => EnqueuePlan(call'[r])
    <3> SUFFICES ASSUME Continue(r) PROVE EnqueuePlan(call'[r]) OBVIOUS
    <3>1. Tail(c.rest) \in ToPush \/ Tail(c.rest) \in Pushed BY <1>6, BeforeThePush
    <3>2. CASE call'[r] = Idle BY <3>2, NothingPlanned
    <3>3. CASE call'[r] # Idle
      <4>1. /\ call'[r].rest = Tail(c.rest) /\ call'[r].op = c.op
            /\ call'[r].to = c.to /\ call'[r].todo = c.todo
        BY <1>5, <3>3
      <4>2. QED BY <1>2, <1>6, <3>1, <4>1 DEF EnqueuePlan
    <3>4. QED BY <3>2, <3>3
  <2>2. Head(c.rest) \in {"to_queued", "check", "push"} BY <1>6, BeforeThePush
  <2>3. ToQueued(r) \/ CheckQueue(r) \/ PushEntry(r) BY <2>2, NextOfEnqueue
  <2>4. QED BY <1>3, <1>4, <2>1, <2>3 DEF ToQueued, CheckQueue, PushEntry
<1>7. CASE c.rest \in Pushed
  <2>1. Head(c.rest) \in {"metrics", "set_queue", "pull_others"} BY <1>7, AfterThePush
  <2>2. Tail(c.rest) = <<>> \/ Tail(c.rest) \in Pushed BY <1>7, AfterThePush
  <2>3. Continue(r) => EnqueuePlan(call'[r])
    <3> SUFFICES ASSUME Continue(r) PROVE EnqueuePlan(call'[r]) OBVIOUS
    <3>1. CASE call'[r] = Idle BY <3>1, NothingPlanned
    <3>2. CASE call'[r] # Idle
      <4>1. call'[r].rest = Tail(c.rest) /\ call'[r].op = c.op BY <1>5, <3>2
      <4>2. Tail(c.rest) # <<>> BY <1>1, <3>2 DEF Continue, Goto, TypeOK
      <4>3. Tail(c.rest) \in Pushed /\ Tail(c.rest) \notin ToPush BY <2>2, <4>2, AfterThePush
      <4>4. QED BY <1>2, <4>1, <4>3 DEF EnqueuePlan
    <3>3. QED BY <3>1, <3>2
  <2>4. CASE LogAdded(r) \/ SetExecutionQueue(r)
    BY <1>4, <2>3, <2>4 DEF LogAdded, SetExecutionQueue
  <2>5. CASE PullFromOthers(r)
    <3>1. PICK q \in c.todo : IF c.todo = {q} THEN Continue(r) ELSE call' = [call EXCEPT ![r].todo = @ \ {q}]
      BY <2>5 DEF PullFromOthers
    <3>2. CASE c.todo # {q}
      <4>1. call'[r].op = c.op /\ call'[r].rest = c.rest BY <1>1, <3>1, <3>2 DEF TypeOK, Call
      <4>2. c.rest \notin ToPush BY <1>7, AfterThePush
      <4>3. QED BY <1>2, <1>7, <4>1, <4>2 DEF EnqueuePlan
    <3>3. QED BY <2>3, <3>1, <3>2
  <2>6. QED BY <2>1, <2>4, <2>5, NextOfEnqueue
<1>8. CASE c.rest = <<"revert">>
  <2>1. Revert(r) BY <1>8, AtTheRevert, NextOfEnqueue
  <2>2. QED BY <1>3, <2>1 DEF Revert
<1>9. QED BY <1>2, <1>6, <1>7, <1>8

LEMMA PlansStay ==
  ASSUME OnlyEnqueuePushes, Inv, PlansOK, NEW r \in Procs, Request(r) \/ Step(r)
  PROVE  PlansOK'
<1>1. TypeOK BY DEF Inv
<1>2. \A p \in Procs \ {r} : call'[p] = call[p] BY OwnStep
<1>3. EnqueuePlan(call[r]) BY DEF PlansOK
<1>4. EnqueuePlan(call'[r])
  <2>1. CASE Request(r) BY <1>1, <2>1, OtherRequests, EnqueuePlans
  <2>2. CASE Step(r)
    <3>1. call[r].op \notin {"add", "move"} BY <1>3 DEF EnqueuePlan
    <3>2. CASE call[r].op \in Enqueuers /\ Queues # {call[r].to} BY <1>3, <2>2, <3>2, EnqueueSteps
    <3>3. CASE ~(call[r].op \in Enqueuers /\ Queues # {call[r].to})
      <4>1. Keeps(r) BY <2>2, <3>1, StepKeeps
      <4>2. QED BY <3>1, <3>3, <4>1, NothingPlanned DEF Keeps, Carries, EnqueuePlan
    <3>4. QED BY <3>2, <3>3
  <2>3. QED BY <2>1, <2>2
<1>5. QED BY <1>2, <1>4 DEF PlansOK

-----------------------------------------------------------------------------
(* Somebody will visit one of the two.                                     *)

\* remove_task_from_all_queues leaves nothing of the task in the queue it visits.
LEMMA PullTakesAll ==
  ASSUME NEW s \in Seq(Entry), Distinct(s), NEW t
  PROVE  ~HasTask(PullTask(s, t), t)
<1> DEFINE S == EntriesOf(s, t)
<1>1. \A i \in DOMAIN s : s[i] \in S <=> s[i].task = t BY DEF EntriesOf
<1> HIDE DEF S
<1>2. CASE \E i \in DOMAIN s : s[i] \in S
  <2> DEFINE i == CHOOSE j \in DOMAIN s : s[j] \in S
  <2>1. i \in DOMAIN s /\ s[i] \in S BY <1>2
  <2>2. PullOne(s, S) = RemoveAt(s, i) BY <1>2 DEF PullOne
  <2> HIDE DEF i
  <2>3. s[i].task = t BY <1>1, <2>1
  <2>4. \A j \in DOMAIN RemoveAt(s, i) : RemoveAt(s, i)[j].task # s[i].task BY <2>1, RemoveAtDistinct
  <2>5. QED BY <2>2, <2>3, <2>4 DEF HasTask, PullTask, S
<1>3. CASE ~ \E i \in DOMAIN s : s[i] \in S
  <2>1. PullOne(s, S) = s BY <1>3 DEF PullOne
  <2>2. ~HasTask(s, t) BY <1>1, <1>3 DEF HasTask
  <2>3. QED BY <2>1, <2>2 DEF PullTask, S
<1>4. QED BY <1>2, <1>3

\* A handler of enqueue that has just pushed will visit all the others.
LEMMA PushPromises ==
  ASSUME OnlyEnqueuePushes, Inv, PlansOK, NEW p \in Procs, PushEntry(p), MayPush(call[p].to, call[p].task),
         NEW q \in Queues \ {call[p].to}, call[p].to \in Queues
  PROVE  WillVisit(call'[p], call[p].task, call[p].to, q)
<1> DEFINE c == call[p]
<1>1. TypeOK /\ c \in Call /\ ProgramOK(c) BY CallFacts DEF Inv
<1>2. ~Avoids(c, "push") /\ Head(c.rest) = "push" BY HeadNotAvoided DEF PushEntry, At
<1>3. EnqueuePlan(c) BY DEF PlansOK
<1>4. c.op \in Enqueuers BY <1>1, <1>2, <1>3 DEF ProgramOK, Adders, EnqueuePlan, Enqueuers
<1>5. Queues # {c.to} OBVIOUS
<1>6. c.rest \in ToPush
  <2>1. c.rest \in ToPush \cup Pushed \cup {<<"revert">>} BY <1>3, <1>4, <1>5 DEF EnqueuePlan
  <2>2. c.rest \notin Pushed BY <1>2, AfterThePush
  <2>3. c.rest # <<"revert">> BY <1>2, AtTheRevert
  <2>4. QED BY <2>1, <2>2, <2>3
<1>7. c.todo = Queues \ {c.to} BY <1>3, <1>4, <1>5, <1>6 DEF EnqueuePlan
<1>8. Tail(c.rest) \in Pushed BY <1>2, <1>6, BeforeThePush
<1>9. Goto(p, c, Tail(c.rest)) BY DEF PushEntry, Continue
<1>10. Tail(c.rest) # <<>> BY <1>8, AfterThePush
<1>11. /\ call'[p].rest = Tail(c.rest) /\ call'[p].op = c.op /\ call'[p].task = c.task
       /\ call'[p].to = c.to /\ call'[p].todo = c.todo
  <2>1. call'[p] # Idle \/ Tail(c.rest) = <<>> \/ call'[p] = [c EXCEPT !.rest = Tail(c.rest)]
    BY <1>1, <1>9 DEF Goto, TypeOK
  <2>2. call'[p] = [c EXCEPT !.rest = Tail(c.rest)] BY <1>1, <1>9, <1>10 DEF Goto, TypeOK
  <2>3. QED BY <1>1, <2>2 DEF Call
<1>12. QED BY <1>4, <1>7, <1>8, <1>11 DEF WillVisit

\* A promise is kept: as long as both queues hold the task, the visit is still to come.
LEMMA PromiseStays ==
  ASSUME OnlyEnqueuePushes, Inv, NoDuplicateEntries, NEW p \in Procs, Step(p),
         NEW t \in Tasks, NEW q \in Queues, NEW r \in Queues,
         Holds(q, t), WillVisit(call[p], t, q, r), Holds(r, t)'
  PROVE  WillVisit(call'[p], t, q, r)
<1> DEFINE c == call[p]
<1>1. TypeOK /\ c \in Call BY CallFacts DEF Inv
<1>2. c.op \in Enqueuers /\ c.task = t /\ c.rest \in Pushed /\ c.to = q /\ r \in c.todo
  BY DEF WillVisit
<1>3. Head(c.rest) \in {"metrics", "set_queue", "pull_others"} BY <1>2, AfterThePush
<1>4. CASE Head(c.rest) # "pull_others"
  <2>1. LogAdded(p) \/ SetExecutionQueue(p) BY <1>3, <1>4, NextOfEnqueue
  <2>2. queues[c.to].exists /\ ~MetricsMayFail BY <1>2 DEF Holds, OnlyEnqueuePushes
  <2>3. Goto(p, c, Tail(c.rest)) BY <2>1, <2>2 DEF LogAdded, SetExecutionQueue, Continue
  <2>4. Tail(c.rest) \in Pushed /\ Tail(c.rest) # <<>> BY <1>2, <1>4, AfterThePush
  <2>5. call'[p] = [c EXCEPT !.rest = Tail(c.rest)] BY <1>1, <2>3, <2>4 DEF Goto, TypeOK
  <2>6. /\ call'[p].rest = Tail(c.rest) /\ call'[p].op = c.op /\ call'[p].task = c.task
        /\ call'[p].to = c.to /\ call'[p].todo = c.todo
    BY <1>1, <2>5 DEF Call
  <2>7. QED BY <1>2, <2>4, <2>6 DEF WillVisit
<1>5. CASE Head(c.rest) = "pull_others"
  <2>1. PullFromOthers(p) BY <1>5, NextOfEnqueue
  <2>2. PICK k \in c.todo :
          /\ queues' = [queues EXCEPT ![k].entries = PullTask(queues[k].entries, c.task)]
          /\ IF c.todo = {k} THEN Continue(p) ELSE call' = [call EXCEPT ![p].todo = @ \ {k}]
    BY <2>1 DEF PullFromOthers
  <2>3. k # r
    <3> SUFFICES ASSUME k = r PROVE FALSE OBVIOUS
    <3>1. queues'[r].entries = PullTask(queues[r].entries, t) BY <1>1, <1>2, <2>2 DEF TypeOK, QueueDoc
    <3>2. queues[r].entries \in Seq(Entry) BY <1>1 DEF TypeOK, QueueDoc
    <3>3. Distinct(queues[r].entries) BY DEF NoDuplicateEntries, Distinct
    <3>4. ~HasTask(queues'[r].entries, t) BY <3>1, <3>2, <3>3, PullTakesAll
    <3>5. QED BY <3>4 DEF Holds
  <2>4. c.todo # {k} BY <1>2, <2>3
  <2>5. call'[p] = [c EXCEPT !.todo = c.todo \ {k}] BY <1>1, <2>2, <2>4 DEF TypeOK
  <2>6. /\ call'[p].rest = c.rest /\ call'[p].op = c.op /\ call'[p].task = c.task
        /\ call'[p].to = c.to /\ call'[p].todo = c.todo \ {k}
    BY <1>1, <2>5 DEF Call
  <2>7. QED BY <1>2, <2>3, <2>6 DEF WillVisit
<1>6. QED BY <1>4, <1>5

LEMMA PlacesStay ==
  ASSUME OnlyEnqueuePushes, PlacesInv, NEW p \in Procs, Request(p) \/ Step(p),
         NEW t \in Tasks, NEW q \in Queues, NEW r \in Queues, q # r, Holds(q, t)', Holds(r, t)'
  PROVE  \E s \in Procs : WillVisit(call'[s], t, q, r) \/ WillVisit(call'[s], t, r, q)
<1>1. Inv /\ NoDuplicateEntries /\ PlansOK /\ Places BY DEF PlacesInv
<1>2. CASE ~Holds(q, t)
  <2>1. PushEntry(p) /\ q = call[p].to /\ t = call[p].task /\ MayPush(q, t) BY <1>1, <1>2, OnlyPushBrings
  <2>2. r \in Queues \ {q} OBVIOUS
  <2>3. WillVisit(call'[p], t, q, r) BY <1>1, <2>1, <2>2, PushPromises
  <2>4. QED BY <2>3
<1>3. CASE ~Holds(r, t)
  <2>1. PushEntry(p) /\ r = call[p].to /\ t = call[p].task /\ MayPush(r, t) BY <1>1, <1>3, OnlyPushBrings
  <2>2. q \in Queues \ {r} OBVIOUS
  <2>3. WillVisit(call'[p], t, r, q) BY <1>1, <2>1, <2>2, PushPromises
  <2>4. QED BY <2>3
<1>4. CASE Holds(q, t) /\ Holds(r, t)
  <2>1. PICK s \in Procs : WillVisit(call[s], t, q, r) \/ WillVisit(call[s], t, r, q)
    BY <1>1, <1>4 DEF Places
  <2>2. CASE s # p
    <3>1. call'[s] = call[s] BY <1>1, <2>2, OwnStep
    <3>2. QED BY <2>1, <3>1
  <2>3. CASE s = p
    <3>1. call[p].rest # <<>>
      <4>1. call[p].rest \in Pushed BY <2>1, <2>3 DEF WillVisit
      <4>2. QED BY <4>1, AfterThePush
    <3>2. ~Request(p)
      BY <3>1 DEF Request, Begin, Enqueue, DequeueTask, StopTask, SetStatusFromCall, ArchiveTask,
         UnarchiveTask, DeleteTask, ResetTask, PublishTask, GetNextTask, AddTaskToQueue,
         RemoveTaskFromQueue, MoveTaskToQueue, RepositionTask, ClearQueue, DeleteQueue
    <3>3. Step(p) BY <3>2
    <3>4. WillVisit(call'[p], t, q, r) \/ WillVisit(call'[p], t, r, q)
      BY <1>1, <1>4, <2>1, <2>3, <3>3, PromiseStays
    <3>5. QED BY <3>4
  <2>4. QED BY <2>2, <2>3
<1>5. QED BY <1>2, <1>3, <1>4

LEMMA PlacesInit == Init => PlansOK /\ Places
<1> SUFFICES ASSUME Init PROVE PlansOK /\ Places OBVIOUS
<1>1. PlansOK BY NothingPlanned DEF Init, PlansOK
<1>2. \A q \in Queues, t \in Tasks : ~Holds(q, t) BY DEF Init, Holds, HasTask
<1>3. QED BY <1>1, <1>2 DEF Places

LEMMA PlacesNext ==
  ASSUME OnlyEnqueuePushes, PlacesInv, [Next]_vars, Inv', NoDuplicateEntries'
  PROVE  PlacesInv'
<1>1. CASE UNCHANGED vars BY <1>1 DEF PlacesInv, vars, PlansOK, Places, Holds
<1>2. CASE Next
  <2>1. PICK p \in Procs : Request(p) \/ Step(p) BY <1>2 DEF Next
  <2>2. PlansOK' BY <2>1, PlansStay DEF PlacesInv
  <2>3. Places' BY <2>1, PlacesStay DEF Places
  <2>4. QED BY <2>2, <2>3 DEF PlacesInv
<1>3. QED BY <1>1, <1>2

\* Two queues that hold a task have a handler at work on it, so a task that nobody is at
\* work on is in one at most.
LEMMA OnePlace == Places => AtMostOneQueue
<1> SUFFICES ASSUME Places, NEW t \in Tasks, Quiet(t)
             PROVE  Cardinality({q \in Queues : Holds(q, t)}) <= 1
  BY DEF AtMostOneQueue
<1> DEFINE S == {q \in Queues : Holds(q, t)}
<1>1. \A q, r \in S : q = r
  <2> SUFFICES ASSUME NEW q \in S, NEW r \in S, q # r PROVE FALSE OBVIOUS
  <2>1. PICK p \in Procs : WillVisit(call[p], t, q, r) \/ WillVisit(call[p], t, r, q) BY DEF Places
  <2>2. call[p].task = t BY <2>1 DEF WillVisit
  <2>3. QED BY <2>2 DEF Quiet
<1> HIDE DEF S
<1>2. CASE S = {}
  <2>1. Cardinality(S) = 0 BY <1>2, FS_EmptySet
  <2>2. QED BY <2>1 DEF S
<1>3. CASE S # {}
  <2>1. PICK q : q \in S BY <1>3
  <2>2. S = {q} BY <1>1, <2>1
  <2>3. Cardinality(S) = 1 BY <2>2, FS_Singleton
  <2>4. QED BY <2>3 DEF S
<1>4. QED BY <1>2, <1>3

\* "make sure that the task is not queued in any other queue": when only enqueue puts
\* tasks into queues, any number of handlers, of clients and of agents leave a task in one
\* queue at most once they have ended, because each visits the other queues after its push.
THEOREM WaitsInOnePlace ==
  ASSUME OnlyEnqueuePushes
  PROVE  Spec => []AtMostOneQueue
<1>1. PlacesInv /\ [Next]_vars /\ Inv' /\ NoDuplicateEntries' => PlacesInv' BY PlacesNext
<1>2. Inv /\ NoDuplicateEntries /\ PlansOK /\ Places <=> PlacesInv BY DEF PlacesInv
<1>3. Spec => []Inv BY InitOK, NextOK, PTL DEF Spec
<1>4. Spec => [](PlansOK /\ Places)
  BY <1>1, <1>2, <1>3, NoDuplicates, PlacesInit, PTL DEF Spec
<1>5. QED BY <1>4, OnePlace, PTL
=============================================================================
