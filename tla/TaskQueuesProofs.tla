-------------------------- MODULE TaskQueuesProofs --------------------------
(***************************************************************************)
(* What holds of TaskQueues for any number of processes, tasks and queues. *)
(*                                                                         *)
(* The inductive invariant is Inv: the type invariant with ProgramsOK,     *)
(* which relates the calls a request has yet to make to what it remembers. *)
(* Each step of a process consumes the head of its program or replaces the *)
(* program by one of a few others, so the lemmas speak of programs first   *)
(* and of documents next, and the steps of the proof cite them.            *)
(***************************************************************************)
EXTENDS TaskQueues, SequenceTheorems, TLAPS

Inv == TypeOK /\ ProgramsOK

-----------------------------------------------------------------------------
(* Programs.                                                               *)

LEMMA TailInSeq ==
  ASSUME NEW S, NEW s \in Seq(S), s # <<>>
  PROVE  Head(s) \in S /\ Tail(s) \in Seq(S)
BY HeadTailProperties

LEMMA WhenInSeq ==
  ASSUME NEW S, NEW s \in Seq(S), NEW condition
  PROVE  When(condition, s) \in Seq(S)
BY DEF When

\* A program over an alphabet avoids every step outside it.
LEMMA AlphabetAvoids ==
  ASSUME NEW c, NEW S \in SUBSET Steps, c.rest \in Seq(S), NEW step, step \notin S
  PROVE  Avoids(c, step)
<1>1. S \subseteq Steps \ {step} OBVIOUS
<1>2. QED BY <1>1, SeqMonotonic DEF Avoids

\* A program of one step.
LEMMA OneStep ==
  ASSUME NEW x \in Steps
  PROVE  /\ <<x>> \in Seq(Steps)
         /\ \A step : step # x => <<x>> \in Seq(Steps \ {step})
OBVIOUS

\* The head of a program is not a step the program avoids.
LEMMA HeadNotAvoided ==
  ASSUME NEW c, NEW step, c.rest # <<>>, Head(c.rest) = step
  PROVE  ~Avoids(c, step)
<1>1. SUFFICES ASSUME Avoids(c, step) PROVE FALSE OBVIOUS
<1>2. Head(c.rest) \in Steps \ {step} BY <1>1, TailInSeq DEF Avoids
<1>3. QED BY <1>2

LEMMA IdleOK == Idle \in Call /\ ProgramOK(Idle)
<1>1. <<>> \in Seq(Steps) /\ \A step : <<>> \in Seq(Steps \ {step})
  BY EmptySeq
<1>2. Idle \in Call
  BY <1>1 DEF Idle, Call, Statuses, Moves, created, queued, in_progress
<1>3. ProgramOK(Idle)
  BY <1>1 DEF Idle, ProgramOK, Avoids, Adders
<1>4. QED BY <1>2, <1>3

\* What is left of a program after some of its steps is still well-formed.
LEMMA FewerStepsOK ==
  ASSUME NEW c \in Call, ProgramOK(c), NEW rest \in Seq(Steps),
         \A step : c.rest \in Seq(Steps \ {step}) => rest \in Seq(Steps \ {step})
  PROVE  [c EXCEPT !.rest = rest] \in Call /\ ProgramOK([c EXCEPT !.rest = rest])
<1> DEFINE d == [c EXCEPT !.rest = rest]
<1>1. d \in Call BY DEF Call
<1>2. /\ d.rest = rest /\ d.op = c.op /\ d.task = c.task /\ d.from = c.from
      /\ d.force = c.force /\ d.expect = c.expect /\ d.new = c.new
  BY DEF Call
<1>3. \A step : Avoids(c, step) => Avoids(d, step) BY <1>2 DEF Avoids
<1>4. \A new : Legal(d, new) <=> Legal(c, new) BY <1>2 DEF Legal
<1> HIDE DEF d
<1>5. ProgramOK(d) BY <1>2, <1>3, <1>4 DEF ProgramOK
<1>6. QED BY <1>1, <1>5 DEF d

LEMMA TailOK ==
  ASSUME NEW c \in Call, ProgramOK(c), c.rest # <<>>
  PROVE  /\ Tail(c.rest) \in Seq(Steps)
         /\ ProgramOK([c EXCEPT !.rest = Tail(c.rest)])
<1>1. c.rest \in Seq(Steps) BY DEF Call
<1>2. Tail(c.rest) \in Seq(Steps) BY <1>1, TailInSeq
<1>3. \A step : c.rest \in Seq(Steps \ {step}) => Tail(c.rest) \in Seq(Steps \ {step})
  BY TailInSeq
<1>4. QED BY <1>2, <1>3, FewerStepsOK

-----------------------------------------------------------------------------
(* The control of a process.                                               *)

LEMMA BeginOK ==
  ASSUME Inv, NEW p \in Procs, NEW op, NEW c \in Call, ProgramOK(c), Begin(p, op, c)
  PROVE  call' \in [Procs -> Call] /\ ProgramsOK'
<1>1. call' = [call EXCEPT ![p] = c] BY DEF Begin
<1>2. call \in [Procs -> Call] BY DEF Inv, TypeOK
<1>3. \A r \in Procs : call'[r] = IF r = p THEN c ELSE call[r] BY <1>1, <1>2
<1>4. \A r \in Procs : ProgramOK(call[r]) BY DEF Inv, ProgramsOK
<1>5. \A r \in Procs : ProgramOK(call'[r]) BY <1>3, <1>4
<1>6. QED BY <1>1, <1>2, <1>5 DEF ProgramsOK, ProgramOK, Avoids, Legal

LEMMA GotoOK ==
  ASSUME Inv, NEW p \in Procs, NEW c \in Call, NEW rest \in Seq(Steps),
         rest # <<>> => ProgramOK([c EXCEPT !.rest = rest]), Goto(p, c, rest)
  PROVE  call' \in [Procs -> Call] /\ ProgramsOK'
<1> DEFINE d == IF rest = <<>> THEN Idle ELSE [c EXCEPT !.rest = rest]
<1>1. d \in Call /\ ProgramOK(d) BY IdleOK DEF Call
<1>2. call' = [call EXCEPT ![p] = d] BY DEF Goto
<1> HIDE DEF d
<1>3. call \in [Procs -> Call] BY DEF Inv, TypeOK
<1>4. \A r \in Procs : call'[r] = IF r = p THEN d ELSE call[r] BY <1>2, <1>3
<1>5. \A r \in Procs : ProgramOK(call[r]) BY DEF Inv, ProgramsOK
<1>6. \A r \in Procs : ProgramOK(call'[r]) BY <1>1, <1>4, <1>5
<1>7. QED BY <1>1, <1>2, <1>3, <1>6 DEF ProgramsOK, ProgramOK, Avoids, Legal

LEMMA ContinueOK ==
  ASSUME Inv, NEW p \in Procs, call[p].rest # <<>>, Continue(p)
  PROVE  call' \in [Procs -> Call] /\ ProgramsOK'
<1>1. call[p] \in Call /\ ProgramOK(call[p]) BY DEF Inv, TypeOK, ProgramsOK
<1>2. QED BY <1>1, TailOK, GotoOK DEF Continue

LEMMA DoneOK ==
  ASSUME Inv, NEW p \in Procs, Done(p)
  PROVE  call' \in [Procs -> Call] /\ ProgramsOK'
<1>1. <<>> \in Seq(Steps) BY EmptySeq
<1>2. QED BY <1>1, IdleOK, GotoOK DEF Done

-----------------------------------------------------------------------------
(* The programs that requests compose.                                     *)

\* What dequeuing needs of the document: nothing is searched in no queue.
LEMMA DequeuePrograms ==
  ASSUME NEW task \in TaskDoc, NEW all \in BOOLEAN
  PROVE  /\ Dequeue(task) \in Seq({"find", "pull", "reload"})
         /\ DequeueAndChangeStatus(task, all)
              \in Seq({"find", "pull", "reload", "pull_others", "restore"})
         /\ task.queue \notin Queues =>
              /\ Dequeue(task) = <<>>
              /\ DequeueAndChangeStatus(task, all) \in Seq({"pull_others", "restore"})
<1> DEFINE S == {"find", "pull", "reload"}
           T == {"find", "pull", "reload", "pull_others", "restore"}
           U == {"pull_others", "restore"}
<1>1. RemoveTask \in Seq(S) BY DEF RemoveTask
<1>2. Dequeue(task) \in Seq(S) BY <1>1, WhenInSeq DEF Dequeue
<1>3. <<"pull_others">> \in Seq(U) /\ <<"restore">> \in Seq(U) OBVIOUS
<1>4. /\ When(all, <<"pull_others">>) \in Seq(U)
      /\ When(task.status \in RunningStatuses, <<"restore">>) \in Seq(U)
  BY <1>3, WhenInSeq
<1>5. S \subseteq T /\ U \subseteq T OBVIOUS
<1>6. /\ Dequeue(task) \in Seq(T)
      /\ When(all, <<"pull_others">>) \in Seq(T)
      /\ When(task.status \in RunningStatuses, <<"restore">>) \in Seq(T)
  BY <1>2, <1>4, <1>5, SeqMonotonic
<1>7. DequeueAndChangeStatus(task, all) \in Seq(T)
  BY <1>6, ConcatProperties DEF DequeueAndChangeStatus
<1>8. ASSUME task.queue \notin Queues
      PROVE  Dequeue(task) = <<>> /\ DequeueAndChangeStatus(task, all) \in Seq(U)
  <2>1. task.queue = NoQueue BY <1>8 DEF TaskDoc
  <2>2. Dequeue(task) = <<>> BY <2>1 DEF Dequeue, When
  <2>3. Dequeue(task) \in Seq(U) BY <2>2, EmptySeq
  <2>4. QED BY <2>2, <2>3, <1>4, ConcatProperties DEF DequeueAndChangeStatus
<1>9. QED BY <1>2, <1>7, <1>8

LEMMA EnqueueProgramType ==
  ASSUME NEW op, NEW others
  PROVE  EnqueueProgram(op, others)
           \in Seq({"to_queued", "check", "push", "metrics", "set_queue", "pull_others"})
<1> DEFINE S == {"to_queued", "check", "push", "metrics", "set_queue", "pull_others"}
<1>1. /\ <<"to_queued">> \in Seq(S) /\ AddTask \in Seq(S)
      /\ <<"set_queue">> \in Seq(S) /\ <<"pull_others">> \in Seq(S)
  BY DEF AddTask
<1>2. /\ When(op = "enqueue", <<"set_queue">>) \in Seq(S)
      /\ When(others # {}, <<"pull_others">>) \in Seq(S)
  BY <1>1, WhenInSeq
<1>3. QED BY <1>1, <1>2, ConcatProperties DEF EnqueueProgram

LEMMA RestoredStatusType ==
  ASSUME NEW task \in TaskDoc, NEW asked \in Statuses \cup {NoStatus},
         NEW aborted \in Statuses \cup {NoStatus}
  PROVE  RestoredStatus(task, asked, aborted) \in Statuses
<1>1. created \in Statuses BY DEF Statuses
<1>2. QED BY <1>1 DEF RestoredStatus, TaskDoc

-----------------------------------------------------------------------------
(* Documents.                                                              *)

LEMMA ExecuteType ==
  ASSUME TypeOK, NEW t, NEW current, NEW doc, t \in Tasks => doc \in TaskDoc,
         Execute(t, current, doc)
  PROVE  tasks' \in [Tasks -> TaskDoc]
BY DEF TypeOK, Execute

LEMMA UpdateByIdType ==
  ASSUME TypeOK, NEW t, NEW doc, t \in Tasks => doc \in TaskDoc, UpdateById(t, doc)
  PROVE  tasks' \in [Tasks -> TaskDoc]
BY DEF TypeOK, UpdateById

LEMMA NewTaskType ==
  ASSUME NEW status \in Statuses
  PROVE  NewTask(status) \in TaskDoc /\ DeletedTask \in TaskDoc
<1>1. created \in Statuses BY DEF Statuses
<1>2. \A s \in Statuses : NewTask(s) \in TaskDoc BY DEF NewTask, TaskDoc
<1>3. NewTask(created) \in TaskDoc BY <1>1, <1>2
<1>4. DeletedTask \in TaskDoc BY <1>3 DEF DeletedTask, TaskDoc
<1>5. QED BY <1>2, <1>4

LEMMA SaveType ==
  ASSUME TypeOK, NEW t, NEW status \in Statuses, Save(t, status)
  PROVE  tasks' \in [Tasks -> TaskDoc]
<1>1. [NewTask(status) EXCEPT !.doc = "partial"] \in TaskDoc
  BY NewTaskType DEF TaskDoc
<1>2. t \in Tasks => [tasks[t] EXCEPT !.status = status] \in TaskDoc
  BY DEF TypeOK, TaskDoc
<1>3. QED BY <1>1, <1>2 DEF TypeOK, Save

LEMMA EntriesOfType ==
  ASSUME NEW entries \in Seq(Entry), NEW t
  PROVE  EntriesOf(entries, t) \subseteq Entry
BY DEF EntriesOf

LEMMA RemoveAtProperties ==
  ASSUME NEW S, NEW s \in Seq(S), NEW i \in DOMAIN s
  PROVE  /\ RemoveAt(s, i) \in Seq(S)
         /\ Len(RemoveAt(s, i)) = Len(s) - 1
         /\ \A k \in 1..(Len(s) - 1) :
              RemoveAt(s, i)[k] = IF k < i THEN s[k] ELSE s[k + 1]
<1> DEFINE a == SubSeq(s, 1, i - 1)
           b == SubSeq(s, i + 1, Len(s))
<1>1. i \in 1..Len(s) BY LenProperties
<1>2. \A k \in 1..Len(s) : s[k] \in S BY ElementOfSeq
<1>3. /\ a \in Seq(S) /\ Len(a) = i - 1
      /\ \A k \in 1..(i - 1) : a[k] = s[k]
  BY <1>1, <1>2, SubSeqProperties
<1>4. /\ b \in Seq(S) /\ Len(b) = Len(s) - i
      /\ \A k \in 1..(Len(s) - i) : b[k] = s[i + k]
  BY <1>1, <1>2, SubSeqProperties
<1> HIDE DEF a, b
<1>5. /\ a \o b \in Seq(S) /\ Len(a \o b) = Len(a) + Len(b)
      /\ \A k \in 1..(Len(a) + Len(b)) :
           (a \o b)[k] = IF k <= Len(a) THEN a[k] ELSE b[k - Len(a)]
  BY <1>3, <1>4, ConcatProperties
<1>6. ASSUME NEW k \in 1..(Len(s) - 1)
      PROVE  (a \o b)[k] = IF k < i THEN s[k] ELSE s[k + 1]
  <2>1. Len(s) \in Nat /\ i \in Int /\ k \in Int BY <1>1
  <2>2. k \in 1..(Len(a) + Len(b)) BY <1>3, <1>4, <2>1
  <2>3. CASE k < i BY <2>1, <2>2, <2>3, <1>3, <1>5
  <2>4. CASE ~(k < i)
    <3>1. k - (i - 1) \in 1..(Len(s) - i) BY <1>1, <2>1, <2>4
    <3>2. b[k - (i - 1)] = s[i + (k - (i - 1))] BY <3>1, <1>4
    <3>3. i + (k - (i - 1)) = k + 1 BY <2>1
    <3>4. QED BY <2>1, <2>2, <2>4, <3>2, <3>3, <1>3, <1>5
  <2>5. QED BY <2>3, <2>4
<1>7. RemoveAt(s, i) = a \o b BY DEF RemoveAt, a, b
<1>8. Len(a) + Len(b) = Len(s) - 1 BY <1>1, <1>3, <1>4
<1>9. QED BY <1>5, <1>6, <1>7, <1>8

-----------------------------------------------------------------------------
(* The first step of a request.                                            *)

LEMMA OnlyCallChanges ==
  ASSUME Inv, UNCHANGED <<tasks, queues>>, call' \in [Procs -> Call], ProgramsOK'
  PROVE  Inv'
BY DEF Inv, TypeOK

\* A request whose program has no checked transition and pushes nothing.
LEMMA PlainProgramOK ==
  ASSUME NEW c \in Call, NEW S, c.rest \in Seq(S),
         S \subseteq Steps \ {"push", "to_queued", "change", "to_created"},
         c.op \notin Adders,
         c.from \notin Queues => Avoids(c, "find")
  PROVE  ProgramOK(c)
<1>1. /\ Avoids(c, "push") /\ Avoids(c, "to_queued") /\ Avoids(c, "change")
      /\ Avoids(c, "to_created")
  BY AlphabetAvoids
<1>2. QED BY <1>1 DEF ProgramOK

LEMMA EnqueueOK ==
  ASSUME Inv, NEW p \in Procs, Enqueue(p)
  PROVE  Inv'
<1> DEFINE S == {"to_queued", "check", "push", "metrics", "set_queue", "pull_others"}
           c(t, q, force, op) ==
             [Idle EXCEPT !.op = op, !.task = t, !.to = q, !.force = force,
                !.expect = tasks[t].status, !.new = queued,
                !.enqueue_status = BeforeEnqueue(tasks[t]), !.todo = Queues \ {q},
                !.rest = EnqueueProgram(op, Queues \ {q})]
<1>1. PICK t \in Tasks, q \in Queues, force \in ForceFlags, op \in {"enqueue", "enqueue_keep"} :
        /\ ValidTransition(force, tasks[t].status, queued)
        /\ Begin(p, op, c(t, q, force, op))
  BY DEF Enqueue
<1> DEFINE d == c(t, q, force, op)
<1>2. tasks[t] \in TaskDoc BY DEF Inv, TypeOK
<1>3. /\ tasks[t].status \in Statuses /\ queued \in Statuses
      /\ BeforeEnqueue(tasks[t]) \in Statuses
      /\ force \in BOOLEAN
  BY <1>2, ConstantsAssumption DEF TaskDoc, BeforeEnqueue, Statuses
<1>4. EnqueueProgram(op, Queues \ {q}) \in Seq(S) BY EnqueueProgramType
<1>5. S \subseteq Steps BY DEF Steps
<1>6. EnqueueProgram(op, Queues \ {q}) \in Seq(Steps) BY <1>4, <1>5, SeqMonotonic
<1>7. d \in Call BY <1>3, <1>6, IdleOK DEF Call, OpNames
<1>8. /\ d.op = op /\ d.task = t /\ d.force = force /\ d.expect = tasks[t].status
      /\ d.rest = EnqueueProgram(op, Queues \ {q})
  BY DEF Idle
<1> HIDE DEF d
<1>9. \A step : step \notin S => Avoids(d, step) BY <1>4, <1>5, <1>8, AlphabetAvoids
<1>10. Legal(d, queued) BY <1>1, <1>8 DEF Legal
<1>11. ProgramOK(d) BY <1>8, <1>9, <1>10 DEF ProgramOK, Adders
<1>12. QED BY <1>1, <1>7, <1>11, BeginOK, OnlyCallChanges DEF d, Enqueue

LEMMA DequeueTaskOK ==
  ASSUME Inv, NEW p \in Procs, DequeueTask(p)
  PROVE  Inv'
<1> DEFINE S == {"find", "pull", "reload", "pull_others", "restore"}
           base(t, op) == [Idle EXCEPT !.op = op, !.task = t, !.todo = Queues]
           absent(t, op) == [base(t, op) EXCEPT !.rest = <<"pull_others">>]
           c(t, op, asked) ==
             [base(t, op) EXCEPT !.from = tasks[t].queue, !.expect = tasks[t].status,
                !.new = RestoredStatus(tasks[t], asked, NoStatus), !.force = TRUE,
                !.rest = DequeueAndChangeStatus(tasks[t], op = "dequeue_all")]
<1>1. PICK t \in Tasks, op \in {"dequeue", "dequeue_all"}, asked \in AskedStatuses :
        Begin(p, op, absent(t, op)) \/ Begin(p, op, c(t, op, asked))
  BY DEF DequeueTask
<1>2. S \subseteq Steps BY DEF Steps
<1>3. base(t, op) \in Call BY IdleOK DEF Call, OpNames
<1>4. CASE Begin(p, op, absent(t, op))
  <2> DEFINE d == absent(t, op)
  <2>1. <<"pull_others">> \in Seq(S) /\ "pull_others" \in Steps BY DEF Steps
  <2>2. <<"pull_others">> \in Seq(Steps) BY <2>1, OneStep
  <2>3. d \in Call BY <1>3, <2>2 DEF Call
  <2>4. d.rest = <<"pull_others">> /\ d.op = op BY DEF Idle
  <2> HIDE DEF d
  <2>5. \A step : step # "pull_others" => Avoids(d, step) BY <2>1, <2>4, OneStep DEF Avoids
  <2>6. ProgramOK(d) BY <2>4, <2>5 DEF ProgramOK, Adders
  <2>7. QED BY <1>4, <2>3, <2>6, BeginOK, OnlyCallChanges DEF d, DequeueTask
<1>5. CASE Begin(p, op, c(t, op, asked))
  <2> DEFINE d == c(t, op, asked)
             program == DequeueAndChangeStatus(tasks[t], op = "dequeue_all")
  <2>1. tasks[t] \in TaskDoc BY DEF Inv, TypeOK
  <2>2. RestoredStatus(tasks[t], asked, NoStatus) \in Statuses
    BY <2>1, RestoredStatusType DEF AskedStatuses, Statuses
  <2>3. /\ program \in Seq(S)
        /\ tasks[t].queue \notin Queues => program \in Seq({"pull_others", "restore"})
    BY <2>1, DequeuePrograms
  <2>4. program \in Seq(Steps) BY <1>2, <2>3, SeqMonotonic
  <2> HIDE DEF program
  <2>5. d \in Call BY <1>3, <2>1, <2>2, <2>4 DEF Call, TaskDoc, program
  <2>6. d.rest = program /\ d.op = op /\ d.from = tasks[t].queue BY DEF Idle, program
  <2> HIDE DEF d
  <2>7. d.from \notin Queues => Avoids(d, "find")
    BY <1>2, <2>3, <2>6, AlphabetAvoids
  <2>8. ProgramOK(d) BY <1>2, <2>3, <2>5, <2>6, <2>7, PlainProgramOK DEF Adders
  <2>9. QED BY <1>5, <2>5, <2>8, BeginOK, OnlyCallChanges DEF d, program, DequeueTask
<1>6. QED BY <1>1, <1>4, <1>5

LEMMA StopTaskOK ==
  ASSUME Inv, NEW p \in Procs, StopTask(p)
  PROVE  Inv'
<1> DEFINE S == {"find", "pull", "reload", "change"}
           c(t, force) ==
             [Idle EXCEPT !.op = "stop", !.task = t, !.from = tasks[t].queue,
                !.expect = tasks[t].status, !.new = stopped, !.force = force,
                !.rest = Dequeue(tasks[t]) \o <<"change">>]
<1>1. PICK t \in Tasks, force \in ForceFlags :
        /\ ValidTransition(force, tasks[t].status, stopped)
        /\ Begin(p, "stop", c(t, force))
  BY DEF StopTask
<1> DEFINE d == c(t, force)
           program == Dequeue(tasks[t]) \o <<"change">>
<1>2. tasks[t] \in TaskDoc /\ force \in BOOLEAN
  BY ConstantsAssumption DEF Inv, TypeOK
<1>3. S \subseteq Steps /\ {"change"} \subseteq Steps BY DEF Steps
<1>4. program \in Seq(S)
  <2>1. Dequeue(tasks[t]) \in Seq({"find", "pull", "reload"}) BY <1>2, DequeuePrograms
  <2>2. Dequeue(tasks[t]) \in Seq(S) BY <2>1, SeqMonotonic
  <2>3. QED BY <2>2, ConcatProperties
<1>5. tasks[t].queue \notin Queues => program \in Seq({"change"})
  <2>1. tasks[t].queue \notin Queues => Dequeue(tasks[t]) \in Seq({"change"})
    BY <1>2, DequeuePrograms, EmptySeq
  <2>2. QED BY <2>1, ConcatProperties
<1>6. program \in Seq(Steps) BY <1>3, <1>4, SeqMonotonic
<1> HIDE DEF program
<1>7. d \in Call BY <1>2, <1>6, IdleOK DEF Call, OpNames, TaskDoc, Statuses, program
<1>8. /\ d.rest = program /\ d.op = "stop" /\ d.from = tasks[t].queue
      /\ d.expect = tasks[t].status /\ d.new = stopped /\ d.force = force
  BY DEF Idle, program
<1> HIDE DEF d
<1>9. \A step : step \notin S => Avoids(d, step) BY <1>3, <1>4, <1>8, AlphabetAvoids
<1>10. d.from \notin Queues => Avoids(d, "find") BY <1>3, <1>5, <1>8, AlphabetAvoids
<1>11. Legal(d, d.new) BY <1>1, <1>8 DEF Legal
<1>12. ProgramOK(d) BY <1>8, <1>9, <1>10, <1>11 DEF ProgramOK, Adders
<1>13. QED BY <1>1, <1>7, <1>12, BeginOK, OnlyCallChanges DEF d, program, StopTask

LEMMA SetStatusFromCallOK ==
  ASSUME Inv, NEW p \in Procs, SetStatusFromCall(p)
  PROVE  Inv'
<1> DEFINE c(t, force, new) ==
             [Idle EXCEPT !.op = "change", !.task = t, !.force = force,
                !.expect = tasks[t].status, !.new = new, !.rest = <<"change">>]
           N == {in_progress, stopped, failed, closed, completed}
<1>1. PICK t \in Tasks, force \in ForceFlags, new \in N :
        /\ ValidTransition(force, tasks[t].status, new)
        /\ Begin(p, "change", c(t, force, new))
  BY DEF SetStatusFromCall
<1> DEFINE d == c(t, force, new)
<1>2. tasks[t] \in TaskDoc /\ force \in BOOLEAN /\ new \in Statuses
  BY ConstantsAssumption DEF Inv, TypeOK, Statuses
<1>3. "change" \in Steps BY DEF Steps
<1>4. <<"change">> \in Seq(Steps) BY <1>3, OneStep
<1>5. d \in Call BY <1>2, <1>4, IdleOK DEF Call, OpNames, TaskDoc
<1>6. /\ d.rest = <<"change">> /\ d.op = "change" /\ d.force = force
      /\ d.expect = tasks[t].status /\ d.new = new
  BY DEF Idle
<1> HIDE DEF d
<1>7. \A step : step # "change" => Avoids(d, step) BY <1>3, <1>6, OneStep DEF Avoids
<1>8. Legal(d, d.new) BY <1>1, <1>6 DEF Legal
<1>9. ProgramOK(d) BY <1>6, <1>7, <1>8 DEF ProgramOK, Adders
<1>10. QED BY <1>1, <1>5, <1>9, BeginOK, OnlyCallChanges DEF d, SetStatusFromCall

LEMMA ArchiveTaskOK ==
  ASSUME Inv, NEW p \in Procs, ArchiveTask(p)
  PROVE  Inv'
<1> DEFINE S == {"find", "pull", "reload", "pull_others", "restore", "tag"}
           U == {"pull_others", "restore", "tag"}
           program(t) == DequeueAndChangeStatus(tasks[t], TRUE) \o <<"tag">>
           c(t) ==
             [Idle EXCEPT !.op = "archive", !.task = t, !.from = tasks[t].queue,
                !.expect = tasks[t].status,
                !.new = RestoredStatus(tasks[t], NoStatus, stopped),
                !.force = TRUE, !.todo = Queues, !.rest = program(t)]
<1>1. PICK t \in Tasks : Begin(p, "archive", c(t)) BY DEF ArchiveTask
<1> DEFINE d == c(t)
<1>2. tasks[t] \in TaskDoc BY DEF Inv, TypeOK
<1>3. RestoredStatus(tasks[t], NoStatus, stopped) \in Statuses
  BY <1>2, RestoredStatusType DEF Statuses
<1>4. S \subseteq Steps BY DEF Steps
<1>5. /\ program(t) \in Seq(S)
      /\ tasks[t].queue \notin Queues => program(t) \in Seq(U)
  <2> DEFINE s == DequeueAndChangeStatus(tasks[t], TRUE)
  <2>1. /\ s \in Seq({"find", "pull", "reload", "pull_others", "restore"})
        /\ tasks[t].queue \notin Queues => s \in Seq({"pull_others", "restore"})
    BY <1>2, DequeuePrograms
  <2> HIDE DEF s
  <2>2. s \in Seq(S) /\ (tasks[t].queue \notin Queues => s \in Seq(U))
    BY <2>1, SeqMonotonic
  <2>3. <<"tag">> \in Seq(S) /\ <<"tag">> \in Seq(U) OBVIOUS
  <2>4. s \o <<"tag">> \in Seq(S) BY <2>2, <2>3, ConcatProperties
  <2>5. tasks[t].queue \notin Queues => s \o <<"tag">> \in Seq(U)
    BY <2>2, <2>3, ConcatProperties
  <2>6. QED BY <2>4, <2>5 DEF s
<1> HIDE DEF program
<1>6. program(t) \in Seq(Steps) BY <1>4, <1>5, SeqMonotonic
<1>7. d \in Call BY <1>2, <1>3, <1>6, IdleOK DEF Call, OpNames, TaskDoc
<1>8. d.rest = program(t) /\ d.op = "archive" /\ d.from = tasks[t].queue BY DEF Idle
<1> HIDE DEF d
<1>9. d.from \notin Queues => Avoids(d, "find") BY <1>4, <1>5, <1>8, AlphabetAvoids
<1>10. ProgramOK(d) BY <1>4, <1>5, <1>7, <1>8, <1>9, PlainProgramOK DEF Adders
<1>11. QED BY <1>1, <1>7, <1>10, BeginOK, OnlyCallChanges DEF d, program, ArchiveTask

LEMMA UnarchiveTaskOK ==
  ASSUME Inv, NEW p \in Procs, UnarchiveTask(p)
  PROVE  Inv'
<1> DEFINE c(t) == [Idle EXCEPT !.op = "unarchive", !.task = t, !.rest = <<"tag">>]
<1>1. PICK t \in Tasks : Begin(p, "unarchive", c(t)) BY DEF UnarchiveTask
<1> DEFINE d == c(t)
<1>2. "tag" \in Steps BY DEF Steps
<1>3. <<"tag">> \in Seq(Steps) BY <1>2, OneStep
<1>4. d \in Call BY <1>3, IdleOK DEF Call, OpNames
<1>5. d.rest = <<"tag">> /\ d.op = "unarchive" BY DEF Idle
<1> HIDE DEF d
<1>6. \A step : step # "tag" => Avoids(d, step) BY <1>2, <1>5, OneStep DEF Avoids
<1>7. ProgramOK(d) BY <1>5, <1>6 DEF ProgramOK, Adders
<1>8. QED BY <1>1, <1>4, <1>7, BeginOK, OnlyCallChanges DEF d, UnarchiveTask

LEMMA DeleteTaskOK ==
  ASSUME Inv, NEW p \in Procs, DeleteTask(p)
  PROVE  Inv'
<1> DEFINE S == {"find", "pull", "reload", "pull_others", "restore", "cleanup", "delete_doc"}
           U == {"pull_others", "restore", "cleanup", "delete_doc"}
           program(t) == DequeueAndChangeStatus(tasks[t], TRUE) \o <<"cleanup", "delete_doc">>
           c(t, force) ==
             [Idle EXCEPT !.op = "delete", !.task = t, !.from = tasks[t].queue,
                !.expect = tasks[t].status,
                !.new = RestoredStatus(tasks[t], NoStatus, NoStatus),
                !.force = force, !.todo = Queues, !.rest = program(t)]
<1>1. PICK t \in Tasks, force \in ForceFlags : Begin(p, "delete", c(t, force))
  BY DEF DeleteTask
<1> DEFINE d == c(t, force)
<1>2. tasks[t] \in TaskDoc /\ force \in BOOLEAN
  BY ConstantsAssumption DEF Inv, TypeOK
<1>3. RestoredStatus(tasks[t], NoStatus, NoStatus) \in Statuses
  BY <1>2, RestoredStatusType
<1>4. S \subseteq Steps BY DEF Steps
<1>5. /\ program(t) \in Seq(S)
      /\ tasks[t].queue \notin Queues => program(t) \in Seq(U)
  <2> DEFINE s == DequeueAndChangeStatus(tasks[t], TRUE)
             r == <<"cleanup", "delete_doc">>
  <2>1. /\ s \in Seq({"find", "pull", "reload", "pull_others", "restore"})
        /\ tasks[t].queue \notin Queues => s \in Seq({"pull_others", "restore"})
    BY <1>2, DequeuePrograms
  <2> HIDE DEF s
  <2>2. s \in Seq(S) /\ (tasks[t].queue \notin Queues => s \in Seq(U))
    BY <2>1, SeqMonotonic
  <2>3. r \in Seq(S) /\ r \in Seq(U) OBVIOUS
  <2> HIDE DEF r
  <2>4. s \o r \in Seq(S) BY <2>2, <2>3, ConcatProperties
  <2>5. tasks[t].queue \notin Queues => s \o r \in Seq(U)
    BY <2>2, <2>3, ConcatProperties
  <2>6. QED BY <2>4, <2>5 DEF s, r
<1> HIDE DEF program
<1>6. program(t) \in Seq(Steps) BY <1>4, <1>5, SeqMonotonic
<1>7. d \in Call BY <1>2, <1>3, <1>6, IdleOK DEF Call, OpNames, TaskDoc
<1>8. d.rest = program(t) /\ d.op = "delete" /\ d.from = tasks[t].queue BY DEF Idle
<1> HIDE DEF d
<1>9. d.from \notin Queues => Avoids(d, "find") BY <1>4, <1>5, <1>8, AlphabetAvoids
<1>10. ProgramOK(d) BY <1>4, <1>5, <1>7, <1>8, <1>9, PlainProgramOK DEF Adders
<1>11. QED BY <1>1, <1>7, <1>10, BeginOK, OnlyCallChanges DEF d, program, DeleteTask

LEMMA ResetTaskOK ==
  ASSUME Inv, NEW p \in Procs, ResetTask(p)
  PROVE  Inv'
<1> DEFINE R == {"find", "pull", "reload", "pull_others", "cleanup"}
           S == R \cup {"to_created"}
           U == {"pull_others", "cleanup"}
           legal(t, force) == ValidTransition(force, tasks[t].status, created)
           program(t, force) ==
             Dequeue(tasks[t]) \o <<"pull_others", "cleanup">>
             \o When(legal(t, force), <<"to_created">>)
           c(t, force) ==
             [Idle EXCEPT !.op = "reset", !.task = t, !.from = tasks[t].queue,
                !.expect = tasks[t].status, !.new = created, !.force = force,
                !.todo = Queues, !.rest = program(t, force)]
<1>1. PICK t \in Tasks, force \in ForceFlags : Begin(p, "reset", c(t, force))
  BY DEF ResetTask
<1> DEFINE d == c(t, force)
<1>2. tasks[t] \in TaskDoc /\ force \in BOOLEAN
  BY ConstantsAssumption DEF Inv, TypeOK
<1>3. S \subseteq Steps BY DEF Steps
<1>4. /\ program(t, force) \in Seq(S)
      /\ ~legal(t, force) => program(t, force) \in Seq(R)
      /\ tasks[t].queue \notin Queues => program(t, force) \in Seq(U \cup {"to_created"})
  <2> DEFINE s == Dequeue(tasks[t])
             r == <<"pull_others", "cleanup">>
             w == When(legal(t, force), <<"to_created">>)
             V == U \cup {"to_created"}
  <2>1. /\ s \in Seq({"find", "pull", "reload"})
        /\ tasks[t].queue \notin Queues => s = <<>>
    BY <1>2, DequeuePrograms
  <2>2. <<"to_created">> \in Seq(S) /\ <<"to_created">> \in Seq(V) OBVIOUS
  <2>3. /\ w \in Seq(S) /\ w \in Seq(V)
        /\ ~legal(t, force) => w = <<>>
    BY <2>2, WhenInSeq DEF When
  <2>4. r \in Seq(S) /\ r \in Seq(R) /\ r \in Seq(V) OBVIOUS
  <2> HIDE DEF s, r, w, legal
  <2>5. s \in Seq(S) /\ s \in Seq(R) BY <2>1, SeqMonotonic
  <2>6. s \o r \in Seq(S) /\ s \o r \in Seq(R) BY <2>4, <2>5, ConcatProperties
  <2>7. s \o r \o w \in Seq(S) BY <2>3, <2>6, ConcatProperties
  <2>8. ~legal(t, force) => s \o r \o w \in Seq(R)
    BY <2>3, <2>6, EmptySeq, ConcatProperties
  <2>9. ASSUME tasks[t].queue \notin Queues PROVE s \o r \o w \in Seq(V)
    <3>1. s \in Seq(V) BY <2>1, <2>9, EmptySeq
    <3>2. s \o r \in Seq(V) BY <3>1, <2>4, ConcatProperties
    <3>3. QED BY <3>2, <2>3, ConcatProperties
  <2>10. QED BY <2>7, <2>8, <2>9 DEF s, r, w
<1> HIDE DEF program
<1>5. program(t, force) \in Seq(Steps) BY <1>3, <1>4, SeqMonotonic
<1>6. d \in Call BY <1>2, <1>5, IdleOK DEF Call, OpNames, TaskDoc, Statuses
<1>7. /\ d.rest = program(t, force) /\ d.op = "reset" /\ d.from = tasks[t].queue
      /\ d.force = force /\ d.expect = tasks[t].status
  BY DEF Idle
<1> HIDE DEF d
<1>8. \A step : step \notin S => Avoids(d, step) BY <1>3, <1>4, <1>7, AlphabetAvoids
<1>9. d.from \notin Queues => Avoids(d, "find") BY <1>3, <1>4, <1>7, AlphabetAvoids
<1>10. Legal(d, created) \/ Avoids(d, "to_created")
  BY <1>3, <1>4, <1>7, AlphabetAvoids DEF Legal
<1>11. ProgramOK(d) BY <1>7, <1>8, <1>9, <1>10 DEF ProgramOK, Adders
<1>12. QED BY <1>1, <1>6, <1>11, BeginOK, OnlyCallChanges DEF d, program, ResetTask

LEMMA PublishTaskOK ==
  ASSUME Inv, NEW p \in Procs, PublishTask(p)
  PROVE  Inv'
<1> DEFINE S == {"publishing", "publish_model", "published"}
           program(t) == When(tasks[t].status # publishing, <<"publishing">>)
                         \o <<"publish_model", "published">>
           c(t, force) ==
             [Idle EXCEPT !.op = "publish", !.task = t, !.force = force,
                !.expect = tasks[t].status, !.new = published, !.rest = program(t)]
<1>1. PICK t \in Tasks, force \in ForceFlags : Begin(p, "publish", c(t, force))
  BY DEF PublishTask
<1> DEFINE d == c(t, force)
<1>2. tasks[t] \in TaskDoc /\ force \in BOOLEAN
  BY ConstantsAssumption DEF Inv, TypeOK
<1>3. S \subseteq Steps BY DEF Steps
<1>4. <<"publishing">> \in Seq(S) /\ <<"publish_model", "published">> \in Seq(S) OBVIOUS
<1>5. program(t) \in Seq(S) BY <1>4, WhenInSeq, ConcatProperties
<1> HIDE DEF program
<1>6. program(t) \in Seq(Steps) BY <1>3, <1>5, SeqMonotonic
<1>7. d \in Call BY <1>2, <1>6, IdleOK DEF Call, OpNames, TaskDoc, Statuses
<1>8. d.rest = program(t) /\ d.op = "publish" BY DEF Idle
<1> HIDE DEF d
<1>9. \A step : step \notin S => Avoids(d, step) BY <1>3, <1>5, <1>8, AlphabetAvoids
<1>10. ProgramOK(d) BY <1>8, <1>9 DEF ProgramOK, Adders
<1>11. QED BY <1>1, <1>7, <1>10, BeginOK, OnlyCallChanges DEF d, program, PublishTask

LEMMA GetNextTaskOK ==
  ASSUME Inv, NEW p \in Procs, GetNextTask(p)
  PROVE  Inv'
<1> DEFINE c(q) == [Idle EXCEPT !.op = "next", !.task = Head(queues[q].entries).task,
                                !.rest = <<"pop_read">>]
<1>1. PICK q \in Queues :
        /\ queues[q].entries # <<>>
        /\ Begin(p, "next", c(q))
        /\ queues' = [queues EXCEPT ![q].entries = Tail(@)]
  BY DEF GetNextTask
<1> DEFINE d == c(q)
<1>2. queues[q].entries \in Seq(Entry) BY DEF Inv, TypeOK, QueueDoc
<1>3. /\ Head(queues[q].entries) \in Entry
      /\ Tail(queues[q].entries) \in Seq(Entry)
  BY <1>1, <1>2, TailInSeq
<1>4. queues' \in [Queues -> QueueDoc] BY <1>1, <1>3 DEF Inv, TypeOK, QueueDoc
<1>5. "pop_read" \in Steps BY DEF Steps
<1>6. <<"pop_read">> \in Seq(Steps) BY <1>5, OneStep
<1>7. d \in Call BY <1>3, <1>6, IdleOK DEF Call, OpNames, Entry
<1>8. d.rest = <<"pop_read">> /\ d.op = "next" BY DEF Idle
<1> HIDE DEF d
<1>9. \A step : step # "pop_read" => Avoids(d, step) BY <1>5, <1>8, OneStep DEF Avoids
<1>10. ProgramOK(d) BY <1>8, <1>9 DEF ProgramOK, Adders
<1>11. call' \in [Procs -> Call] /\ ProgramsOK' BY <1>1, <1>7, <1>10, BeginOK DEF d
<1>12. tasks' \in [Tasks -> TaskDoc] BY DEF Inv, TypeOK, GetNextTask
<1>13. QED BY <1>4, <1>11, <1>12 DEF Inv, TypeOK

LEMMA AddTaskToQueueOK ==
  ASSUME Inv, NEW p \in Procs, AddTaskToQueue(p)
  PROVE  Inv'
<1> DEFINE S == {"check", "push", "metrics", "set_queue"}
           program(update) == AddTask \o When(update, <<"set_queue">>)
           c(t, q, update) ==
             [Idle EXCEPT !.op = "add", !.task = t, !.to = q, !.rest = program(update)]
<1>1. PICK t \in Tasks, q \in Queues, update \in BOOLEAN : Begin(p, "add", c(t, q, update))
  BY DEF AddTaskToQueue
<1> DEFINE d == c(t, q, update)
<1>2. S \subseteq Steps BY DEF Steps
<1>3. AddTask \in Seq(S) /\ <<"set_queue">> \in Seq(S) BY DEF AddTask
<1>4. program(update) \in Seq(S) BY <1>3, WhenInSeq, ConcatProperties
<1> HIDE DEF program
<1>5. program(update) \in Seq(Steps) BY <1>2, <1>4, SeqMonotonic
<1>6. d \in Call BY <1>5, IdleOK DEF Call, OpNames
<1>7. d.rest = program(update) /\ d.op = "add" /\ d.task = t BY DEF Idle
<1> HIDE DEF d
<1>8. \A step : step \notin S => Avoids(d, step) BY <1>2, <1>4, <1>7, AlphabetAvoids
<1>9. ProgramOK(d) BY <1>7, <1>8 DEF ProgramOK, Adders
<1>10. QED BY <1>1, <1>6, <1>9, BeginOK, OnlyCallChanges DEF d, program, AddTaskToQueue

LEMMA RemoveTaskFromQueueOK ==
  ASSUME Inv, NEW p \in Procs, RemoveTaskFromQueue(p)
  PROVE  Inv'
<1> DEFINE S == {"pull", "detach", "reload"}
           program(op) == <<"pull">> \o When(op = "remove_update", <<"detach">>)
                          \o <<"reload">>
           c(t, q, op) ==
             [Idle EXCEPT !.op = op, !.task = t, !.from = q,
                !.found = EntriesOf(queues[q].entries, t), !.work = {t},
                !.rest = program(op)]
<1>1. PICK t \in Tasks, q \in Queues, op \in {"remove", "remove_update"} :
        Begin(p, op, c(t, q, op))
  BY DEF RemoveTaskFromQueue
<1> DEFINE d == c(t, q, op)
<1>2. S \subseteq Steps BY DEF Steps
<1>3. <<"pull">> \in Seq(S) /\ <<"detach">> \in Seq(S) /\ <<"reload">> \in Seq(S) OBVIOUS
<1>4. When(op = "remove_update", <<"detach">>) \in Seq(S) BY <1>3, WhenInSeq
<1>5. program(op) \in Seq(S) BY <1>3, <1>4, ConcatProperties
<1> HIDE DEF program
<1>6. program(op) \in Seq(Steps) BY <1>2, <1>5, SeqMonotonic
<1>7. EntriesOf(queues[q].entries, t) \subseteq Entry
  BY EntriesOfType DEF Inv, TypeOK, QueueDoc
<1>8. d \in Call BY <1>6, <1>7, IdleOK DEF Call, OpNames
<1>9. d.rest = program(op) /\ d.op = op BY DEF Idle
<1> HIDE DEF d
<1>10. \A step : step \notin S => Avoids(d, step) BY <1>2, <1>5, <1>9, AlphabetAvoids
<1>11. ProgramOK(d) BY <1>9, <1>10 DEF ProgramOK, Adders
<1>12. QED
  BY <1>1, <1>8, <1>11, BeginOK, OnlyCallChanges DEF d, program, RemoveTaskFromQueue

LEMMA MoveTaskToQueueOK ==
  ASSUME Inv, NEW p \in Procs, MoveTaskToQueue(p)
  PROVE  Inv'
<1> DEFINE S == {"pull", "reload", "check", "push", "metrics", "set_queue"}
           program(update) == <<"pull", "reload">> \o AddTask
                              \o When(update, <<"set_queue">>)
           c(t, q, target, update) ==
             [Idle EXCEPT !.op = "move", !.task = t, !.from = q, !.to = target,
                !.found = EntriesOf(queues[q].entries, t), !.rest = program(update)]
<1>1. PICK t \in Tasks, q \in Queues, target \in Queues, update \in BOOLEAN :
        Begin(p, "move", c(t, q, target, update))
  BY DEF MoveTaskToQueue
<1> DEFINE d == c(t, q, target, update)
<1>2. S \subseteq Steps BY DEF Steps
<1>3. /\ <<"pull", "reload">> \in Seq(S) /\ AddTask \in Seq(S)
      /\ <<"set_queue">> \in Seq(S)
  BY DEF AddTask
<1>4. When(update, <<"set_queue">>) \in Seq(S) BY <1>3, WhenInSeq
<1>5. program(update) \in Seq(S) BY <1>3, <1>4, ConcatProperties
<1> HIDE DEF program
<1>6. program(update) \in Seq(Steps) BY <1>2, <1>5, SeqMonotonic
<1>7. EntriesOf(queues[q].entries, t) \subseteq Entry
  BY EntriesOfType DEF Inv, TypeOK, QueueDoc
<1>8. d \in Call BY <1>6, <1>7, IdleOK DEF Call, OpNames
<1>9. d.rest = program(update) /\ d.op = "move" /\ d.task = t BY DEF Idle
<1> HIDE DEF d
<1>10. \A step : step \notin S => Avoids(d, step) BY <1>2, <1>5, <1>9, AlphabetAvoids
<1>11. ProgramOK(d) BY <1>9, <1>10 DEF ProgramOK, Adders
<1>12. QED BY <1>1, <1>8, <1>11, BeginOK, OnlyCallChanges DEF d, program, MoveTaskToQueue

LEMMA RepositionTaskOK ==
  ASSUME Inv, NEW p \in Procs, RepositionTask(p)
  PROVE  Inv'
<1> DEFINE c(t, q, move) ==
             [Idle EXCEPT !.op = "reposition", !.task = t, !.from = q, !.move = move,
                          !.rest = <<"reposition">>]
<1>1. PICK t \in Tasks, q \in Queues, move \in Moves : Begin(p, "reposition", c(t, q, move))
  BY DEF RepositionTask
<1> DEFINE d == c(t, q, move)
<1>2. "reposition" \in Steps BY DEF Steps
<1>3. <<"reposition">> \in Seq(Steps) BY <1>2, OneStep
<1>4. d \in Call BY <1>3, IdleOK DEF Call, OpNames
<1>5. d.rest = <<"reposition">> /\ d.op = "reposition" BY DEF Idle
<1> HIDE DEF d
<1>6. \A step : step # "reposition" => Avoids(d, step) BY <1>2, <1>5, OneStep DEF Avoids
<1>7. ProgramOK(d) BY <1>5, <1>6 DEF ProgramOK, Adders
<1>8. QED BY <1>1, <1>4, <1>7, BeginOK, OnlyCallChanges DEF d, RepositionTask

LEMMA ToSetType ==
  ASSUME NEW S, NEW s \in Seq(S)
  PROVE  ToSet(s) \subseteq S
BY DEF ToSet

LEMMA ClearQueueOK ==
  ASSUME Inv, NEW p \in Procs, ClearQueue(p)
  PROVE  Inv'
<1> DEFINE S == {"detach", "clear"}
           c(q) == [Idle EXCEPT !.op = "clear", !.from = q,
                      !.found = ToSet(queues[q].entries),
                      !.work = {e.task : e \in ToSet(queues[q].entries)},
                      !.rest = <<"detach", "clear">>]
<1>1. PICK q \in Queues : Begin(p, "clear", c(q)) BY DEF ClearQueue
<1> DEFINE d == c(q)
<1>2. S \subseteq Steps BY DEF Steps
<1>3. <<"detach", "clear">> \in Seq(S) OBVIOUS
<1>4. <<"detach", "clear">> \in Seq(Steps) BY <1>2, <1>3, SeqMonotonic
<1>5. ToSet(queues[q].entries) \subseteq Entry
  BY ToSetType DEF Inv, TypeOK, QueueDoc
<1>6. {e.task : e \in ToSet(queues[q].entries)} \subseteq Tasks BY <1>5 DEF Entry
<1>7. d \in Call BY <1>4, <1>5, <1>6, IdleOK DEF Call, OpNames
<1>8. d.rest = <<"detach", "clear">> /\ d.op = "clear" BY DEF Idle
<1> HIDE DEF d
<1>9. \A step : step \notin S => Avoids(d, step) BY <1>2, <1>3, <1>8, AlphabetAvoids
<1>10. ProgramOK(d) BY <1>8, <1>9 DEF ProgramOK, Adders
<1>11. QED BY <1>1, <1>7, <1>10, BeginOK, OnlyCallChanges DEF d, ClearQueue

LEMMA DeleteQueueOK ==
  ASSUME Inv, NEW p \in Procs, DeleteQueue(p)
  PROVE  Inv'
<1> DEFINE S == {"detach", "drop"}
           program(q) == When(queues[q].entries # <<>>, <<"detach">>) \o <<"drop">>
           c(q, op) == [Idle EXCEPT !.op = op, !.from = q,
                          !.found = ToSet(queues[q].entries),
                          !.work = {e.task : e \in ToSet(queues[q].entries)},
                          !.rest = program(q)]
<1>1. PICK q \in Queues, op \in {"drop", "drop_forced"} : Begin(p, op, c(q, op))
  BY DEF DeleteQueue
<1> DEFINE d == c(q, op)
<1>2. S \subseteq Steps BY DEF Steps
<1>3. <<"detach">> \in Seq(S) /\ <<"drop">> \in Seq(S) OBVIOUS
<1>4. program(q) \in Seq(S) BY <1>3, WhenInSeq, ConcatProperties
<1> HIDE DEF program
<1>5. program(q) \in Seq(Steps) BY <1>2, <1>4, SeqMonotonic
<1>6. ToSet(queues[q].entries) \subseteq Entry
  BY ToSetType DEF Inv, TypeOK, QueueDoc
<1>7. {e.task : e \in ToSet(queues[q].entries)} \subseteq Tasks BY <1>6 DEF Entry
<1>8. d \in Call BY <1>5, <1>6, <1>7, IdleOK DEF Call, OpNames
<1>9. d.rest = program(q) /\ d.op = op BY DEF Idle
<1> HIDE DEF d
<1>10. \A step : step \notin S => Avoids(d, step) BY <1>2, <1>4, <1>9, AlphabetAvoids
<1>11. ProgramOK(d) BY <1>9, <1>10 DEF ProgramOK, Adders
<1>12. QED BY <1>1, <1>8, <1>11, BeginOK, OnlyCallChanges DEF d, program, DeleteQueue

LEMMA RequestOK ==
  ASSUME Inv, NEW p \in Procs, Request(p)
  PROVE  Inv'
BY EnqueueOK, DequeueTaskOK, StopTaskOK, SetStatusFromCallOK, ArchiveTaskOK,
   UnarchiveTaskOK, DeleteTaskOK, ResetTaskOK, PublishTaskOK, GetNextTaskOK,
   AddTaskToQueueOK, RemoveTaskFromQueueOK, MoveTaskToQueueOK, RepositionTaskOK,
   ClearQueueOK, DeleteQueueOK DEF Request

-----------------------------------------------------------------------------
(* The other steps of a handler.                                           *)

LEMMA CallFacts ==
  ASSUME Inv, NEW p \in Procs
  PROVE  call[p] \in Call /\ ProgramOK(call[p])
BY DEF Inv, TypeOK, ProgramsOK

LEMMA EntriesType ==
  ASSUME TypeOK, NEW q, NEW entries, q \in Queues => entries \in Seq(Entry),
         queues' = [queues EXCEPT ![q].entries = entries]
  PROVE  queues' \in [Queues -> QueueDoc]
BY DEF TypeOK, QueueDoc

LEMMA PullOneType ==
  ASSUME NEW entries \in Seq(Entry), NEW S
  PROVE  PullOne(entries, S) \in Seq(Entry)
<1>1. CASE \E i \in DOMAIN entries : entries[i] \in S
  <2>1. (CHOOSE i \in DOMAIN entries : entries[i] \in S) \in DOMAIN entries BY <1>1
  <2>2. QED BY <1>1, <2>1, RemoveAtProperties DEF PullOne
<1>2. CASE ~ \E i \in DOMAIN entries : entries[i] \in S
  BY <1>2 DEF PullOne
<1>3. QED BY <1>1, <1>2

\* Where an entry goes: the pipeline takes it out and puts it back.
LEMMA RepositionShape ==
  ASSUME NEW entries \in Seq(Entry), NEW t, HasTask(entries, t), NEW move \in Moves
  PROVE  \E i \in DOMAIN entries : \E k \in 0..(Len(entries) - 1) :
           Reposition(entries, t, move) =
             SubSeq(RemoveAt(entries, i), 1, k) \o <<entries[i]>>
             \o SubSeq(RemoveAt(entries, i), k + 1, Len(RemoveAt(entries, i)))
<1> DEFINE pos    == CHOOSE i \in DOMAIN entries : entries[i].task = t
           others == RemoveAt(entries, pos)
           wanted == CASE move = "first"    -> 0
                       [] move = "last"     -> Len(others)
                       [] move = "forward"  -> (pos - 1) - 1
                       [] move = "backward" -> (pos - 1) + 1
           new    == IF wanted <= 0 THEN 0
                     ELSE IF wanted >= Len(others) THEN Len(others) ELSE wanted
<1>1. pos \in DOMAIN entries BY DEF HasTask
<1>2. pos \in Int BY <1>1
<1>3. Len(others) = Len(entries) - 1 BY <1>1, RemoveAtProperties
<1>4. Reposition(entries, t, move) =
        SubSeq(others, 1, new) \o <<entries[pos]>> \o SubSeq(others, new + 1, Len(others))
  BY DEF Reposition
<1> HIDE DEF pos, others
<1>5. Len(entries) \in Nat /\ Len(entries) >= 1
  BY <1>1, LenProperties
<1>6. wanted \in Int BY <1>2, <1>3, <1>5 DEF Moves
<1> HIDE DEF wanted
<1>7. new \in 0..(Len(entries) - 1) BY <1>3, <1>5, <1>6
<1>8. QED BY <1>1, <1>4, <1>7 DEF others

LEMMA RepositionType ==
  ASSUME NEW entries \in Seq(Entry), NEW t, HasTask(entries, t), NEW move \in Moves
  PROVE  Reposition(entries, t, move) \in Seq(Entry)
<1>1. PICK i \in DOMAIN entries, k \in 0..(Len(entries) - 1) :
           Reposition(entries, t, move) =
             SubSeq(RemoveAt(entries, i), 1, k) \o <<entries[i]>>
             \o SubSeq(RemoveAt(entries, i), k + 1, Len(RemoveAt(entries, i)))
  BY RepositionShape
<1> DEFINE others == RemoveAt(entries, i)
<1>2. others \in Seq(Entry) /\ Len(others) = Len(entries) - 1 BY RemoveAtProperties
<1> HIDE DEF others
<1>3. k \in Int /\ k <= Len(others) /\ Len(others) \in Int BY <1>2
<1>4. \A j \in 1..Len(others) : others[j] \in Entry BY <1>2, ElementOfSeq
<1>5. SubSeq(others, 1, k) \in Seq(Entry) BY <1>3, <1>4, SubSeqProperties
<1>6. SubSeq(others, k + 1, Len(others)) \in Seq(Entry)
  <2>1. \A j \in (k + 1)..Len(others) : others[j] \in Entry BY <1>3, <1>4
  <2>2. QED BY <1>3, <2>1, SubSeqProperties
<1>7. <<entries[i]>> \in Seq(Entry) BY ElementOfSeq, LenProperties
<1>8. QED BY <1>1, <1>5, <1>6, <1>7, ConcatProperties DEF others

\* What is done when a task cannot be added.
LEMMA AddFailsOK ==
  ASSUME Inv, NEW p \in Procs, AddFails(p)
  PROVE  call' \in [Procs -> Call] /\ ProgramsOK'
<1> DEFINE c == call[p]
<1>1. c \in Call /\ ProgramOK(c) BY CallFacts
<1> HIDE DEF c
<1>2. CASE c.op \in {"enqueue", "enqueue_keep"}
  <2> DEFINE d == [c EXCEPT !.rest = <<"revert">>]
  <2>1. Goto(p, c, <<"revert">>) BY <1>2 DEF AddFails, c
  <2>2. "revert" \in Steps BY DEF Steps
  <2>3. <<"revert">> \in Seq(Steps) BY <2>2, OneStep
  <2>4. d.rest = <<"revert">> /\ d.op = c.op /\ d.task = c.task BY <1>1 DEF Call
  <2> HIDE DEF d
  <2>5. \A step : step # "revert" => Avoids(d, step) BY <2>2, <2>4, OneStep DEF Avoids
  <2>6. ProgramOK(d) BY <1>1, <2>4, <2>5 DEF ProgramOK
  <2>7. QED BY <1>1, <2>1, <2>3, <2>6, GotoOK DEF d
<1>3. CASE c.op = "move" /\ c.to # c.from
  <2> DEFINE S == {"check", "push", "metrics"}
             b == [c EXCEPT !.to = c.from]
             d == [b EXCEPT !.rest = AddTask]
  <2>1. Goto(p, b, AddTask) BY <1>3 DEF AddFails, c
  <2>2. S \subseteq Steps BY DEF Steps
  <2>3. AddTask \in Seq(S) BY DEF AddTask
  <2>4. AddTask \in Seq(Steps) BY <2>2, <2>3, SeqMonotonic
  <2>5. b \in Call BY <1>1 DEF Call
  <2>6. d.rest = AddTask /\ d.op = c.op /\ d.task = c.task BY <1>1 DEF Call
  <2> HIDE DEF b, d
  <2>7. \A step : step \notin S => Avoids(d, step) BY <2>2, <2>3, <2>6, AlphabetAvoids
  <2>8. ProgramOK(d) BY <1>1, <1>3, <2>6, <2>7 DEF ProgramOK, Adders
  <2>9. QED BY <2>1, <2>4, <2>5, <2>8, GotoOK DEF d
<1>4. CASE c.op \notin {"enqueue", "enqueue_keep"} /\ ~(c.op = "move" /\ c.to # c.from)
  <2>1. Done(p) BY <1>4 DEF AddFails, c
  <2>2. QED BY <2>1, DoneOK
<1>5. QED BY <1>2, <1>3, <1>4

\* The steps that update one task by id and status, or by id, and go on or end.
LEMMA TaskUpdateOK ==
  ASSUME Inv, NEW p \in Procs, tasks' \in [Tasks -> TaskDoc], UNCHANGED queues,
         call[p].rest # <<>>, Continue(p) \/ Done(p)
  PROVE  Inv'
<1>1. call' \in [Procs -> Call] /\ ProgramsOK' BY ContinueOK, DoneOK
<1>2. QED BY <1>1 DEF Inv, TypeOK

\* The steps that look at the documents and go on or end.
LEMMA LookOK ==
  ASSUME Inv, NEW p \in Procs, UNCHANGED <<tasks, queues>>, call[p].rest # <<>>,
         Continue(p) \/ Done(p)
  PROVE  Inv'
<1>1. call' \in [Procs -> Call] /\ ProgramsOK' BY ContinueOK, DoneOK
<1>2. QED BY <1>1, OnlyCallChanges

LEMMA AddStepsOK ==
  ASSUME Inv, NEW p \in Procs,
         ToQueued(p) \/ CheckQueue(p) \/ PushEntry(p) \/ LogAdded(p) \/ Revert(p)
         \/ SetExecutionQueue(p) \/ PullFromOthers(p)
  PROVE  Inv'
<1> DEFINE c == call[p]
<1>1. c \in Call /\ ProgramOK(c) BY CallFacts
<1>2. TypeOK BY DEF Inv
<1>3. c.task \in Tasks => tasks[c.task] \in TaskDoc BY <1>2 DEF TypeOK
<1>4. CASE ToQueued(p)
  <2>1. c.task \in Tasks =>
          [tasks[c.task] EXCEPT !.status = queued, !.enqueue_status = c.enqueue_status]
            \in TaskDoc
    BY <1>1, <1>3 DEF Call, TaskDoc, Statuses
  <2>2. tasks' \in [Tasks -> TaskDoc] BY <1>2, <1>4, <2>1, ExecuteType DEF ToQueued
  <2>3. QED BY <1>4, <2>2, TaskUpdateOK DEF ToQueued, At
<1>5. CASE CheckQueue(p)
  <2>1. CASE AddFails(p) BY <1>5, <2>1, AddFailsOK, OnlyCallChanges DEF CheckQueue
  <2>2. CASE Continue(p) BY <1>5, <2>2, LookOK DEF CheckQueue, At
  <2>3. QED BY <1>5, <2>1, <2>2 DEF CheckQueue
<1>6. CASE PushEntry(p)
  <2>1. CASE MayPush(c.to, c.task)
    <3>1. PICK n \in 1..MaxAdded :
            queues' = [queues EXCEPT ![c.to].entries =
                         Push(queues[c.to].entries, [task |-> c.task, added |-> n])]
      BY <1>6, <2>1 DEF PushEntry
    <3>2. c.task \in Tasks
      <4>1. ~Avoids(c, "push") BY <1>6, HeadNotAvoided DEF PushEntry, At
      <4>2. QED BY <1>1, <4>1 DEF ProgramOK
    <3>3. [task |-> c.task, added |-> n] \in Entry BY <3>2 DEF Entry
    <3>4. c.to \in Queues =>
            Push(queues[c.to].entries, [task |-> c.task, added |-> n]) \in Seq(Entry)
      BY <1>2, <3>3, AppendProperties DEF TypeOK, QueueDoc, Push
    <3>5. queues' \in [Queues -> QueueDoc] BY <1>2, <3>1, <3>4, EntriesType
    <3>6. Continue(p) /\ UNCHANGED tasks /\ c.rest # <<>>
      BY <1>6, <2>1 DEF PushEntry, At
    <3>7. QED BY <3>5, <3>6, ContinueOK DEF Inv, TypeOK
  <2>2. CASE ~MayPush(c.to, c.task)
    <3>1. AddFails(p) /\ UNCHANGED <<tasks, queues>> BY <1>6, <2>2 DEF PushEntry
    <3>2. QED BY <3>1, AddFailsOK, OnlyCallChanges
  <2>3. QED BY <2>1, <2>2
<1>7. CASE LogAdded(p)
  <2>1. CASE AddFails(p) BY <1>7, <2>1, AddFailsOK, OnlyCallChanges DEF LogAdded
  <2>2. CASE Continue(p) BY <1>7, <2>2, LookOK DEF LogAdded, At
  <2>3. QED BY <1>7, <2>1, <2>2 DEF LogAdded
<1>8. CASE Revert(p)
  <2>1. c.task \in Tasks =>
          [tasks[c.task] EXCEPT !.status = c.expect, !.enqueue_status = NoStatus] \in TaskDoc
    BY <1>1, <1>3 DEF Call, TaskDoc
  <2>2. tasks' \in [Tasks -> TaskDoc] BY <1>2, <1>8, <2>1, ExecuteType DEF Revert
  <2>3. QED BY <1>8, <2>2, TaskUpdateOK DEF Revert, At
<1>9. CASE SetExecutionQueue(p)
  <2>1. c.task \in Tasks => [tasks[c.task] EXCEPT !.queue = c.to] \in TaskDoc
    BY <1>1, <1>3 DEF Call, TaskDoc
  <2>2. tasks' \in [Tasks -> TaskDoc]
    BY <1>2, <1>9, <2>1, UpdateByIdType DEF SetExecutionQueue
  <2>3. QED BY <1>9, <2>2, TaskUpdateOK DEF SetExecutionQueue, At
<1>10. CASE PullFromOthers(p)
  <2>1. PICK q \in c.todo :
          /\ queues' = [queues EXCEPT ![q].entries = PullTask(queues[q].entries, c.task)]
          /\ IF c.todo = {q} THEN Continue(p)
             ELSE call' = [call EXCEPT ![p].todo = @ \ {q}]
    BY <1>10 DEF PullFromOthers
  <2>2. q \in Queues BY <1>1 DEF Call
  <2>3. PullTask(queues[q].entries, c.task) \in Seq(Entry)
    BY <1>2, <2>2, PullOneType DEF PullTask, TypeOK, QueueDoc
  <2>4. queues' \in [Queues -> QueueDoc] BY <1>2, <2>1, <2>3, EntriesType
  <2>5. call' \in [Procs -> Call] /\ ProgramsOK'
    <3>1. CASE c.todo = {q}
      BY <1>10, <2>1, <3>1, ContinueOK DEF PullFromOthers, At
    <3>2. CASE c.todo # {q}
      <4> DEFINE d == [c EXCEPT !.todo = c.todo \ {q}]
      <4>1. call' = [call EXCEPT ![p] = d] BY <2>1, <3>2
      <4>2. d \in Call BY <1>1 DEF Call
      <4>3. /\ d.rest = c.rest /\ d.op = c.op /\ d.task = c.task /\ d.from = c.from
            /\ d.force = c.force /\ d.expect = c.expect /\ d.new = c.new
        BY <1>1 DEF Call
      <4> HIDE DEF c, d
      <4>4. ProgramOK(d) BY <1>1, <4>3 DEF ProgramOK, Avoids, Legal
      <4>5. call \in [Procs -> Call] BY <1>2 DEF TypeOK
      <4>6. \A r \in Procs : call'[r] = IF r = p THEN d ELSE call[r] BY <4>1, <4>5
      <4>7. \A r \in Procs : ProgramOK(call[r]) BY DEF Inv, ProgramsOK
      <4>8. \A r \in Procs : ProgramOK(call'[r]) BY <4>4, <4>6, <4>7
      <4>9. QED BY <4>1, <4>2, <4>5, <4>8 DEF ProgramsOK, ProgramOK, Avoids, Legal
    <3>3. QED BY <3>1, <3>2
  <2>6. QED BY <1>10, <2>4, <2>5 DEF Inv, TypeOK, PullFromOthers
<1>11. QED BY <1>4, <1>5, <1>6, <1>7, <1>8, <1>9, <1>10

\* A record that agrees with c on what ProgramOK reads, with some of its steps left.
LEMMA SameProgramOK ==
  ASSUME NEW c \in Call, ProgramOK(c), NEW d \in Call,
         /\ d.op = c.op /\ (c.op \in Adders => d.task = c.task)
         /\ (d.from = c.from) /\ d.force = c.force
         /\ d.expect = c.expect /\ d.new = c.new,
         \A step : Avoids(c, step) => Avoids(d, step)
  PROVE  ProgramOK(d)
BY DEF ProgramOK, Legal

LEMMA RemoveStepsOK ==
  ASSUME Inv, NEW p \in Procs,
         FindEntry(p) \/ PullEntry(p) \/ LogRemoved(p) \/ RestoreStatus(p)
  PROVE  Inv'
<1> DEFINE c == call[p]
<1>1. c \in Call /\ ProgramOK(c) BY CallFacts
<1>2. TypeOK BY DEF Inv
<1>3. c.task \in Tasks => tasks[c.task] \in TaskDoc BY <1>2 DEF TypeOK
<1>4. CASE FindEntry(p)
  <2>1. c.rest # <<>> /\ Head(c.rest) = "find" /\ UNCHANGED <<tasks, queues>>
    BY <1>4 DEF FindEntry, At
  <2>2. c.from \in Queues BY <1>1, <2>1, HeadNotAvoided DEF ProgramOK
  <2>3. CASE Holds(c.from, c.task)
    <3> DEFINE b == [c EXCEPT !.found = EntriesOf(queues[c.from].entries, c.task)]
               d == [b EXCEPT !.rest = Tail(c.rest)]
    <3>1. Goto(p, b, Tail(c.rest)) BY <1>4, <2>3 DEF FindEntry
    <3>2. EntriesOf(queues[c.from].entries, c.task) \subseteq Entry
      BY <1>2, <2>2, EntriesOfType DEF TypeOK, QueueDoc
    <3>3. b \in Call BY <1>1, <3>2 DEF Call
    <3>4. Tail(c.rest) \in Seq(Steps) BY <1>1, <2>1, TailOK
    <3>5. d \in Call BY <3>3, <3>4 DEF Call
    <3>6. /\ d.rest = Tail(c.rest) /\ d.op = c.op /\ d.task = c.task /\ d.from = c.from
          /\ d.force = c.force /\ d.expect = c.expect /\ d.new = c.new
      BY <1>1 DEF Call
    <3> HIDE DEF b, d, c
    <3>7. \A step : Avoids(c, step) => Avoids(d, step)
      BY <2>1, <3>6, TailInSeq DEF Avoids
    <3>8. ProgramOK(d) BY <1>1, <3>5, <3>6, <3>7, SameProgramOK
    <3>9. QED BY <2>1, <3>1, <3>3, <3>4, <3>8, GotoOK, OnlyCallChanges DEF d
  <2>4. CASE ~Holds(c.from, c.task)
    <3>1. CASE c.op \in SwallowsApiError
      <4> DEFINE rest == SubSeq(c.rest, Len(RemoveTask) + 1, Len(c.rest))
      <4>1. Goto(p, c, rest) BY <1>4, <2>4, <3>1 DEF FindEntry
      <4>2. Len(RemoveTask) = 3 BY DEF RemoveTask
      <4>3. ASSUME NEW S, c.rest \in Seq(S) PROVE rest \in Seq(S)
        <5>1. Len(c.rest) \in Nat BY <4>3, LenProperties
        <5>2. \A i \in 4..Len(c.rest) : c.rest[i] \in S BY <4>3, <5>1, ElementOfSeq
        <5>3. QED BY <4>2, <5>1, <5>2, SubSeqProperties
      <4> HIDE DEF rest
      <4>4. rest \in Seq(Steps) BY <1>1, <4>3 DEF Call
      <4>5. ProgramOK([c EXCEPT !.rest = rest]) BY <1>1, <4>3, <4>4, FewerStepsOK
      <4>6. QED BY <1>1, <2>1, <4>1, <4>4, <4>5, GotoOK, OnlyCallChanges
    <3>2. CASE c.op \notin SwallowsApiError
      <4>1. Done(p) BY <1>4, <2>4, <3>2 DEF FindEntry
      <4>2. QED BY <2>1, <4>1, LookOK
    <3>3. QED BY <3>1, <3>2
  <2>5. QED BY <2>3, <2>4
<1>5. CASE PullEntry(p)
  <2> DEFINE hit == Holds(c.from, c.task)
             task == IF c.op = "remove_update" THEN NoTask ELSE c.task
             b == [c EXCEPT !.found = {}, !.task = task]
             rest == IF ~hit /\ c.op \in {"move", "remove_update"} THEN <<"reload">>
                     ELSE Tail(c.rest)
             d == [b EXCEPT !.rest = rest]
  <2>1. /\ c.rest # <<>> /\ Head(c.rest) = "pull" /\ UNCHANGED tasks
        /\ Goto(p, b, rest)
        /\ queues' = IF hit
             THEN [queues EXCEPT ![c.from].entries = PullOne(queues[c.from].entries, c.found)]
             ELSE queues
    BY <1>5 DEF PullEntry, At
  <2>2. queues' \in [Queues -> QueueDoc]
    <3>1. c.from \in Queues => PullOne(queues[c.from].entries, c.found) \in Seq(Entry)
      BY <1>2, PullOneType DEF TypeOK, QueueDoc
    <3>2. CASE hit BY <1>2, <2>1, <3>1, <3>2, EntriesType
    <3>3. CASE ~hit BY <1>2, <2>1, <3>3 DEF TypeOK
    <3>4. QED BY <3>2, <3>3
  <2>3. b \in Call BY <1>1 DEF Call
  <2>4. ASSUME NEW S, c.rest \in Seq(S), "reload" \in S
        PROVE  rest \in Seq(S)
    BY <2>1, <2>4, TailInSeq
  <2>5. "reload" \in Steps /\ c.rest \in Seq(Steps) BY <1>1 DEF Steps, Call
  <2>6. rest \in Seq(Steps) BY <2>4, <2>5
  <2>7. d \in Call BY <2>3, <2>6 DEF Call
  <2>8. /\ d.rest = rest /\ d.op = c.op /\ d.from = c.from
        /\ d.task = task /\ d.force = c.force /\ d.expect = c.expect /\ d.new = c.new
    BY <1>1 DEF Call
  <2> HIDE DEF rest
  <2>9. \A step : step # "reload" /\ Avoids(c, step) => Avoids(d, step)
    BY <2>4, <2>5, <2>8 DEF Avoids
  <2> HIDE DEF b, d, c
  <2>10. ProgramOK(d) BY <1>1, <2>8, <2>9 DEF ProgramOK, Legal, Adders
  <2>11. call' \in [Procs -> Call] /\ ProgramsOK'
    BY <2>1, <2>3, <2>6, <2>10, GotoOK DEF d
  <2>12. QED BY <2>1, <2>2, <2>11 DEF Inv, TypeOK
<1>6. CASE LogRemoved(p) BY <1>6, LookOK DEF LogRemoved, At
<1>7. CASE RestoreStatus(p)
  <2>1. c.task \in Tasks =>
          [tasks[c.task] EXCEPT !.status = c.new, !.enqueue_status = NoStatus] \in TaskDoc
    BY <1>1, <1>3 DEF Call, TaskDoc
  <2>2. tasks' \in [Tasks -> TaskDoc] BY <1>2, <1>7, <2>1, ExecuteType DEF RestoreStatus
  <2>3. QED BY <1>7, <2>2, TaskUpdateOK DEF RestoreStatus, At
<1>8. QED BY <1>4, <1>5, <1>6, <1>7

LEMMA TaskStepsOK ==
  ASSUME Inv, NEW p \in Procs,
         ChangeStatus(p) \/ TagTask(p) \/ CleanupTask(p) \/ DeleteDocument(p)
         \/ ToCreated(p) \/ ReadPopped(p) \/ FixPopped(p)
  PROVE  Inv'
<1> DEFINE c == call[p]
<1>1. c \in Call /\ ProgramOK(c) BY CallFacts
<1>2. TypeOK BY DEF Inv
<1>3. c.task \in Tasks => tasks[c.task] \in TaskDoc BY <1>2 DEF TypeOK
<1>4. CASE ChangeStatus(p)
  <2>1. c.task \in Tasks => [tasks[c.task] EXCEPT !.status = c.new] \in TaskDoc
    BY <1>1, <1>3 DEF Call, TaskDoc
  <2>2. tasks' \in [Tasks -> TaskDoc] BY <1>2, <1>4, <2>1, ExecuteType DEF ChangeStatus
  <2>3. QED BY <1>4, <2>2, TaskUpdateOK DEF ChangeStatus, At
<1>5. CASE TagTask(p)
  <2>1. c.task \in Tasks =>
          [tasks[c.task] EXCEPT !.archived = (c.op = "archive")] \in TaskDoc
    BY <1>1, <1>3 DEF Call, TaskDoc
  <2>2. tasks' \in [Tasks -> TaskDoc] BY <1>2, <1>5, <2>1, UpdateByIdType DEF TagTask
  <2>3. QED BY <1>5, <2>2, TaskUpdateOK DEF TagTask, At
<1>6. CASE CleanupTask(p) BY <1>6, LookOK DEF CleanupTask, At
<1>7. CASE DeleteDocument(p)
  <2>1. DeletedTask \in TaskDoc BY NewTaskType DEF Statuses
  <2>2. tasks' \in [Tasks -> TaskDoc] BY <1>2, <1>7, <2>1 DEF DeleteDocument, TypeOK
  <2>3. QED BY <1>7, <2>2, TaskUpdateOK DEF DeleteDocument, At
<1>8. CASE ToCreated(p)
  <2>1. c.task \in Tasks =>
          [tasks[c.task] EXCEPT !.status = created, !.enqueue_status = NoStatus,
                                !.queue = NoQueue] \in TaskDoc
    BY <1>1, <1>3 DEF Call, TaskDoc, Statuses
  <2>2. tasks' \in [Tasks -> TaskDoc] BY <1>2, <1>8, <2>1, ExecuteType DEF ToCreated
  <2>3. QED BY <1>8, <2>2, TaskUpdateOK DEF ToCreated, At
<1>9. CASE ReadPopped(p)
  <2>1. CASE Done(p) BY <1>9, <2>1, LookOK DEF ReadPopped, At
  <2>2. CASE Goto(p, c, <<"pop_fix">>)
    <3> DEFINE d == [c EXCEPT !.rest = <<"pop_fix">>]
    <3>1. c.rest # <<>> /\ Head(c.rest) = "pop_read" /\ UNCHANGED <<tasks, queues>>
      BY <1>9 DEF ReadPopped, At
    <3>2. "pop_fix" \in Steps BY DEF Steps
    <3>3. <<"pop_fix">> \in Seq(Steps) BY <3>2, OneStep
    <3>4. d.rest = <<"pop_fix">> /\ d.op = c.op /\ d.task = c.task BY <1>1 DEF Call
    <3> HIDE DEF d
    <3>5. \A step : step # "pop_fix" => Avoids(d, step) BY <3>2, <3>4, OneStep DEF Avoids
    <3>6. ProgramOK(d) BY <1>1, <3>4, <3>5 DEF ProgramOK
    <3>7. QED BY <1>1, <2>2, <3>1, <3>3, <3>6, GotoOK, OnlyCallChanges DEF d
  <2>3. QED BY <1>9, <2>1, <2>2 DEF ReadPopped
<1>10. CASE FixPopped(p)
  <2>1. c.task \in Tasks => [tasks[c.task] EXCEPT !.status = queued] \in TaskDoc
    BY <1>1, <1>3 DEF Call, TaskDoc, Statuses
  <2>2. tasks' \in [Tasks -> TaskDoc] BY <1>2, <1>10, <2>1, UpdateByIdType DEF FixPopped
  <2>3. QED BY <1>10, <2>2, TaskUpdateOK DEF FixPopped, At
<1>11. QED BY <1>4, <1>5, <1>6, <1>7, <1>8, <1>9, <1>10

LEMMA PublishFailsOK ==
  ASSUME Inv, NEW p \in Procs, PublishFails(p)
  PROVE  call' \in [Procs -> Call] /\ ProgramsOK'
<1> DEFINE c == call[p]
           d == [c EXCEPT !.rest = <<"rollback">>]
<1>1. c \in Call /\ ProgramOK(c) BY CallFacts
<1>2. CASE Done(p) BY <1>2, DoneOK
<1>3. CASE Goto(p, c, <<"rollback">>)
  <2>1. "rollback" \in Steps BY DEF Steps
  <2>2. <<"rollback">> \in Seq(Steps) BY <2>1, OneStep
  <2>3. d.rest = <<"rollback">> /\ d.op = c.op /\ d.task = c.task BY <1>1 DEF Call
  <2> HIDE DEF d
  <2>4. \A step : step # "rollback" => Avoids(d, step) BY <2>1, <2>3, OneStep DEF Avoids
  <2>5. ProgramOK(d) BY <1>1, <2>3, <2>4 DEF ProgramOK
  <2>6. QED BY <1>1, <1>3, <2>2, <2>5, GotoOK DEF d
<1>4. QED BY <1>2, <1>3 DEF PublishFails

LEMMA PublishStepsOK ==
  ASSUME Inv, NEW p \in Procs,
         SetPublishing(p) \/ PublishModel(p) \/ SetPublished(p) \/ RollbackPublish(p)
  PROVE  Inv'
<1> DEFINE c == call[p]
<1>1. c \in Call BY CallFacts
<1>2. TypeOK BY DEF Inv
<1>3. c.task \in Tasks => tasks[c.task] \in TaskDoc BY <1>2 DEF TypeOK
<1>4. CASE SetPublishing(p)
  <2>1. publishing \in Statuses BY DEF Statuses
  <2>2. tasks' \in [Tasks -> TaskDoc] BY <1>2, <1>4, <2>1, SaveType DEF SetPublishing
  <2>3. QED BY <1>4, <2>2, TaskUpdateOK DEF SetPublishing, At
<1>5. CASE PublishModel(p)
  <2>1. CASE Continue(p) BY <1>5, <2>1, LookOK DEF PublishModel, At
  <2>2. CASE PublishFails(p) BY <1>5, <2>2, PublishFailsOK, OnlyCallChanges DEF PublishModel
  <2>3. QED BY <1>5, <2>1, <2>2 DEF PublishModel
<1>6. CASE SetPublished(p)
  <2>1. c.task \in Tasks => [tasks[c.task] EXCEPT !.status = published] \in TaskDoc
    BY <1>3 DEF TaskDoc, Statuses
  <2>2. tasks' \in [Tasks -> TaskDoc] BY <1>2, <1>6, <2>1, ExecuteType DEF SetPublished
  <2>3. call' \in [Procs -> Call] /\ ProgramsOK'
    BY <1>6, DoneOK, PublishFailsOK DEF SetPublished
  <2>4. QED BY <1>6, <2>2, <2>3 DEF Inv, TypeOK, SetPublished
<1>7. CASE RollbackPublish(p)
  <2>1. c.expect \in Statuses BY <1>1 DEF Call
  <2>2. tasks' \in [Tasks -> TaskDoc] BY <1>2, <1>7, <2>1, SaveType DEF RollbackPublish
  <2>3. QED BY <1>7, <2>2, TaskUpdateOK DEF RollbackPublish, At
<1>8. QED BY <1>4, <1>5, <1>6, <1>7

\* A handler that restores a set of tasks rereads the status of each.
LEMMA RereadOK ==
  ASSUME NEW c \in Call, ProgramOK(c), ~Avoids(c, "detach"), NEW d \in Call,
         d.rest = c.rest \/ d.rest = Tail(c.rest),
         c.rest # <<>>, d.op = c.op, d.from = c.from,
         c.op \notin Adders
  PROVE  ProgramOK(d)
<1>1. ASSUME NEW step, Avoids(c, step) PROVE Avoids(d, step)
  <2>1. c.rest \in Seq(Steps \ {step}) BY <1>1 DEF Avoids
  <2>2. Tail(c.rest) \in Seq(Steps \ {step}) BY <2>1, TailInSeq
  <2>3. QED BY <2>1, <2>2 DEF Avoids
<1>2. QED BY <1>1 DEF ProgramOK

LEMMA DetachNextOK ==
  ASSUME Inv, NEW p \in Procs, At(p, "detach"), call[p].op \notin Adders,
         NEW b \in Call, b.op = call[p].op, b.from = call[p].from,
         b.rest = call[p].rest, DetachNext(p, b)
  PROVE  call' \in [Procs -> Call] /\ ProgramsOK'
<1> DEFINE c == call[p]
<1>1. c \in Call /\ ProgramOK(c) BY CallFacts
<1>2. c.rest # <<>> /\ ~Avoids(c, "detach") BY HeadNotAvoided DEF At
<1>3. ASSUME NEW rest \in {c.rest, Tail(c.rest)}, Goto(p, b, rest)
      PROVE  call' \in [Procs -> Call] /\ ProgramsOK'
  <2> DEFINE d == [b EXCEPT !.rest = rest]
  <2>1. rest \in Seq(Steps) BY <1>1, <1>2, <1>3, TailOK DEF Call
  <2>2. d \in Call BY <2>1 DEF Call
  <2>3. d.rest = rest /\ d.op = b.op /\ d.from = b.from BY DEF Call
  <2> HIDE DEF d
  <2>4. ProgramOK(d) BY <1>1, <1>2, <1>3, <2>2, <2>3, RereadOK
  <2>5. QED BY <1>3, <2>1, <2>4, GotoOK DEF d
<1>4. QED BY <1>3 DEF DetachNext

LEMMA QueueStepsOK ==
  ASSUME Inv, NEW p \in Procs,
         MoveEntry(p) \/ DetachRead(p) \/ DetachWrite(p) \/ EmptyQueue(p) \/ DropQueue(p)
  PROVE  Inv'
<1> DEFINE c == call[p]
<1>1. c \in Call /\ ProgramOK(c) BY CallFacts
<1>2. TypeOK BY DEF Inv
<1>3. CASE MoveEntry(p)
  <2>1. c.from \in Queues /\ Holds(c.from, c.task) =>
          Reposition(queues[c.from].entries, c.task, c.move) \in Seq(Entry)
    BY <1>1, <1>2, RepositionType DEF TypeOK, QueueDoc, Holds, Call
  <2>2. queues' \in [Queues -> QueueDoc]
    <3>1. CASE Holds(c.from, c.task) BY <1>2, <1>3, <2>1, <3>1, EntriesType DEF MoveEntry
    <3>2. CASE ~Holds(c.from, c.task) BY <1>2, <1>3, <3>2 DEF MoveEntry, TypeOK
    <3>3. QED BY <3>1, <3>2
  <2>3. call' \in [Procs -> Call] /\ ProgramsOK' BY <1>3, DoneOK DEF MoveEntry
  <2>4. QED BY <1>3, <2>2, <2>3 DEF Inv, TypeOK, MoveEntry
<1>4. CASE EmptyQueue(p)
  <2>1. <<>> \in Seq(Entry) BY EmptySeq
  <2>2. queues' \in [Queues -> QueueDoc] BY <1>2, <1>4, <2>1 DEF EmptyQueue, TypeOK, QueueDoc
  <2>3. call' \in [Procs -> Call] /\ ProgramsOK' BY <1>4, DoneOK DEF EmptyQueue
  <2>4. QED BY <1>4, <2>2, <2>3 DEF Inv, TypeOK, EmptyQueue
<1>5. CASE DropQueue(p)
  <2>1. <<>> \in Seq(Entry) BY EmptySeq
  <2>2. [exists |-> FALSE, entries |-> <<>>] \in QueueDoc BY <2>1 DEF QueueDoc
  <2>3. queues' \in [Queues -> QueueDoc] BY <1>2, <1>5, <2>2 DEF DropQueue, TypeOK
  <2>4. call' \in [Procs -> Call] /\ ProgramsOK' BY <1>5, DoneOK DEF DropQueue
  <2>5. QED BY <1>5, <2>3, <2>4 DEF Inv, TypeOK, DropQueue
<1>6. CASE DetachRead(p)
  <2>1. PICK t \in c.work :
          LET rest == [c EXCEPT !.work = @ \ {t}] IN
          IF Visible(t) /\ tasks[t].queue = c.from
          THEN Goto(p, [rest EXCEPT !.task = t, !.expect = tasks[t].status,
                          !.new = RestoredStatus(tasks[t], NoStatus, NoStatus)], c.rest)
          ELSE DetachNext(p, rest)
    BY <1>6 DEF DetachRead
  <2>2. At(p, "detach") /\ c.task = NoTask /\ UNCHANGED <<tasks, queues>>
    BY <1>6 DEF DetachRead
  <2>3. c.op \notin Adders BY <1>1, <2>2, HeadNotAvoided DEF ProgramOK, At
  <2> DEFINE b == [c EXCEPT !.work = c.work \ {t}]
             d == [b EXCEPT !.task = t, !.expect = tasks[t].status,
                            !.new = RestoredStatus(tasks[t], NoStatus, NoStatus)]
  <2>4. b \in Call /\ b.op = c.op /\ b.from = c.from /\ b.rest = c.rest BY <1>1 DEF Call
  <2>5. CASE DetachNext(p, b)
    BY <2>2, <2>3, <2>4, <2>5, DetachNextOK, OnlyCallChanges
  <2>6. CASE Goto(p, d, c.rest)
    <3>1. t \in Tasks /\ tasks[t] \in TaskDoc BY <1>1, <1>2 DEF Call, TypeOK
    <3>2. RestoredStatus(tasks[t], NoStatus, NoStatus) \in Statuses
      BY <3>1, RestoredStatusType
    <3>3. d \in Call BY <2>4, <3>1, <3>2 DEF Call, TaskDoc
    <3>4. d.op = c.op /\ d.from = c.from /\ d.rest = c.rest BY <1>1 DEF Call
    <3> DEFINE e == [d EXCEPT !.rest = c.rest]
    <3>5. c.rest \in Seq(Steps) BY <1>1 DEF Call
    <3> HIDE DEF d
    <3>6. e \in Call /\ e.op = c.op /\ e.from = c.from /\ e.rest = c.rest
      BY <3>3, <3>4, <3>5 DEF Call
    <3>7. c.rest # <<>> /\ ~Avoids(c, "detach") BY <2>2, HeadNotAvoided DEF At
    <3> HIDE DEF e
    <3>8. ProgramOK(e) BY <1>1, <2>3, <3>6, <3>7, RereadOK
    <3>9. QED BY <2>2, <2>6, <3>3, <3>5, <3>8, GotoOK, OnlyCallChanges DEF e
  <2>7. QED BY <2>1, <2>5, <2>6
<1>7. CASE DetachWrite(p)
  <2>1. c.task \in Tasks =>
          [tasks[c.task] EXCEPT !.status = c.new, !.enqueue_status = NoStatus,
                                !.queue = NoQueue] \in TaskDoc
    <3>1. c.task \in Tasks => tasks[c.task] \in TaskDoc BY <1>2 DEF TypeOK
    <3>2. c.new \in Statuses BY <1>1 DEF Call
    <3>3. QED BY <3>1, <3>2 DEF TaskDoc
  <2>2. tasks' \in [Tasks -> TaskDoc] BY <1>2, <1>7, <2>1, ExecuteType DEF DetachWrite
  <2> DEFINE b == [c EXCEPT !.task = NoTask]
  <2>3. b \in Call /\ b.op = c.op /\ b.from = c.from /\ b.rest = c.rest BY <1>1 DEF Call
  <2>4. DetachNext(p, b) /\ At(p, "detach") BY <1>7 DEF DetachWrite
  <2>5. c.op \notin Adders BY <1>1, <2>4, HeadNotAvoided DEF ProgramOK, At
  <2>6. call' \in [Procs -> Call] /\ ProgramsOK' BY <2>3, <2>4, <2>5, DetachNextOK
  <2>7. QED BY <1>7, <2>2, <2>6 DEF Inv, TypeOK, DetachWrite
<1>8. QED BY <1>3, <1>4, <1>5, <1>6, <1>7

LEMMA StepOK ==
  ASSUME Inv, NEW p \in Procs, Step(p)
  PROVE  Inv'
BY AddStepsOK, RemoveStepsOK, TaskStepsOK, PublishStepsOK, QueueStepsOK DEF Step

-----------------------------------------------------------------------------
(* The theorems.                                                           *)

LEMMA InitOK == Init => Inv
<1> SUFFICES ASSUME Init PROVE Inv OBVIOUS
<1>1. tasks \in [Tasks -> TaskDoc] BY NewTaskType, ConstantsAssumption DEF Init
<1>2. <<>> \in Seq(Entry) BY EmptySeq
<1>3. queues \in [Queues -> QueueDoc] BY <1>2 DEF Init, QueueDoc
<1>4. call \in [Procs -> Call] /\ ProgramsOK BY IdleOK DEF Init, ProgramsOK
<1>5. QED BY <1>1, <1>3, <1>4 DEF Inv, TypeOK

\* A step that changes nothing.
LEMMA StutterOK == Inv /\ UNCHANGED vars => Inv'
BY DEF Inv, TypeOK, vars, ProgramsOK, ProgramOK, Avoids, Legal

LEMMA NextOK == Inv /\ [Next]_vars => Inv'
BY RequestOK, StepOK, StutterOK DEF Next

\* Whatever the handlers of any number of processes interleave to, the documents and
\* what the handlers remember have their types, and each request still has what the
\* rest of its program relies on.
THEOREM TypeCorrect == Spec => []TypeOK
<1>1. Inv => TypeOK BY DEF Inv
<1>2. QED BY <1>1, InitOK, NextOK, PTL DEF Spec

\* Each request still has what the rest of its program relies on: in particular a
\* transition yet to be made was legal from the status it will be compared with.
THEOREM ProgramsCorrect == Spec => []ProgramsOK
<1>1. Inv => ProgramsOK BY DEF Inv
<1>2. QED BY <1>1, InitOK, NextOK, PTL DEF Spec
=============================================================================
