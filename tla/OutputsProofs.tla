--------------------------- MODULE OutputsProofs ----------------------------
(***************************************************************************)
(* Deletions leave no dangling reference and take no file that is in use,  *)
(* wherever the server stops and whatever the job that deletes files does. *)
(*                                                                         *)
(* First the job (UrlDeletion): no record goes before its files.  UrlTypeOK*)
(* says of the job's memory only what its fields hold; the proof needs its *)
(* whole type, and that the job remembers as deleted only urls whose files *)
(* are gone (JobKnows).  Between an attempt and the mark that charges a    *)
(* record with it there are several updates, and requests start records over*)
(* meanwhile: for GivenUpAfterRetries, Charged counts the attempt that is  *)
(* not marked yet, and JobShape says which urls the job holds where.       *)
(*                                                                         *)
(* Then the requests (Outputs).  They are sequences of calls, and what makes*)
(* a call safe is what comes before it: a document is deleted after the    *)
(* calls that correct the references to it, and a url is released after the*)
(* calls that delete what names it.  Safe(k, before) says so of a call k and*)
(* the set of the calls before it, and the invariant is that every call in *)
(* todo is safe.                                                           *)
(***************************************************************************)
EXTENDS Outputs, FilteringProofs, FiniteSetTheorems

Record == [exists: BOOLEAN, status: {"none", "created", "failed"}, retry_count: 0..MaxRetries, resting: BOOLEAN]
Places == {"idle", "connect", "chunks", "delete", "mark", "remove", "missing"}
JobFields == {"pc", "group", "todo", "chunk", "deleted", "errors"}
JobType ==
  [pc: Places, group: SUBSET Urls, todo: SUBSET Urls, chunk: SUBSET Urls, deleted: SUBSET Urls, errors: SUBSET Urls]

TypeInv ==
  /\ files \subseteq Files
  /\ records \in [Urls -> Record]
  /\ job \in JobType
  /\ attempts \in [Urls -> 0..MaxRetries] /\ deaths \in 0..MaxDeaths

JobKnows == \A u \in job.deleted : Covers[u] \cap files = {}

UrlInv == TypeInv /\ JobKnows

-----------------------------------------------------------------------------
(* Records and attempts.                                                   *)

LEMMA FailedType ==
  ASSUME records \in [Urls -> Record], NEW S
  PROVE  Failed(S) \in [Urls -> Record] /\ \A u \in Urls : Failed(S)[u].exists = records[u].exists
BY DEF Failed, Record

LEMMA RetryFailedType ==
  ASSUME records \in [Urls -> Record], NEW S
  PROVE  RetryFailed(S) \in [Urls -> Record] /\ \A u \in Urls : RetryFailed(S)[u].exists = records[u].exists
<1> DEFINE Charging(u) ==
      [records[u] EXCEPT !.resting = TRUE, !.retry_count = IF @ < MaxRetries THEN @ + 1 ELSE @,
         !.status = IF records[u].retry_count + 1 >= MaxRetries THEN "failed" ELSE @]
<1>1. \A u \in Urls : records[u] \in Record OBVIOUS
<1>2. ASSUME NEW u \in Urls PROVE Charging(u) \in Record /\ Charging(u).exists = records[u].exists
  <2>1. /\ records[u].retry_count \in 0..MaxRetries /\ records[u].exists \in BOOLEAN
        /\ records[u].status \in {"none", "created", "failed"}
    BY <1>1 DEF Record
  <2>2. (IF records[u].retry_count < MaxRetries THEN records[u].retry_count + 1 ELSE records[u].retry_count)
          \in 0..MaxRetries
    BY <2>1, UrlsAssumption DEF UrlsAssumption
  <2>3. QED BY <1>1, <2>1, <2>2 DEF Record
<1> HIDE DEF Charging
<1>3. RetryFailed(S) = [u \in Urls |-> IF u \notin S \cap Recorded THEN records[u] ELSE Charging(u)]
  BY DEF RetryFailed, Charging
<1>4. QED BY <1>1, <1>2, <1>3

LEMMA ScheduledType ==
  ASSUME records \in [Urls -> Record], NEW S
  PROVE  /\ Scheduled(S) \in [Urls -> Record]
         /\ \A u \in Urls : records[u].exists => Scheduled(S)[u].exists
<1>1. NewRecord \in Record BY UrlsAssumption DEF UrlsAssumption, NewRecord, Record
<1>2. NewRecord.exists BY DEF NewRecord
<1>3. QED BY <1>1, <1>2 DEF Scheduled

LEMMA WithoutType ==
  ASSUME records \in [Urls -> Record], NEW S
  PROVE  /\ Without(S) \in [Urls -> Record]
         /\ \A u \in Urls \ S : Without(S)[u] = records[u]
<1>1. NoRecord \in Record BY UrlsAssumption DEF UrlsAssumption, NoRecord, Record
<1>2. QED BY <1>1 DEF Without

LEMMA AttemptedType ==
  ASSUME attempts \in [Urls -> 0..MaxRetries], NEW S, Attempted(S)
  PROVE  attempts' \in [Urls -> 0..MaxRetries]
<1>1. \A n \in 0..MaxRetries : n < MaxRetries => n + 1 \in 0..MaxRetries
  BY UrlsAssumption DEF UrlsAssumption
<1>2. QED BY <1>1 DEF Attempted

LEMMA RestartedType ==
  ASSUME attempts \in [Urls -> 0..MaxRetries], NEW S
  PROVE  AttemptsRestarted(S) \in [Urls -> 0..MaxRetries]
<1>1. 0 \in 0..MaxRetries /\ 1 \in 0..MaxRetries BY UrlsAssumption DEF UrlsAssumption
<1>2. QED BY <1>1 DEF AttemptsRestarted

\* What Resume leaves of the job.
LEMMA ResumeType ==
  ASSUME job \in JobType, NEW fields, Resume(fields), DOMAIN fields \subseteq JobFields,
         "pc" \in DOMAIN fields => fields["pc"] \in Places,
         \A f \in DOMAIN fields \ {"pc"} : fields[f] \subseteq Urls
  PROVE  /\ job' \in JobType
         /\ \A f \in JobFields : job'[f] = IF f \in DOMAIN fields THEN fields[f] ELSE job[f]
<1>1. DOMAIN job = JobFields BY DEF JobType, JobFields
<1>2. job' = [f \in JobFields |-> IF f \in DOMAIN fields THEN fields[f] ELSE job[f]]
  BY <1>1 DEF Resume
<1>3. \A f \in JobFields : job'[f] = IF f \in DOMAIN fields THEN fields[f] ELSE job[f]
  BY <1>2
<1>4. job'["pc"] \in Places BY <1>3 DEF JobType, JobFields
<1>5. \A f \in JobFields \ {"pc"} : job'[f] \subseteq Urls BY <1>3 DEF JobType, JobFields
<1>6. job' \in JobType BY <1>2, <1>4, <1>5 DEF JobType, JobFields
<1>7. QED BY <1>3, <1>6

-----------------------------------------------------------------------------
(* One lemma for each action: it keeps the invariant and every record whose *)
(* files are there.                                                         *)

RecordsKept == \A u \in Urls : records[u].exists /\ ~records'[u].exists => Covers[u] \cap files = {}

LEMMA JobIdleType == JobIdle \in JobType /\ JobIdle.deleted = {}
BY DEF JobIdle, JobType, Places

LEMMA StartBatchInv == ASSUME UrlInv, StartBatch PROVE UrlInv' /\ RecordsKept
<1>1. PICK first \in Urls :
        LET batch == {u \in Urls : Due(u) /\ StorageOf[u] = StorageOf[first]}
        IN  /\ records' = Failed(batch \cap Misconfigured)
            /\ IF batch \subseteq Misconfigured THEN UNCHANGED job
               ELSE Resume([pc |-> "connect", group |-> batch \ Misconfigured])
  BY DEF StartBatch
<1> DEFINE batch == {u \in Urls : Due(u) /\ StorageOf[u] = StorageOf[first]}
<1>2. records' \in [Urls -> Record] /\ RecordsKept BY <1>1, FailedType DEF UrlInv, TypeInv, RecordsKept
<1>3. job' \in JobType /\ job'.deleted = job.deleted
  <2>1. CASE UNCHANGED job BY <2>1 DEF UrlInv, TypeInv
  <2>2. CASE Resume([pc |-> "connect", group |-> batch \ Misconfigured])
    BY <2>2, ResumeType DEF UrlInv, TypeInv, JobFields, Places
  <2>3. QED BY <1>1, <2>1, <2>2
<1>4. QED BY <1>2, <1>3 DEF StartBatch, UrlInv, TypeInv, JobKnows

LEMMA GetClientInv == ASSUME UrlInv, GetClient PROVE UrlInv' /\ RecordsKept
<1>1. CASE Resume([pc |-> "chunks", todo |-> job.group]) /\ UNCHANGED <<records, attempts>>
  <2>1. job.group \subseteq Urls BY DEF UrlInv, TypeInv, JobType
  <2>2. job' \in JobType /\ job'.deleted = job.deleted
    BY <1>1, <2>1, ResumeType DEF UrlInv, TypeInv, JobFields, Places
  <2>3. QED BY <1>1, <2>2 DEF GetClient, UrlInv, TypeInv, JobKnows, RecordsKept
<1>2. CASE records' = RetryFailed(job.group) /\ Attempted(job.group) /\ job' = JobIdle
  <2>1. records' \in [Urls -> Record] /\ RecordsKept
    BY <1>2, RetryFailedType DEF UrlInv, TypeInv, RecordsKept
  <2>2. attempts' \in [Urls -> 0..MaxRetries] BY <1>2, AttemptedType DEF UrlInv, TypeInv
  <2>3. QED BY <1>2, <2>1, <2>2, JobIdleType DEF GetClient, UrlInv, TypeInv, JobKnows
<1>3. QED BY <1>1, <1>2 DEF GetClient

LEMMA NextChunkInv == ASSUME UrlInv, NextChunk PROVE UrlInv' /\ RecordsKept
<1>1. CASE job' = JobIdle /\ UNCHANGED records
  BY <1>1, JobIdleType DEF NextChunk, UrlInv, TypeInv, JobKnows, RecordsKept
<1>2. CASE \E chunk \in SUBSET job.todo :
             /\ records' = Failed(chunk \cap NoPath)
             /\ Resume([pc |-> IF chunk \subseteq NoPath THEN "chunks" ELSE "delete",
                        todo |-> job.todo \ chunk, chunk |-> chunk \ NoPath])
  <2>1. PICK chunk \in SUBSET job.todo :
             /\ records' = Failed(chunk \cap NoPath)
             /\ Resume([pc |-> IF chunk \subseteq NoPath THEN "chunks" ELSE "delete",
                        todo |-> job.todo \ chunk, chunk |-> chunk \ NoPath])
    BY <1>2
  <2>2. job.todo \subseteq Urls BY DEF UrlInv, TypeInv, JobType
  <2>3. job' \in JobType /\ job'.deleted = job.deleted
    BY <2>1, <2>2, ResumeType DEF UrlInv, TypeInv, JobFields, Places
  <2>4. records' \in [Urls -> Record] /\ RecordsKept
    BY <2>1, FailedType DEF UrlInv, TypeInv, RecordsKept
  <2>5. QED BY <2>3, <2>4 DEF NextChunk, UrlInv, TypeInv, JobKnows
<1>3. QED BY <1>1, <1>2 DEF NextChunk

\* What the storage says it has deleted is gone.
LEMMA DeleteManyInv == ASSUME UrlInv, DeleteMany PROVE UrlInv' /\ RecordsKept
<1>1. PICK gone, deleted, errors :
        /\ gone \subseteq job.chunk /\ deleted \subseteq gone /\ errors \subseteq job.chunk
        /\ files' = files \ UNION {Covers[u] : u \in gone}
        /\ Resume([pc |-> "mark", deleted |-> deleted, errors |-> errors])
  BY DEF DeleteMany
<1>2. job.chunk \subseteq Urls BY DEF UrlInv, TypeInv, JobType
<1>3. job' \in JobType /\ job'.deleted = deleted
  BY <1>1, <1>2, ResumeType DEF UrlInv, TypeInv, JobFields, Places
<1>4. attempts' \in [Urls -> 0..MaxRetries] BY AttemptedType DEF DeleteMany, UrlInv, TypeInv
<1>5. \A u \in deleted : Covers[u] \cap files' = {} BY <1>1
<1>6. files' \subseteq Files BY <1>1 DEF UrlInv, TypeInv
<1>7. QED BY <1>3, <1>4, <1>5, <1>6 DEF DeleteMany, UrlInv, TypeInv, JobKnows, RecordsKept

LEMMA DeleteManyRaisesInv == ASSUME UrlInv, DeleteManyRaises PROVE UrlInv' /\ RecordsKept
<1>1. job' \in JobType /\ job'.deleted = job.deleted
  BY ResumeType DEF DeleteManyRaises, UrlInv, TypeInv, JobFields, Places
<1>2. records' \in [Urls -> Record] /\ RecordsKept
  BY RetryFailedType DEF DeleteManyRaises, UrlInv, TypeInv, RecordsKept
<1>3. attempts' \in [Urls -> 0..MaxRetries] BY AttemptedType DEF DeleteManyRaises, UrlInv, TypeInv
<1>4. files' \subseteq files BY DEF DeleteManyRaises
<1>5. QED BY <1>1, <1>2, <1>3, <1>4 DEF DeleteManyRaises, UrlInv, TypeInv, JobKnows

LEMMA MarkErrorsInv == ASSUME UrlInv, MarkErrors PROVE UrlInv' /\ RecordsKept
<1>1. job' \in JobType /\ job'.deleted = job.deleted
  BY ResumeType DEF MarkErrors, UrlInv, TypeInv, JobFields, Places
<1>2. records' \in [Urls -> Record] /\ RecordsKept
  BY RetryFailedType DEF MarkErrors, UrlInv, TypeInv, RecordsKept
<1>3. QED BY <1>1, <1>2 DEF MarkErrors, UrlInv, TypeInv, JobKnows

\* The only step that removes records: those of urls that the job knows to be deleted.
LEMMA RemoveRecordsInv == ASSUME UrlInv, RemoveRecords PROVE UrlInv' /\ RecordsKept
<1>1. job' \in JobType /\ job'.deleted = job.deleted
  BY ResumeType DEF RemoveRecords, UrlInv, TypeInv, JobFields, Places
<1>2. records' \in [Urls -> Record] BY WithoutType DEF RemoveRecords, UrlInv, TypeInv
<1>3. RecordsKept
  <2>1. \A u \in Urls \ job.deleted : records'[u] = records[u]
    BY WithoutType DEF RemoveRecords, Removable, UrlInv, TypeInv
  <2>2. QED BY <2>1 DEF UrlInv, JobKnows, RecordsKept
<1>4. attempts' \in [Urls -> 0..MaxRetries]
  BY UrlsAssumption DEF UrlsAssumption, RemoveRecords, UrlInv, TypeInv
<1>5. QED BY <1>1, <1>2, <1>3, <1>4 DEF RemoveRecords, UrlInv, TypeInv, JobKnows

LEMMA MarkMissingInv == ASSUME UrlInv, MarkMissing PROVE UrlInv' /\ RecordsKept
<1>1. job' \in JobType /\ job'.deleted = {}
  BY ResumeType DEF MarkMissing, UrlInv, TypeInv, JobFields, Places
<1>2. records' \in [Urls -> Record] /\ RecordsKept
  BY RetryFailedType DEF MarkMissing, UrlInv, TypeInv, RecordsKept
<1>3. QED BY <1>1, <1>2 DEF MarkMissing, UrlInv, TypeInv, JobKnows

LEMMA JobDiesInv == ASSUME UrlInv, JobDies PROVE UrlInv' /\ RecordsKept
BY JobIdleType, UrlsAssumption DEF UrlsAssumption, JobDies, UrlInv, TypeInv, JobKnows, RecordsKept

LEMMA TimePassesInv == ASSUME UrlInv, NEW v \in Urls, TimePasses(v) PROVE UrlInv' /\ RecordsKept
<1>1. records' \in [Urls -> Record] /\ \A u \in Urls : records'[u].exists = records[u].exists
  BY DEF TimePasses, UrlInv, TypeInv, Record
<1>2. QED BY <1>1 DEF TimePasses, UrlInv, TypeInv, JobKnows, RecordsKept

LEMMA ScheduleUrlsInv == ASSUME UrlInv, NEW S, ScheduleUrls(S) PROVE UrlInv' /\ RecordsKept
BY ScheduledType, RestartedType DEF ScheduleUrls, UrlInv, TypeInv, JobKnows, RecordsKept

LEMMA UrlStep ==
  ASSUME UrlInv, [UrlNext \/ \E S \in SUBSET Urls : ScheduleUrls(S)]_urlVars
  PROVE  UrlInv' /\ (RecordsKept \/ UNCHANGED urlVars)
<1>1. CASE UNCHANGED urlVars BY <1>1 DEF urlVars, UrlInv, TypeInv, JobKnows
<1>2. CASE JobStep
  BY <1>2, StartBatchInv, GetClientInv, NextChunkInv, DeleteManyInv, DeleteManyRaisesInv, MarkErrorsInv,
     RemoveRecordsInv, MarkMissingInv DEF JobStep
<1>3. CASE JobDies BY <1>3, JobDiesInv
<1>4. CASE \E u \in Urls : TimePasses(u) BY <1>4, TimePassesInv
<1>5. CASE \E S \in SUBSET Urls : ScheduleUrls(S) BY <1>5, ScheduleUrlsInv
<1>6. QED BY <1>1, <1>2, <1>3, <1>4, <1>5 DEF UrlNext

LEMMA UrlInitInv == UrlInit => UrlInv
<1>1. NoRecord \in Record BY UrlsAssumption DEF UrlsAssumption, NoRecord, Record
<1>2. QED BY <1>1, JobIdleType, UrlsAssumption DEF UrlsAssumption, UrlInit, UrlInv, TypeInv, JobKnows

LEMMA UrlInvariance == UrlSpec => []UrlInv
<1>1. UrlInv /\ [UrlNext \/ \E S \in SUBSET Urls : ScheduleUrls(S)]_urlVars => UrlInv' BY UrlStep
<1>2. QED BY <1>1, UrlInitInv, PTL DEF UrlSpec

-----------------------------------------------------------------------------
\* Files, records, the memory of the job and the counts of attempts and deaths keep their
\* types, for any urls, storages and bounds.
THEOREM UrlTypeCorrect == UrlSpec => []UrlTypeOK
<1>1. UrlInv => UrlTypeOK BY DEF UrlInv, TypeInv, UrlTypeOK, JobType, Record, Places
<1>2. QED BY <1>1, UrlInvariance, PTL

\* No record is removed while a file it stands for is there: for any set of urls, folders
\* that cover many files among them, any storage that answers as it likes, and a job that
\* dies anywhere and as often as it likes, while requests schedule the same urls again.
THEOREM NoFileIsForgotten == UrlSpec => RecordsOutliveFiles
<1>1. UrlInv /\ [UrlNext \/ \E S \in SUBSET Urls : ScheduleUrls(S)]_urlVars => [RecordsKept]_urlVars
  BY UrlStep
<1>2. QED BY <1>1, UrlInvariance, PTL DEF UrlSpec, RecordsOutliveFiles, RecordsKept

-----------------------------------------------------------------------------
(* Giving up.                                                              *)

\* The urls that the job takes at once fit one call of the storage.
GroupsFit ==
  \A v \in Urls :
    LET group == {u \in Urls \ Misconfigured : StorageOf[u] = StorageOf[v]}
    IN  IsFiniteSet(group) /\ Cardinality(group) <= ChunkSize

Usable == Urls \ (Misconfigured \cup NoPath)

\* An attempt was made for the url, and its record is not marked with it yet.
InFlight(u) ==
  \/ job.pc = "mark" /\ u \in job.chunk
  \/ job.pc \in {"remove", "missing"} /\ u \in job.chunk \ (job.errors \cup job.deleted)

\* The record is marked with no more than the attempts counted for it; and with one less.
Charged(r, a) == a >= r.retry_count /\ (r.status = "failed" => a = MaxRetries)
Ahead(r, a) == Charged(r, a) /\ (a >= r.retry_count + 1 \/ a = MaxRetries)

JobShape ==
  /\ job.group # {} => \E v \in Urls : job.group \subseteq {u \in Urls \ Misconfigured : StorageOf[u] = StorageOf[v]}
  /\ job.pc = "chunks" => job.todo \in {job.group, {}}
  /\ job.pc = "delete" => job.chunk = job.group \ NoPath /\ job.todo = {}
  /\ job.pc \in {"mark", "remove", "missing"} => job.todo = {} /\ job.errors \subseteq job.chunk

AllCharged ==
  \A u \in Usable : /\ Charged(records[u], attempts[u])
                    /\ InFlight(u) => Ahead(records[u], attempts[u])

RetryInv == TypeInv /\ JobShape /\ AllCharged

\* mark_retry_failed of one record.
MarkedOnce(r) ==
  [r EXCEPT !.resting = TRUE, !.retry_count = IF @ < MaxRetries THEN @ + 1 ELSE @,
     !.status = IF r.retry_count + 1 >= MaxRetries THEN "failed" ELSE @]

LEMMA MarkingCharges ==
  ASSUME NEW r \in Record, NEW a \in 0..MaxRetries, Ahead(r, a)
  PROVE  Charged(MarkedOnce(r), a)
<1>1. r.retry_count \in 0..MaxRetries /\ MaxRetries \in Nat BY UrlsAssumption DEF UrlsAssumption, Record
<1>2. MarkedOnce(r).retry_count = IF r.retry_count < MaxRetries THEN r.retry_count + 1 ELSE r.retry_count
  BY DEF MarkedOnce, Record
<1>3. MarkedOnce(r).status = IF r.retry_count + 1 >= MaxRetries THEN "failed" ELSE r.status
  BY DEF MarkedOnce, Record
<1>4. QED BY <1>1, <1>2, <1>3 DEF Ahead, Charged

LEMMA AttemptCharges ==
  ASSUME NEW r \in Record, NEW a \in 0..MaxRetries, NEW b, Charged(r, a),
         b = IF a < MaxRetries THEN a + 1 ELSE a
  PROVE  Ahead(r, b) /\ b \in 0..MaxRetries
<1>1. r.retry_count \in 0..MaxRetries /\ MaxRetries \in Nat BY UrlsAssumption DEF UrlsAssumption, Record
<1>2. QED BY <1>1 DEF Ahead, Charged

LEMMA FreshCharges ==
  /\ Ahead(NewRecord, 1) /\ Charged(NewRecord, 0) /\ Charged(NoRecord, 0)
BY DEF Ahead, Charged, NewRecord, NoRecord

LEMMA RetryFailedMarks ==
  ASSUME NEW S, NEW u \in Urls
  PROVE  RetryFailed(S)[u] = IF u \in S \cap Recorded THEN MarkedOnce(records[u]) ELSE records[u]
BY DEF RetryFailed, MarkedOnce

\* The records of S are marked with the attempt just made or still pending.
LEMMA RetryFailedCharges ==
  ASSUME records \in [Urls -> Record], NEW S, NEW u \in Urls, NEW a \in 0..MaxRetries,
         Charged(records[u], a), u \in S => Ahead(records[u], a)
  PROVE  Charged(RetryFailed(S)[u], a)
<1>1. CASE u \in S \cap Recorded
  <2>1. Charged(MarkedOnce(records[u]), a) BY <1>1, MarkingCharges
  <2>2. RetryFailed(S)[u] = MarkedOnce(records[u]) BY <1>1, RetryFailedMarks
  <2>3. QED BY <1>1, <2>1, <2>2
<1>2. CASE u \in S /\ u \notin Recorded BY <1>2, RetryFailedMarks
<1>3. CASE u \notin S BY <1>3, RetryFailedMarks
<1>4. QED BY <1>1, <1>2, <1>3

\* A record that is given up because of its url is not a usable one.
LEMMA FailedElsewhere ==
  ASSUME NEW S, NEW u \in Urls \ S
  PROVE  Failed(S)[u] = records[u]
BY DEF Failed

LEMMA AttemptedCounts ==
  ASSUME NEW S, Attempted(S), NEW u \in Urls
  PROVE  attempts'[u] = IF u \in S THEN (IF attempts[u] < MaxRetries THEN attempts[u] + 1 ELSE attempts[u])
                        ELSE attempts[u]
BY DEF Attempted

-----------------------------------------------------------------------------
(* One lemma for each action, given that the next state has its types.      *)

LEMMA UrlTyped == ASSUME TypeInv, NEW u \in Urls
                  PROVE  records[u] \in Record /\ attempts[u] \in 0..MaxRetries
BY DEF TypeInv

LEMMA StartBatchRetry == ASSUME RetryInv, TypeInv', StartBatch PROVE RetryInv'
<1>1. PICK first \in Urls :
        LET batch == {u \in Urls : Due(u) /\ StorageOf[u] = StorageOf[first]}
        IN  /\ records' = Failed(batch \cap Misconfigured)
            /\ IF batch \subseteq Misconfigured THEN UNCHANGED job
               ELSE Resume([pc |-> "connect", group |-> batch \ Misconfigured])
  BY DEF StartBatch
<1> DEFINE batch == {u \in Urls : Due(u) /\ StorageOf[u] = StorageOf[first]}
<1>2. job.pc = "idle" /\ attempts' = attempts BY DEF StartBatch
<1>3. CASE batch \subseteq Misconfigured
  <2>1. UNCHANGED job BY <1>1, <1>3
  <2>2. AllCharged'
    BY <1>1, <1>2, <2>1, FailedElsewhere DEF RetryInv, AllCharged, InFlight, Usable
  <2>3. QED BY <2>1, <2>2 DEF RetryInv, JobShape
<1>4. CASE ~(batch \subseteq Misconfigured)
  <2>1. Resume([pc |-> "connect", group |-> batch \ Misconfigured]) BY <1>1, <1>4
  <2>2. job'.pc = "connect" /\ job'.group = batch \ Misconfigured
    BY <2>1, ResumeType DEF RetryInv, TypeInv, JobFields, Places
  <2>3. JobShape' BY <2>2 DEF JobShape
  <2>4. AllCharged'
    <3>1. \A u \in Usable : records'[u] = records[u] BY <1>1, FailedElsewhere DEF Usable
    <3>2. QED BY <1>2, <2>2, <3>1 DEF RetryInv, AllCharged, InFlight
  <2>5. QED BY <2>3, <2>4 DEF RetryInv
<1>5. QED BY <1>3, <1>4

LEMMA GetClientRetry == ASSUME RetryInv, TypeInv', GetClient PROVE RetryInv'
<1>1. CASE Resume([pc |-> "chunks", todo |-> job.group]) /\ UNCHANGED <<records, attempts>>
  <2>1. job.group \subseteq Urls BY DEF RetryInv, TypeInv, JobType
  <2>2. job'.pc = "chunks" /\ job'.todo = job.group /\ job'.group = job.group
    BY <1>1, <2>1, ResumeType DEF RetryInv, TypeInv, JobFields, Places
  <2>3. JobShape' BY <2>2 DEF RetryInv, JobShape
  <2>4. AllCharged' BY <1>1, <2>2 DEF GetClient, RetryInv, AllCharged, InFlight
  <2>5. QED BY <2>3, <2>4 DEF RetryInv
<1>2. CASE records' = RetryFailed(job.group) /\ Attempted(job.group) /\ job' = JobIdle
  <2>1. job'.pc = "idle" /\ job'.group = {} BY <1>2 DEF JobIdle
  <2>2. JobShape' BY <2>1 DEF JobShape
  <2>3. AllCharged'
    <3>1. SUFFICES ASSUME NEW u \in Usable PROVE Charged(records'[u], attempts'[u])
      BY <2>1 DEF AllCharged, InFlight
    <3>2. Charged(records[u], attempts[u]) /\ u \in Urls
      BY DEF RetryInv, AllCharged, Usable
    <3>3. records[u] \in Record /\ attempts[u] \in 0..MaxRetries BY <3>2, UrlTyped DEF RetryInv
    <3>4. attempts'[u] \in 0..MaxRetries BY <3>2, UrlTyped DEF TypeInv
    <3>5. CASE u \in job.group
      <4>1. attempts'[u] = IF attempts[u] < MaxRetries THEN attempts[u] + 1 ELSE attempts[u]
        BY <1>2, <3>2, <3>5, AttemptedCounts
      <4>2. Ahead(records[u], attempts'[u]) BY <3>2, <3>3, <4>1, AttemptCharges
      <4>3. QED BY <1>2, <3>2, <3>4, <3>5, <4>2, RetryFailedCharges DEF Ahead, RetryInv, TypeInv
    <3>6. CASE u \notin job.group
      BY <1>2, <3>2, <3>3, <3>6, AttemptedCounts, RetryFailedMarks
    <3>7. QED BY <3>5, <3>6
  <2>4. QED BY <2>2, <2>3 DEF RetryInv
<1>3. QED BY <1>1, <1>2 DEF GetClient

\* The next chunk is all that is left of a group that fits one call.
LEMMA WholeGroup ==
  ASSUME GroupsFit, JobShape, NEW chunk \in SUBSET job.todo, job.pc = "chunks", job.todo # {},
         Cardinality(chunk) = IF Cardinality(job.todo) < ChunkSize THEN Cardinality(job.todo) ELSE ChunkSize
  PROVE  job.todo = job.group /\ chunk = job.todo
<1>1. job.todo = job.group /\ job.group # {} BY DEF JobShape
<1>2. PICK v \in Urls : job.group \subseteq {u \in Urls \ Misconfigured : StorageOf[u] = StorageOf[v]}
  BY <1>1 DEF JobShape
<1> DEFINE group == {u \in Urls \ Misconfigured : StorageOf[u] = StorageOf[v]}
<1>3. IsFiniteSet(group) /\ Cardinality(group) <= ChunkSize BY DEF GroupsFit
<1>4. job.todo \in SUBSET group BY <1>1, <1>2
<1> HIDE DEF group
<1>5. IsFiniteSet(job.todo) /\ Cardinality(job.todo) <= Cardinality(group)
  BY <1>3, <1>4, FS_Subset
<1>6. Cardinality(job.todo) \in Nat /\ Cardinality(group) \in Nat /\ ChunkSize \in Nat
  BY <1>3, <1>5, FS_CardinalityType, UrlsAssumption DEF UrlsAssumption
<1>7. Cardinality(chunk) = Cardinality(job.todo) BY <1>3, <1>5, <1>6
<1>8. chunk = job.todo BY <1>5, <1>7, FS_Subset
<1>9. QED BY <1>1, <1>8

LEMMA NextChunkRetry == ASSUME GroupsFit, RetryInv, TypeInv', NextChunk PROVE RetryInv'
<1>1. CASE job.todo = {}
  <2>1. job' = JobIdle /\ UNCHANGED records BY <1>1 DEF NextChunk
  <2>2. job'.pc = "idle" /\ job'.group = {} BY <2>1 DEF JobIdle
  <2>3. JobShape' BY <2>2 DEF JobShape
  <2>4. AllCharged' BY <2>1, <2>2 DEF NextChunk, RetryInv, AllCharged, InFlight
  <2>5. QED BY <2>3, <2>4 DEF RetryInv
<1>2. CASE job.todo # {}
  <2>1. PICK chunk \in SUBSET job.todo :
             /\ Cardinality(chunk) = IF Cardinality(job.todo) < ChunkSize THEN Cardinality(job.todo) ELSE ChunkSize
             /\ records' = Failed(chunk \cap NoPath)
             /\ Resume([pc |-> IF chunk \subseteq NoPath THEN "chunks" ELSE "delete",
                        todo |-> job.todo \ chunk, chunk |-> chunk \ NoPath])
    BY <1>2 DEF NextChunk
  <2>2. job.pc = "chunks" /\ attempts' = attempts BY DEF NextChunk
  <2>3. job.todo = job.group /\ chunk = job.todo BY <1>2, <2>1, <2>2, WholeGroup DEF RetryInv
  <2>4. job.todo \subseteq Urls BY DEF RetryInv, TypeInv, JobType
  <2>5. /\ job'.pc = IF chunk \subseteq NoPath THEN "chunks" ELSE "delete"
        /\ job'.todo = {} /\ job'.chunk = job.group \ NoPath /\ job'.group = job.group
    BY <2>1, <2>3, <2>4, ResumeType DEF RetryInv, TypeInv, JobFields, Places
  <2>6. JobShape' BY <2>5 DEF RetryInv, JobShape
  <2>7. \A u \in Usable : records'[u] = records[u] BY <2>1, FailedElsewhere DEF Usable
  <2>8. AllCharged' BY <2>2, <2>5, <2>7 DEF RetryInv, AllCharged, InFlight
  <2>9. QED BY <2>6, <2>8 DEF RetryInv
<1>3. QED BY <1>1, <1>2

LEMMA DeleteManyRetry == ASSUME RetryInv, TypeInv', DeleteMany PROVE RetryInv'
<1>1. PICK gone, deleted, errors :
        /\ gone \subseteq job.chunk /\ deleted \subseteq gone /\ errors \subseteq job.chunk
        /\ Resume([pc |-> "mark", deleted |-> deleted, errors |-> errors])
  BY DEF DeleteMany
<1>2. job.chunk \subseteq Urls BY DEF RetryInv, TypeInv, JobType
<1>3. /\ job'.pc = "mark" /\ job'.errors = errors
      /\ job'.group = job.group /\ job'.todo = job.todo /\ job'.chunk = job.chunk
  BY <1>1, <1>2, ResumeType DEF RetryInv, TypeInv, JobFields, Places
<1>4. JobShape' BY <1>1, <1>3 DEF DeleteMany, RetryInv, JobShape
<1>5. AllCharged'
  <2>1. SUFFICES ASSUME NEW u \in Usable
                 PROVE  /\ Charged(records'[u], attempts'[u])
                        /\ u \in job.chunk => Ahead(records'[u], attempts'[u])
    BY <1>3 DEF AllCharged, InFlight
  <2>2. Charged(records[u], attempts[u]) /\ u \in Urls
    BY DEF RetryInv, AllCharged, Usable
  <2>3. records[u] \in Record /\ attempts[u] \in 0..MaxRetries BY <2>2, UrlTyped DEF RetryInv
  <2>4. records' = records /\ Attempted(job.chunk) BY DEF DeleteMany
  <2>5. CASE u \in job.chunk
    <3>1. attempts'[u] = IF attempts[u] < MaxRetries THEN attempts[u] + 1 ELSE attempts[u]
      BY <2>2, <2>4, <2>5, AttemptedCounts
    <3>2. Ahead(records[u], attempts'[u]) BY <2>2, <2>3, <3>1, AttemptCharges
    <3>3. QED BY <2>4, <2>5, <3>2 DEF Ahead
  <2>6. CASE u \notin job.chunk
    <3>1. attempts'[u] = attempts[u] BY <2>2, <2>4, <2>6, AttemptedCounts
    <3>2. QED BY <2>2, <2>4, <2>6, <3>1
  <2>7. QED BY <2>5, <2>6
<1>6. QED BY <1>4, <1>5 DEF RetryInv

\* The marks go to the whole group, and so did the attempt.
LEMMA DeleteManyRaisesRetry == ASSUME RetryInv, TypeInv', DeleteManyRaises PROVE RetryInv'
<1>1. /\ job'.pc = "chunks" /\ job'.chunk = {} /\ job'.group = job.group /\ job'.todo = job.todo
  BY ResumeType DEF DeleteManyRaises, RetryInv, TypeInv, JobFields, Places
<1>2. job.pc = "delete" /\ job.chunk = job.group \ NoPath /\ job.todo = {}
  BY DEF DeleteManyRaises, RetryInv, JobShape
<1>3. JobShape' BY <1>1, <1>2 DEF RetryInv, JobShape
<1>4. AllCharged'
  <2>1. SUFFICES ASSUME NEW u \in Usable PROVE Charged(records'[u], attempts'[u])
    BY <1>1 DEF AllCharged, InFlight
  <2>2. Charged(records[u], attempts[u]) /\ u \in Urls
    BY DEF RetryInv, AllCharged, Usable
  <2>3. records[u] \in Record /\ attempts[u] \in 0..MaxRetries BY <2>2, UrlTyped DEF RetryInv
  <2>4. attempts'[u] \in 0..MaxRetries BY <2>2, UrlTyped DEF TypeInv
  <2>5. records' = RetryFailed(job.group) /\ Attempted(job.chunk) BY DEF DeleteManyRaises
  <2>6. CASE u \in job.group
    <3>1. u \in job.chunk BY <1>2, <2>6 DEF Usable
    <3>2. attempts'[u] = IF attempts[u] < MaxRetries THEN attempts[u] + 1 ELSE attempts[u]
      BY <2>2, <2>5, <3>1, AttemptedCounts
    <3>3. Ahead(records[u], attempts'[u]) BY <2>2, <2>3, <3>2, AttemptCharges
    <3>4. QED BY <2>2, <2>4, <2>5, <2>6, <3>3, RetryFailedCharges DEF Ahead, RetryInv, TypeInv
  <2>7. CASE u \notin job.group
    <3>1. attempts'[u] = attempts[u] BY <1>2, <2>2, <2>5, <2>7, AttemptedCounts
    <3>2. records'[u] = records[u] BY <2>2, <2>5, <2>7, RetryFailedMarks
    <3>3. QED BY <2>2, <3>1, <3>2
  <2>8. QED BY <2>6, <2>7
<1>5. QED BY <1>3, <1>4 DEF RetryInv

LEMMA MarkErrorsRetry == ASSUME RetryInv, TypeInv', MarkErrors PROVE RetryInv'
<1>1. /\ job'.pc = "remove" /\ job'.group = job.group /\ job'.todo = job.todo /\ job'.chunk = job.chunk
      /\ job'.errors = job.errors /\ job'.deleted = job.deleted
  BY ResumeType DEF MarkErrors, RetryInv, TypeInv, JobFields, Places
<1>2. job.pc = "mark" /\ records' = RetryFailed(job.errors) /\ attempts' = attempts BY DEF MarkErrors
<1>3. JobShape' BY <1>1, <1>2 DEF RetryInv, JobShape
<1>4. AllCharged'
  <2>1. SUFFICES ASSUME NEW u \in Usable
                 PROVE  /\ Charged(records'[u], attempts[u])
                        /\ u \in job.chunk \ (job.errors \cup job.deleted) => Ahead(records'[u], attempts[u])
    BY <1>1, <1>2 DEF AllCharged, InFlight
  <2>2. /\ u \in Urls /\ Charged(records[u], attempts[u])
        /\ u \in job.chunk => Ahead(records[u], attempts[u])
    BY <1>2 DEF RetryInv, AllCharged, InFlight, Usable
  <2>3. records[u] \in Record /\ attempts[u] \in 0..MaxRetries BY <2>2, UrlTyped DEF RetryInv
  <2>4. CASE u \in job.errors
    <3>1. u \in job.chunk BY <1>2, <2>4 DEF RetryInv, JobShape
    <3>2. Charged(records'[u], attempts[u])
      BY <1>2, <2>2, <2>3, <2>4, <3>1, RetryFailedCharges DEF RetryInv, TypeInv
    <3>3. QED BY <2>4, <3>2
  <2>5. CASE u \notin job.errors
    <3>1. records'[u] = records[u] BY <1>2, <2>2, <2>5, RetryFailedMarks
    <3>2. QED BY <2>2, <3>1 DEF Ahead, Charged
  <2>6. QED BY <2>4, <2>5
<1>5. QED BY <1>3, <1>4 DEF RetryInv

LEMMA RemoveRecordsRetry == ASSUME RetryInv, TypeInv', RemoveRecords PROVE RetryInv'
<1>1. /\ job'.pc = "missing" /\ job'.group = job.group /\ job'.todo = job.todo /\ job'.chunk = job.chunk
      /\ job'.errors = job.errors /\ job'.deleted = job.deleted
  BY ResumeType DEF RemoveRecords, RetryInv, TypeInv, JobFields, Places
<1>2. job.pc = "remove" BY DEF RemoveRecords
<1>3. JobShape' BY <1>1, <1>2 DEF RetryInv, JobShape
<1>4. AllCharged'
  <2>1. SUFFICES ASSUME NEW u \in Usable
                 PROVE  /\ Charged(records'[u], attempts'[u])
                        /\ u \in job.chunk \ (job.errors \cup job.deleted) => Ahead(records'[u], attempts'[u])
    BY <1>1 DEF AllCharged, InFlight
  <2>2. /\ u \in Urls /\ Charged(records[u], attempts[u])
        /\ u \in job.chunk \ (job.errors \cup job.deleted) => Ahead(records[u], attempts[u])
    BY <1>2 DEF RetryInv, AllCharged, InFlight, Usable
  <2>3. CASE u \in job.deleted
    <3>1. records'[u] = NoRecord /\ attempts'[u] = 0
      BY <2>2, <2>3 DEF RemoveRecords, Removable, Without
    <3>2. QED BY <2>3, <3>1, FreshCharges
  <2>4. CASE u \notin job.deleted
    <3>1. records'[u] = records[u] /\ attempts'[u] = attempts[u]
      BY <2>2, <2>4 DEF RemoveRecords, Removable, Without
    <3>2. QED BY <2>2, <3>1
  <2>5. QED BY <2>3, <2>4
<1>5. QED BY <1>3, <1>4 DEF RetryInv

LEMMA MarkMissingRetry == ASSUME RetryInv, TypeInv', MarkMissing PROVE RetryInv'
<1>1. /\ job'.pc = "chunks" /\ job'.group = job.group /\ job'.todo = job.todo
  BY ResumeType DEF MarkMissing, RetryInv, TypeInv, JobFields, Places
<1>2. /\ job.pc = "missing" /\ attempts' = attempts
      /\ records' = RetryFailed(job.chunk \ (job.deleted \cup job.errors))
  BY DEF MarkMissing
<1>3. JobShape' BY <1>1, <1>2 DEF RetryInv, JobShape
<1>4. AllCharged'
  <2>1. SUFFICES ASSUME NEW u \in Usable PROVE Charged(records'[u], attempts[u])
    BY <1>1, <1>2 DEF AllCharged, InFlight
  <2>2. /\ u \in Urls /\ Charged(records[u], attempts[u])
        /\ u \in job.chunk \ (job.errors \cup job.deleted) => Ahead(records[u], attempts[u])
    BY <1>2 DEF RetryInv, AllCharged, InFlight, Usable
  <2>3. records[u] \in Record /\ attempts[u] \in 0..MaxRetries BY <2>2, UrlTyped DEF RetryInv
  <2>4. CASE u \in job.chunk \ (job.deleted \cup job.errors)
    <3>1. Ahead(records[u], attempts[u]) BY <2>2, <2>4
    <3>2. QED BY <1>2, <2>2, <2>3, <2>4, <3>1, RetryFailedCharges DEF RetryInv, TypeInv
  <2>5. CASE u \notin job.chunk \ (job.deleted \cup job.errors)
    <3>1. records'[u] = records[u] BY <1>2, <2>2, <2>5, RetryFailedMarks
    <3>2. QED BY <2>2, <3>1
  <2>6. QED BY <2>4, <2>5
<1>5. QED BY <1>3, <1>4 DEF RetryInv

\* A record that is started over while its attempt is in flight will be charged with it.
LEMMA ScheduleUrlsRetry == ASSUME RetryInv, TypeInv', NEW S, ScheduleUrls(S) PROVE RetryInv'
<1>1. records' = Scheduled(S) /\ attempts' = AttemptsRestarted(S) /\ job' = job BY DEF ScheduleUrls
<1>2. JobShape' BY <1>1 DEF RetryInv, JobShape
<1>3. AllCharged'
  <2>1. SUFFICES ASSUME NEW u \in Usable
                 PROVE  /\ Charged(records'[u], attempts'[u])
                        /\ InFlight(u) => Ahead(records'[u], attempts'[u])
    BY <1>1 DEF AllCharged, InFlight
  <2>2. u \in Urls BY DEF Usable
  <2>3. CASE u \in S
    <3>1. records'[u] = NewRecord BY <1>1, <2>2, <2>3 DEF Scheduled
    <3>2. attempts'[u] = IF u \in job.chunk /\ job.pc \in {"mark", "remove", "missing"} THEN 1 ELSE 0
      BY <1>1, <2>2, <2>3 DEF AttemptsRestarted
    <3>3. InFlight(u) => attempts'[u] = 1 BY <3>2 DEF InFlight
    <3>4. attempts'[u] \in {0, 1} BY <3>2
    <3>5. QED BY <3>1, <3>3, <3>4, FreshCharges DEF Ahead, Charged, NewRecord
  <2>4. CASE u \notin S
    <3>1. records'[u] = records[u] /\ attempts'[u] = attempts[u]
      BY <1>1, <2>2, <2>4 DEF Scheduled, AttemptsRestarted
    <3>2. QED BY <3>1 DEF RetryInv, AllCharged
  <2>5. QED BY <2>3, <2>4
<1>4. QED BY <1>2, <1>3 DEF RetryInv

LEMMA TimePassesRetry == ASSUME RetryInv, TypeInv', NEW v \in Urls, TimePasses(v) PROVE RetryInv'
<1>1. job' = job /\ attempts' = attempts BY DEF TimePasses
<1>2. \A u \in Urls : /\ records'[u].retry_count = records[u].retry_count
                      /\ records'[u].status = records[u].status
  BY DEF TimePasses, RetryInv, TypeInv, Record
<1>3. AllCharged' BY <1>1, <1>2 DEF RetryInv, AllCharged, InFlight, Ahead, Charged, Usable
<1>4. QED BY <1>1, <1>3 DEF RetryInv, JobShape

LEMMA JobDiesRetry == ASSUME RetryInv, TypeInv', JobDies PROVE RetryInv'
<1>1. job'.pc = "idle" /\ job'.group = {} BY DEF JobDies, JobIdle
<1>2. JobShape' BY <1>1 DEF JobShape
<1>3. AllCharged' BY <1>1 DEF JobDies, RetryInv, AllCharged, InFlight
<1>4. QED BY <1>2, <1>3 DEF RetryInv

LEMMA RetryStep ==
  ASSUME GroupsFit, RetryInv, TypeInv', [UrlNext \/ \E S \in SUBSET Urls : ScheduleUrls(S)]_urlVars
  PROVE  RetryInv'
<1>1. CASE UNCHANGED urlVars
  BY <1>1 DEF urlVars, RetryInv, TypeInv, JobShape, AllCharged, InFlight
<1>2. CASE JobStep
  BY <1>2, StartBatchRetry, GetClientRetry, NextChunkRetry, DeleteManyRetry, DeleteManyRaisesRetry, MarkErrorsRetry,
     RemoveRecordsRetry, MarkMissingRetry DEF JobStep
<1>3. CASE JobDies BY <1>3, JobDiesRetry
<1>4. CASE \E u \in Urls : TimePasses(u) BY <1>4, TimePassesRetry
<1>5. CASE \E S \in SUBSET Urls : ScheduleUrls(S) BY <1>5, ScheduleUrlsRetry
<1>6. QED BY <1>1, <1>2, <1>3, <1>4, <1>5 DEF UrlNext

LEMMA RetryInitInv == UrlInit => RetryInv
<1>1. SUFFICES ASSUME UrlInit PROVE RetryInv OBVIOUS
<1>2. TypeInv BY <1>1, UrlInitInv DEF UrlInv
<1>3. job.pc = "idle" /\ job.group = {} BY <1>1 DEF UrlInit, JobIdle
<1>4. AllCharged BY <1>1, <1>3, FreshCharges DEF UrlInit, AllCharged, InFlight, Usable
<1>5. QED BY <1>2, <1>3, <1>4 DEF RetryInv, JobShape

\* A record is given up after max_retries attempts at the least, unless its url is unusable:
\* for any urls and storages whose groups fit one call (delete_urls marks the whole group
\* when a call raises), whatever fails, and although requests start records over while
\* attempts for them are under way.
THEOREM NoneGivenUpEarly == ASSUME GroupsFit PROVE UrlSpec => []GivenUpAfterRetries
<1>1. UrlInv /\ RetryInv /\ [UrlNext \/ \E S \in SUBSET Urls : ScheduleUrls(S)]_urlVars => RetryInv'
  BY UrlStep, RetryStep DEF UrlInv
<1>2. RetryInv => GivenUpAfterRetries
  <2>1. SUFFICES ASSUME RetryInv, NEW u \in Urls \ (Misconfigured \cup NoPath), records[u].status = "failed"
                 PROVE  attempts[u] >= MaxRetries
    BY DEF GivenUpAfterRetries
  <2>2. attempts[u] = MaxRetries BY <2>1 DEF RetryInv, AllCharged, Charged, Usable
  <2>3. QED BY <2>2, UrlsAssumption DEF UrlsAssumption
<1>3. QED BY <1>1, <1>2, RetryInitInv, UrlInvariance, PTL DEF UrlSpec

-----------------------------------------------------------------------------
(* The requests.                                                           *)

AnyCall == CallDoc \cup CleanupDoc

-----------------------------------------------------------------------------
(* What calls do to references and to files.                               *)

\* What no request has deleted together with the project.
Spared == {d \in Tasks \cup Models : emptied => d \notin InProject}

Detaches(k, c) == k.op = "detach_children" /\ tasks[c].parent \in k.tasks /\ (k.to = NoTask => c \notin InProject)
Redirects(k, m) ==
  \/ k.op \in {"set_model_task", "drop_models"} /\ m \in k.models
  \/ k.op = "orphan_models" /\ models[m].task \in k.tasks /\ m \notin InProject
Replaces(k, c, m) == k.op = "mark_inputs" /\ c \in k.tasks /\ m \in k.models
Empties(k, t) ==
  \/ k.op = "delete_task" /\ t \in k.tasks
  \/ k.op \in {"to_created", "to_created_forced"} /\ k.tasks = {t}
Drops(k, m) == k.op = "drop_models" /\ m \in k.models

(* Each file has one owner.  The files of a document are the model's, or the output       *)
(* artifacts of the task; deleting one of these urls or a folder of the project deletes   *)
(* no file of another document, and clients that keep the models keep the files.          *)
ArtifactsOf(t) == UNION {s.tasks[t].artifacts : s \in Starts}
ModelFiles == {Uri[m] : m \in Models}
FilesAreOwned ==
  /\ \A o \in Options : o.external => o.output_models
  /\ \A s \in Starts : /\ \A t \in Tasks : s.tasks[t].exists => s.tasks[t].artifacts \subseteq Files
                       /\ \A m \in Models : s.models[m].exists => Uri[m] \in Files
  /\ \A t \in Tasks : \A u \in ArtifactsOf(t) :
       Covers[u] \cap (ModelFiles \cup UNION {ArtifactsOf(c) : c \in Tasks \ {t}}) = {}
  /\ \A m \in Models : Covers[Uri[m]] \cap ({Uri[n] : n \in Models \ {m}} \cup UNION {ArtifactsOf(t) : t \in Tasks}) = {}
  /\ \A u \in {Uri[m] : m \in Models \cap InProject} \cup UNION {ArtifactsOf(t) : t \in Tasks \cap InProject} :
       Covers[Folder[u]] \cap ({Uri[m] : m \in Models \ InProject} \cup UNION {ArtifactsOf(t) : t \in Tasks \ InProject}) = {}

-----------------------------------------------------------------------------
(* The invariant.                                                          *)

(* K is what the requests so far leave of the tasks and models: Spared.      *)
TaskGoesLast(K, T, before) ==
  /\ \A c \in Tasks : tasks[c].exists /\ c \in K /\ tasks[c].parent \in T => \E b \in before : Detaches(b, c)
  /\ \A m \in Models : models[m].exists /\ m \in K /\ models[m].task \in T => \E b \in before : Redirects(b, m)

ModelsGoLast(K, M, before) ==
  \A c \in Tasks : \A m \in M :
    tasks[c].exists /\ c \in K /\ m \in tasks[c].inputs => \E b \in before : Replaces(b, c, m)

ReleasedLast(U, before) ==
  \A u \in U :
    /\ \A t \in Tasks : tasks[t].exists /\ Covers[u] \cap tasks[t].artifacts # {} => \E b \in before : Empties(b, t)
    /\ \A m \in Models : models[m].exists /\ Uri[m] \in Covers[u] => \E b \in before : Drops(b, m)

Safe(K, k, before) ==
  /\ k.op = "delete_task" => TaskGoesLast(K, k.tasks, before)
  /\ k.op = "drop_models" => ModelsGoLast(K, k.models, before)
  /\ k.op # "cleanup" /\ FilesAreOwned => ReleasedLast(k.urls, before \cup {k})

Earlier(s, i) == {s[j] : j \in 1..(i - 1)}
Ordered(K, s) == \A i \in 1..Len(s) : Safe(K, s[i], Earlier(s, i))

\* Calls that need nothing before them, and those that only such calls follow.
Free(k) == k.op \in {"cleanup", "schedule"} /\ (k.op = "schedule" => k.urls = {})
Separate(s) ==
  \A i, j \in 1..Len(s) :
    i < j /\ s[i].op \in {"cleanup", "to_created", "to_created_forced"} => Free(s[j])

\* The deletion of a task drops drafts, and no request that deletes tasks publishes.
DraftsOnly(s) ==
  (\E k \in ToSet(s) : k.op = "schedule") =>
    \A k \in ToSet(s) : /\ k.op # "set_ready"
                        /\ k.op = "drop_models" => \A m \in k.models : ~models[m].ready

\* Who collects urls deletes the models.
CarefulPlan(s) ==
  FilesAreOwned => \A k \in ToSet(s) : k.op = "cleanup" => (k.ask.collect => k.ask.output_models)

Plan == Ordered(Spared, todo) /\ Separate(todo) /\ DraftsOnly(todo) /\ CarefulPlan(todo)

References ==
  /\ \A t \in Tasks : tasks[t].exists /\ t \in Spared =>
       /\ \A m \in tasks[t].inputs \cap Models : models[m].exists
       /\ tasks[t].parent \in Tasks => tasks[tasks[t].parent].exists
  /\ \A m \in Models : models[m].exists /\ m \in Spared /\ models[m].task \in Tasks => tasks[models[m].task].exists

\* Urls on the way to the storage: recorded, or in the memory of the job.
Doomed == Recorded \cup job.group \cup job.todo \cup job.chunk

NotInUse(U) ==
  \A u \in U : /\ \A t \in Tasks : tasks[t].exists => Covers[u] \cap tasks[t].artifacts = {}
               /\ \A m \in Models : models[m].exists => Uri[m] \notin Covers[u]

FilesKept ==
  FilesAreOwned =>
    /\ \A t \in Tasks : tasks[t].artifacts \subseteq ArtifactsOf(t)
    /\ NotInUse(Doomed \cup urls)
    /\ \A t \in Tasks : tasks[t].exists => tasks[t].artifacts \subseteq files
    /\ \A m \in Models : models[m].exists => Uri[m] \in files

Documents ==
  /\ tasks \in [Tasks -> TaskDoc] /\ models \in [Models -> ModelDoc]
  /\ todo \in Seq(AnyCall) /\ urls \subseteq Urls
  /\ emptied \in BOOLEAN /\ asked \in 0..MaxRequests /\ stops \in 0..MaxStops

OutInv == UrlInv /\ Documents /\ Plan /\ References /\ FilesKept

-----------------------------------------------------------------------------
(* Sequences.                                                              *)

LEMMA ToSetOfSeq ==
  ASSUME NEW S, NEW s \in Seq(S)
  PROVE  ToSet(s) = {s[i] : i \in 1..Len(s)} /\ ToSet(s) \subseteq S
BY DEF ToSet

LEMMA ToSetOfOne == ASSUME NEW S, NEW x \in S PROVE <<x>> \in Seq(S) /\ ToSet(<<x>>) = {x}
BY DEF ToSet

LEMMA ToSetOfNone == ToSet(<<>>) = {} /\ \A S : <<>> \in Seq(S)
BY DEF ToSet

LEMMA ToSetOfConcat ==
  ASSUME NEW S, NEW s \in Seq(S), NEW t \in Seq(S)
  PROVE  s \o t \in Seq(S) /\ ToSet(s \o t) = ToSet(s) \cup ToSet(t)
<1>1. /\ s \o t \in Seq(S) /\ Len(s \o t) = Len(s) + Len(t)
      /\ \A i \in 1..Len(s) + Len(t) : (s \o t)[i] = IF i <= Len(s) THEN s[i] ELSE t[i - Len(s)]
  BY ConcatProperties
<1>2. Len(s) \in Nat /\ Len(t) \in Nat OBVIOUS
<1>3. ToSet(s \o t) = {(s \o t)[i] : i \in 1..Len(s) + Len(t)} BY <1>1, ToSetOfSeq
<1>4. ToSet(s) = {s[i] : i \in 1..Len(s)} /\ ToSet(t) = {t[i] : i \in 1..Len(t)} BY ToSetOfSeq
<1>5. ASSUME NEW i \in 1..Len(s) + Len(t) PROVE (s \o t)[i] \in ToSet(s) \cup ToSet(t)
  <2>1. CASE i <= Len(s) BY <1>1, <1>2, <1>4, <2>1
  <2>2. CASE i > Len(s) 
    <3>1. i - Len(s) \in 1..Len(t) BY <1>2, <2>2
    <3>2. QED BY <1>1, <1>2, <1>4, <2>2, <3>1
  <2>3. QED BY <1>2, <2>1, <2>2
<1>6. ASSUME NEW i \in 1..Len(s) PROVE s[i] \in ToSet(s \o t)
  <2>1. i \in 1..Len(s) + Len(t) /\ (s \o t)[i] = s[i] BY <1>1, <1>2
  <2>2. QED BY <1>3, <2>1
<1>7. ASSUME NEW i \in 1..Len(t) PROVE t[i] \in ToSet(s \o t)
  <2>1. i + Len(s) \in 1..Len(s) + Len(t) /\ ~(i + Len(s) <= Len(s)) /\ i + Len(s) - Len(s) = i BY <1>2
  <2>2. (s \o t)[i + Len(s)] = t[i] BY <1>1, <2>1
  <2>3. QED BY <1>3, <2>1, <2>2
<1>8. ToSet(s \o t) \subseteq ToSet(s) \cup ToSet(t) BY <1>3, <1>5
<1>9. ToSet(s) \cup ToSet(t) \subseteq ToSet(s \o t) BY <1>4, <1>6, <1>7
<1>10. QED BY <1>1, <1>8, <1>9

LEMMA ToSetOfTail ==
  ASSUME NEW S, NEW s \in Seq(S), s # <<>>
  PROVE  Tail(s) \in Seq(S) /\ ToSet(s) = {Head(s)} \cup ToSet(Tail(s)) /\ Head(s) = s[1]
<1>1. Len(s) \in Nat \ {0} BY EmptySeq
<1>2. /\ Tail(s) \in Seq(S) /\ Len(Tail(s)) = Len(s) - 1
      /\ \A i \in 1..Len(Tail(s)) : Tail(s)[i] = s[i + 1]
  BY HeadTailProperties
<1>3. ToSet(s) = {s[i] : i \in 1..Len(s)} /\ ToSet(Tail(s)) = {Tail(s)[i] : i \in 1..Len(Tail(s))}
  BY <1>2, ToSetOfSeq
<1>4. ASSUME NEW i \in 1..Len(s), i # 1 PROVE s[i] \in ToSet(Tail(s))
  <2>1. i - 1 \in 1..Len(Tail(s)) /\ (i - 1) + 1 = i BY <1>1, <1>2, <1>4
  <2>2. Tail(s)[i - 1] = s[i] BY <1>2, <2>1
  <2>3. QED BY <1>3, <2>1, <2>2
<1>5. ASSUME NEW i \in 1..Len(Tail(s)) PROVE Tail(s)[i] \in ToSet(s)
  <2>1. i + 1 \in 1..Len(s) BY <1>1, <1>2
  <2>2. QED BY <1>2, <1>3, <2>1
<1>6. Head(s) = s[1] /\ 1 \in 1..Len(s) BY <1>1
<1>7. QED BY <1>2, <1>3, <1>4, <1>5, <1>6

\* More calls before a call do no harm.
LEMMA SafeMore ==
  ASSUME NEW K, NEW k, NEW before, NEW more, before \subseteq more, Safe(K, k, before)
  PROVE  Safe(K, k, more)
BY DEF Safe, TaskGoesLast, ModelsGoLast, ReleasedLast

LEMMA SafeConcat ==
  ASSUME NEW K, NEW s \in Seq(AnyCall), NEW t \in Seq(AnyCall), Ordered(K, s),
         \A i \in 1..Len(t) : Safe(K, t[i], ToSet(s) \cup Earlier(t, i))
  PROVE  Ordered(K, s \o t)
<1>1. /\ Len(s \o t) = Len(s) + Len(t)
      /\ \A i \in 1..Len(s) + Len(t) : (s \o t)[i] = IF i <= Len(s) THEN s[i] ELSE t[i - Len(s)]
  BY ConcatProperties
<1>2. Len(s) \in Nat /\ Len(t) \in Nat OBVIOUS
<1>3. SUFFICES ASSUME NEW i \in 1..Len(s) + Len(t) PROVE Safe(K, (s \o t)[i], Earlier(s \o t, i))
  BY <1>1 DEF Ordered
<1>4. CASE i <= Len(s)
  <2>1. i \in 1..Len(s) /\ (s \o t)[i] = s[i] BY <1>1, <1>2, <1>4
  <2>2. \A j \in 1..(i - 1) : (s \o t)[j] = s[j] BY <1>1, <1>2, <1>4
  <2>3. Earlier(s \o t, i) = Earlier(s, i) BY <2>2 DEF Earlier
  <2>4. QED BY <2>1, <2>3 DEF Ordered
<1>5. CASE i > Len(s)
  <2>1. i - Len(s) \in 1..Len(t) /\ (s \o t)[i] = t[i - Len(s)] BY <1>1, <1>2, <1>5
  <2>2. ASSUME NEW j \in 1..Len(s) PROVE s[j] \in Earlier(s \o t, i)
    <3>1. j \in 1..(i - 1) /\ (s \o t)[j] = s[j] BY <1>1, <1>2, <1>5
    <3>2. QED BY <3>1 DEF Earlier
  <2>3. ASSUME NEW j \in 1..(i - Len(s) - 1) PROVE t[j] \in Earlier(s \o t, i)
    <3>1. /\ j + Len(s) \in 1..(i - 1) /\ j + Len(s) \in 1..Len(s) + Len(t) /\ ~(j + Len(s) <= Len(s))
          /\ j + Len(s) - Len(s) = j
      BY <1>2, <1>5
    <3>2. (s \o t)[j + Len(s)] = t[j] BY <1>1, <3>1
    <3>3. QED BY <3>1, <3>2 DEF Earlier
  <2>4. ToSet(s) = {s[j] : j \in 1..Len(s)} BY ToSetOfSeq
  <2>5. ToSet(s) \cup Earlier(t, i - Len(s)) \subseteq Earlier(s \o t, i) BY <2>2, <2>3, <2>4 DEF Earlier
  <2>6. QED BY <2>1, <2>5, SafeMore
<1>6. QED BY <1>2, <1>4, <1>5

\* A sequence of calls that are safe on their own, and one of calls for which the ones
\* before suffice.
LEMMA SafeAlone ==
  ASSUME NEW K, NEW s \in Seq(AnyCall), \A k \in ToSet(s) : Safe(K, k, {})
  PROVE  Ordered(K, s)
<1>1. \A i \in 1..Len(s) : s[i] \in ToSet(s) BY ToSetOfSeq
<1>2. QED BY <1>1, SafeMore DEF Ordered

LEMMA SafeAfter ==
  ASSUME NEW K, NEW s \in Seq(AnyCall), NEW t \in Seq(AnyCall), Ordered(K, s), \A k \in ToSet(t) : Safe(K, k, ToSet(s))
  PROVE  Ordered(K, s \o t)
<1>1. \A i \in 1..Len(t) : t[i] \in ToSet(t) BY ToSetOfSeq
<1>2. \A i \in 1..Len(t) : Safe(K, t[i], ToSet(s) \cup Earlier(t, i)) BY <1>1, SafeMore
<1>3. QED BY <1>2, SafeConcat

-----------------------------------------------------------------------------
(* Calls and the sequences they make.                                      *)

LEMMA CallIs ==
  ASSUME NEW op \in CallNames, NEW T \in SUBSET Tasks, NEW M \in SUBSET Models, NEW to \in {NoTask, DeletedTask}
  PROVE  /\ Call(op, T, M, to) \in AnyCall
         /\ Call(op, T, M, to).op = op /\ Call(op, T, M, to).tasks = T /\ Call(op, T, M, to).models = M
         /\ Call(op, T, M, to).to = to /\ Call(op, T, M, to).urls = {}
BY DEF Call, AnyCall, CallDoc

LEMMA ReleasingIs ==
  ASSUME NEW op \in CallNames, NEW T \in SUBSET Tasks, NEW U \in SUBSET Urls
  PROVE  /\ Releasing(op, T, U) \in AnyCall
         /\ Releasing(op, T, U).op = op /\ Releasing(op, T, U).tasks = T /\ Releasing(op, T, U).models = {}
         /\ Releasing(op, T, U).urls = U
BY DEF Releasing, AnyCall, CallDoc

CleanupOf(T, ask) == [op |-> "cleanup", tasks |-> T, ask |-> ask]

LEMMA CleanupIs ==
  ASSUME NEW T \in SUBSET Tasks, NEW ask \in AskDoc
  PROVE  /\ Cleanup(T, ask) \in Seq(AnyCall)
         /\ ToSet(Cleanup(T, ask)) \subseteq {CleanupOf(T, ask)}
         /\ CleanupOf(T, ask) \in AnyCall
         /\ CleanupOf(T, ask).op = "cleanup" /\ CleanupOf(T, ask).tasks = T /\ CleanupOf(T, ask).ask = ask
<1>1. CleanupOf(T, ask) \in AnyCall BY DEF CleanupOf, AnyCall, CleanupDoc
<1>2. <<CleanupOf(T, ask)>> \in Seq(AnyCall) /\ ToSet(<<CleanupOf(T, ask)>>) = {CleanupOf(T, ask)}
  BY <1>1, ToSetOfOne
<1>3. Cleanup(T, ask) = IF T = {} THEN <<>> ELSE <<CleanupOf(T, ask)>> BY DEF Cleanup, CleanupOf
<1>4. CASE T = {} BY <1>1, <1>3, <1>4, ToSetOfNone DEF CleanupOf
<1>5. CASE T # {} BY <1>1, <1>2, <1>3, <1>5 DEF CleanupOf
<1>6. QED BY <1>4, <1>5

LEMMA SetModelTaskIs ==
  ASSUME NEW M \in SUBSET Models, NEW to \in {NoTask, DeletedTask}
  PROVE  /\ SetModelTask(M, to) \in Seq(AnyCall)
         /\ ToSet(SetModelTask(M, to)) = IF M = {} THEN {} ELSE {Call("set_model_task", {}, M, to)}
<1>1. Call("set_model_task", {}, M, to) \in AnyCall BY CallIs DEF CallNames
<1>2. QED BY <1>1, ToSetOfOne, ToSetOfNone DEF SetModelTask

LEMMA DropModelsIs ==
  ASSUME NEW M \in SUBSET Models
  PROVE  /\ DropModels(M) \in Seq(AnyCall)
         /\ ToSet(DropModels(M)) = IF M = {} THEN {} ELSE {Call("drop_models", {}, M, NoTask)}
<1>1. Call("drop_models", {}, M, NoTask) \in AnyCall BY CallIs DEF CallNames
<1>2. QED BY <1>1, ToSetOfOne, ToSetOfNone DEF DropModels

Scheduling == Call("schedule", {}, {}, NoTask)

LEMMA ScheduleIs ==
  /\ Schedule \in Seq(AnyCall) /\ ToSet(Schedule) = {Scheduling}
  /\ Scheduling \in AnyCall /\ Scheduling.op = "schedule" /\ Scheduling.urls = {}
<1>1. Scheduling \in AnyCall /\ Scheduling.op = "schedule" /\ Scheduling.urls = {}
  BY DEF CallNames, Scheduling, Call, AnyCall, CallDoc
<1>2. Schedule = <<Scheduling>> BY DEF Schedule, Scheduling
<1>3. QED BY <1>1, <1>2, ToSetOfOne

LEMMA ScheduleAlsoIs ==
  ASSUME NEW U \in SUBSET Urls
  PROVE  /\ ScheduleAlso(U) \in Seq(AnyCall) /\ ToSet(ScheduleAlso(U)) = {Releasing("schedule_models", {}, U)}
<1>1. Releasing("schedule_models", {}, U) \in AnyCall BY ReleasingIs DEF CallNames
<1>2. QED BY <1>1, ToSetOfOne DEF ScheduleAlso

LEMMA Adding ==
  ASSUME NEW K, NEW s \in Seq(AnyCall), NEW t \in Seq(AnyCall), Ordered(K, s), \A k \in ToSet(t) : Safe(K, k, ToSet(s))
  PROVE  s \o t \in Seq(AnyCall) /\ ToSet(s \o t) = ToSet(s) \cup ToSet(t) /\ Ordered(K, s \o t)
BY ToSetOfConcat, SafeAfter

\* A call that neither deletes nor releases is safe.
LEMMA Harmless ==
  ASSUME NEW K, NEW k, NEW before, k.op \notin {"delete_task", "drop_models"}, k.op # "cleanup" => k.urls = {}
  PROVE  Safe(K, k, before)
BY DEF Safe, ReleasedLast

\* What matters of the calls that a request starts with.
Begins(K, s) ==
  /\ s \in Seq(AnyCall) /\ Ordered(K, s) /\ Separate(s) /\ DraftsOnly(s) /\ CarefulPlan(s)

\* Cleanups and what schedules the urls they release make a plan.
LEMMA CleanupsBegin ==
  ASSUME NEW K, NEW T \in SUBSET Tasks, NEW ask \in AskDoc, FilesAreOwned => (ask.collect => ask.output_models)
  PROVE  Begins(K, Cleanup(T, ask) \o Schedule)
<1> DEFINE s == Cleanup(T, ask) \o Schedule
<1>1. s \in Seq(AnyCall) /\ ToSet(s) \subseteq {CleanupOf(T, ask), Scheduling}
  <2>1. /\ Cleanup(T, ask) \in Seq(AnyCall) /\ ToSet(Cleanup(T, ask)) \subseteq {CleanupOf(T, ask)}
    BY CleanupIs
  <2>2. s \in Seq(AnyCall) /\ ToSet(s) = ToSet(Cleanup(T, ask)) \cup ToSet(Schedule)
    BY <2>1, ScheduleIs, ToSetOfConcat
  <2>3. QED BY <2>1, <2>2, ScheduleIs
<1> HIDE DEF s
<1>2. \A k \in ToSet(s) : /\ Free(k) /\ k.op \in {"cleanup", "schedule"}
                          /\ k.op = "cleanup" => k.ask = ask
  <2>1. /\ CleanupOf(T, ask).op = "cleanup" /\ CleanupOf(T, ask).ask = ask
        /\ Scheduling.op = "schedule" /\ Scheduling.urls = {}
    BY ScheduleIs DEF CleanupOf
  <2>2. QED BY <1>1, <2>1 DEF Free
<1>3. Ordered(K, s) BY <1>1, <1>2, Harmless, SafeAlone DEF Free
<1>4. Separate(s)
  <2>1. \A i \in 1..Len(s) : s[i] \in ToSet(s) BY <1>1, ToSetOfSeq
  <2>2. QED BY <1>2, <2>1 DEF Separate
<1>5. DraftsOnly(s) BY <1>2 DEF DraftsOnly
<1>6. CarefulPlan(s) BY <1>2 DEF CarefulPlan
<1>7. QED BY <1>1, <1>3, <1>4, <1>5, <1>6 DEF Begins, s

\* Without deletions, resets and deletions of documents there is little to say.
LEMMA PlainBegins ==
  ASSUME NEW K, NEW s \in Seq(AnyCall),
         \A k \in ToSet(s) : k.op \notin {"schedule", "cleanup", "to_created", "to_created_forced"}, Ordered(K, s)
  PROVE  Begins(K, s)
<1>1. \A i \in 1..Len(s) : s[i] \in ToSet(s) BY ToSetOfSeq
<1>2. QED BY <1>1 DEF Begins, Separate, DraftsOnly, CarefulPlan

LEMMA ToSetOfTwo == ASSUME NEW S, NEW x \in S, NEW y \in S PROVE <<x, y>> \in Seq(S) /\ ToSet(<<x, y>>) = {x, y}
BY DEF ToSet

LEMMA ToSetOfThree ==
  ASSUME NEW S, NEW x \in S, NEW y \in S, NEW z \in S
  PROVE  <<x, y, z>> \in Seq(S) /\ ToSet(<<x, y, z>>) = {x, y, z}
BY DEF ToSet

-----------------------------------------------------------------------------
(* The plans of requests.                                                  *)

LEMMA OwnFiles ==
  ASSUME FilesAreOwned, FilesKept
  PROVE  /\ \A m \in Models : /\ \A t \in Tasks : Covers[Uri[m]] \cap tasks[t].artifacts = {}
                              /\ \A n \in Models : Uri[n] \in Covers[Uri[m]] => n = m
         /\ \A t \in Tasks : \A u \in tasks[t].artifacts :
              /\ \A c \in Tasks : Covers[u] \cap tasks[c].artifacts # {} => c = t
              /\ \A m \in Models : Uri[m] \notin Covers[u]
<1>1. \A t \in Tasks : tasks[t].artifacts \subseteq ArtifactsOf(t) BY DEF FilesKept
<1>2. ASSUME NEW m \in Models, NEW t \in Tasks PROVE Covers[Uri[m]] \cap tasks[t].artifacts = {}
  <2>1. Covers[Uri[m]] \cap ArtifactsOf(t) = {} BY DEF FilesAreOwned
  <2>2. QED BY <1>1, <2>1
<1>3. ASSUME NEW m \in Models, NEW n \in Models, Uri[n] \in Covers[Uri[m]] PROVE n = m
  BY <1>3 DEF FilesAreOwned
<1>4. ASSUME NEW t \in Tasks, NEW u \in tasks[t].artifacts, NEW c \in Tasks, Covers[u] \cap tasks[c].artifacts # {}
      PROVE  c = t
  <2>1. u \in ArtifactsOf(t) BY <1>1
  <2>2. c # t => Covers[u] \cap ArtifactsOf(c) = {} BY <2>1 DEF FilesAreOwned
  <2>3. QED BY <1>1, <1>4, <2>2
<1>5. ASSUME NEW t \in Tasks, NEW u \in tasks[t].artifacts, NEW m \in Models PROVE Uri[m] \notin Covers[u]
  <2>1. u \in ArtifactsOf(t) BY <1>1
  <2>2. QED BY <2>1 DEF FilesAreOwned, ModelFiles
<1>6. QED BY <1>2, <1>3, <1>4, <1>5

\* What deletes models first says so in the tasks that have them.
LEMMA DeleteModelBegins ==
  ASSUME NEW K, Documents, FilesKept, NEW m \in LiveModels, NEW external \in BOOLEAN,
         NEW using, using = {t \in LiveTasks : m \in tasks[t].inputs}, NEW marked \in SUBSET Tasks,
         NEW pulled \in SUBSET Tasks
  PROVE  Begins(K,
           (IF using = {} THEN <<>> ELSE <<Call("mark_inputs", using, {m}, NoTask)>>)
           \o <<Call("mark_outputs", marked, {m}, NoTask), Call("pull_outputs", pulled, {m}, NoTask)>>
           \o DropModels({m}) \o (IF external THEN ScheduleAlso({Uri[m]}) ELSE <<>>))
<1> DEFINE mi == Call("mark_inputs", using, {m}, NoTask)
           mo == Call("mark_outputs", marked, {m}, NoTask)
           po == Call("pull_outputs", pulled, {m}, NoTask)
           dm == Call("drop_models", {}, {m}, NoTask)
           sc == Releasing("schedule_models", {}, {Uri[m]})
           first == IF using = {} THEN <<>> ELSE <<mi>>
           second == <<mo, po>>
           third == DropModels({m})
           fourth == IF external THEN ScheduleAlso({Uri[m]}) ELSE <<>>
<1>1. m \in Models /\ Uri[m] \in Urls /\ using \in SUBSET Tasks
  BY OutputsAssumption DEF OutputsAssumption, LiveModels, LiveTasks
<1>2. mi \in AnyCall /\ mi.op = "mark_inputs" /\ mi.tasks = using /\ mi.models = {m} /\ mi.urls = {}
  BY <1>1 DEF AnyCall, CallDoc, CallNames, Call
<1>3. mo \in AnyCall /\ mo.op = "mark_outputs" /\ mo.urls = {}
  BY <1>1 DEF AnyCall, CallDoc, CallNames, Call
<1>4. po \in AnyCall /\ po.op = "pull_outputs" /\ po.urls = {}
  BY <1>1 DEF AnyCall, CallDoc, CallNames, Call
<1>5. dm \in AnyCall /\ dm.op = "drop_models" /\ dm.models = {m} /\ dm.urls = {}
  BY <1>1 DEF AnyCall, CallDoc, CallNames, Call
<1>6. sc \in AnyCall /\ sc.op = "schedule_models" /\ sc.urls = {Uri[m]}
  BY <1>1 DEF AnyCall, CallDoc, CallNames, Releasing
<1>7. third \in Seq(AnyCall) /\ ToSet(third) = {dm} BY <1>1, DropModelsIs
<1>8. fourth \in Seq(AnyCall) /\ ToSet(fourth) = IF external THEN {sc} ELSE {}
  <2>1. ScheduleAlso({Uri[m]}) \in Seq(AnyCall) /\ ToSet(ScheduleAlso({Uri[m]})) = {sc}
    BY <1>1, ScheduleAlsoIs
  <2>2. QED BY <2>1, ToSetOfNone
<1> HIDE DEF mi, mo, po, dm, sc
<1>9. first \in Seq(AnyCall) /\ ToSet(first) = IF using = {} THEN {} ELSE {mi}
  BY <1>2, ToSetOfOne, ToSetOfNone
<1>10. second \in Seq(AnyCall) /\ ToSet(second) = {mo, po} BY <1>3, <1>4, ToSetOfTwo
<1> HIDE DEF first, second, third, fourth
<1> DEFINE two == first \o second
           three == two \o third
           all == three \o fourth
<1>11. two \in Seq(AnyCall) /\ ToSet(two) = ToSet(first) \cup ToSet(second) /\ Ordered(K, two)
  <2>1. \A k \in ToSet(first) : Safe(K, k, {}) BY <1>2, <1>9, Harmless
  <2>2. Ordered(K, first) BY <1>9, <2>1, SafeAlone
  <2>3. \A k \in ToSet(second) : Safe(K, k, ToSet(first)) BY <1>3, <1>4, <1>10, Harmless
  <2>4. QED BY <1>9, <1>10, <2>2, <2>3, Adding
<1> HIDE DEF two
<1>12. Safe(K, dm, ToSet(two))
  <2>1. ASSUME NEW c \in Tasks, tasks[c].exists, m \in tasks[c].inputs
        PROVE  \E b \in ToSet(two) : Replaces(b, c, m)
    <3>1. c \in using BY <2>1 DEF LiveTasks
    <3>2. mi \in ToSet(two) /\ Replaces(mi, c, m) BY <1>2, <1>9, <1>11, <3>1 DEF Replaces
    <3>3. QED BY <3>2
  <2>2. QED BY <1>5, <2>1 DEF Safe, ModelsGoLast, ReleasedLast
<1>13. three \in Seq(AnyCall) /\ ToSet(three) = ToSet(two) \cup ToSet(third) /\ Ordered(K, three)
  <2>1. \A k \in ToSet(third) : Safe(K, k, ToSet(two)) BY <1>7, <1>12
  <2>2. QED BY <1>7, <1>11, <2>1, Adding
<1> HIDE DEF three
<1>14. Safe(K, sc, ToSet(three))
  <2>1. SUFFICES ASSUME FilesAreOwned PROVE ReleasedLast({Uri[m]}, ToSet(three) \cup {sc})
    BY <1>6 DEF Safe
  <2>2. \A t \in Tasks : Covers[Uri[m]] \cap tasks[t].artifacts = {} BY <1>1, <2>1, OwnFiles
  <2>3. \A n \in Models : Uri[n] \in Covers[Uri[m]] => n = m BY <1>1, <2>1, OwnFiles
  <2>4. Drops(dm, m) /\ dm \in ToSet(three) BY <1>5, <1>7, <1>13 DEF Drops
  <2>5. QED BY <2>2, <2>3, <2>4 DEF ReleasedLast
<1>15. all \in Seq(AnyCall) /\ ToSet(all) = ToSet(three) \cup ToSet(fourth) /\ Ordered(K, all)
  BY <1>8, <1>13, <1>14, Adding
<1> HIDE DEF all
<1>16. \A k \in ToSet(all) : k.op \in {"mark_inputs", "mark_outputs", "pull_outputs", "drop_models", "schedule_models"}
  BY <1>2, <1>3, <1>4, <1>5, <1>6, <1>7, <1>8, <1>9, <1>10, <1>11, <1>13, <1>15
<1>17. Begins(K, all) BY <1>15, <1>16, PlainBegins
<1>18. QED BY <1>17 DEF all, three, two, first, second, third, fourth, mi, mo, po

ProjectCalls(ts, ms, outside, marked, pulled, external, U) ==
  (IF ms = {} THEN <<>>
   ELSE <<Call("mark_inputs", outside, ms, NoTask), Call("mark_outputs", marked, ms, NoTask),
          Call("pull_outputs", pulled, ms, NoTask)>>)
  \o DropModels(ms)
  \o (IF ts = {} THEN <<>>
      ELSE <<Call("detach_children", ts, {}, NoTask), Call("orphan_models", ts, {}, NoTask),
             Call("delete_task", ts, {}, NoTask)>>)
  \o (IF external THEN ScheduleAlso(U) ELSE <<>>)

\* With the contents of the project everything goes that is in it: what stays, K, is not.
LEMMA DeleteProjectBegins ==
  ASSUME NEW K, K \cap InProject = {}, Documents, FilesKept, NEW external \in BOOLEAN,
         NEW ts, ts = LiveTasks \cap InProject, NEW ms, ms = LiveModels \cap InProject,
         NEW outside, outside = LiveTasks \ InProject, NEW marked \in SUBSET Tasks, NEW pulled \in SUBSET Tasks,
         NEW U, U = {Folder[u] : u \in {Uri[m] : m \in ms} \cup UNION {tasks[t].artifacts : t \in ts}}
  PROVE  Begins(K, ProjectCalls(ts, ms, outside, marked, pulled, external, U))
<1> DEFINE mi == Call("mark_inputs", outside, ms, NoTask)
           mo == Call("mark_outputs", marked, ms, NoTask)
           po == Call("pull_outputs", pulled, ms, NoTask)
           dm == Call("drop_models", {}, ms, NoTask)
           dc == Call("detach_children", ts, {}, NoTask)
           om == Call("orphan_models", ts, {}, NoTask)
           dt == Call("delete_task", ts, {}, NoTask)
           sc == Releasing("schedule_models", {}, U)
           first == IF ms = {} THEN <<>> ELSE <<mi, mo, po>>
           second == DropModels(ms)
           third == IF ts = {} THEN <<>> ELSE <<dc, om, dt>>
           fourth == IF external THEN ScheduleAlso(U) ELSE <<>>
<1>1. ts \in SUBSET Tasks /\ ms \in SUBSET Models /\ outside \in SUBSET Tasks /\ U \in SUBSET Urls
  <2>1. \A t \in Tasks : tasks[t].artifacts \subseteq Urls BY DEF Documents, TaskDoc
  <2>2. \A m \in Models : Uri[m] \in Urls BY OutputsAssumption DEF OutputsAssumption
  <2>3. \A u \in Urls : Folder[u] \in Urls BY OutputsAssumption DEF OutputsAssumption
  <2>4. ts \subseteq Tasks /\ ms \subseteq Models /\ outside \subseteq Tasks BY DEF LiveTasks, LiveModels
  <2>5. QED BY <2>1, <2>2, <2>3, <2>4
<1>2. mi \in AnyCall /\ mi.op = "mark_inputs" /\ mi.tasks = outside /\ mi.models = ms /\ mi.urls = {}
  BY <1>1 DEF AnyCall, CallDoc, CallNames, Call
<1>3. mo \in AnyCall /\ mo.op = "mark_outputs" /\ mo.urls = {} BY <1>1 DEF AnyCall, CallDoc, CallNames, Call
<1>4. po \in AnyCall /\ po.op = "pull_outputs" /\ po.urls = {} BY <1>1 DEF AnyCall, CallDoc, CallNames, Call
<1>5. dm \in AnyCall /\ dm.op = "drop_models" /\ dm.models = ms /\ dm.urls = {}
  BY <1>1 DEF AnyCall, CallDoc, CallNames, Call
<1>6. dc \in AnyCall /\ dc.op = "detach_children" /\ dc.tasks = ts /\ dc.to = NoTask /\ dc.urls = {}
  BY <1>1 DEF AnyCall, CallDoc, CallNames, Call
<1>7. om \in AnyCall /\ om.op = "orphan_models" /\ om.tasks = ts /\ om.urls = {}
  BY <1>1 DEF AnyCall, CallDoc, CallNames, Call
<1>8. dt \in AnyCall /\ dt.op = "delete_task" /\ dt.tasks = ts /\ dt.urls = {}
  BY <1>1 DEF AnyCall, CallDoc, CallNames, Call
<1>9. sc \in AnyCall /\ sc.op = "schedule_models" /\ sc.urls = U
  BY <1>1 DEF AnyCall, CallDoc, CallNames, Releasing
<1>10. second \in Seq(AnyCall) /\ ToSet(second) = IF ms = {} THEN {} ELSE {dm} BY <1>1, DropModelsIs
<1>11. fourth \in Seq(AnyCall) /\ ToSet(fourth) = IF external THEN {sc} ELSE {}
  <2>1. ScheduleAlso(U) \in Seq(AnyCall) /\ ToSet(ScheduleAlso(U)) = {sc} BY <1>1, ScheduleAlsoIs
  <2>2. QED BY <2>1, ToSetOfNone
<1> HIDE DEF mi, mo, po, dm, dc, om, dt, sc
<1>12. first \in Seq(AnyCall) /\ ToSet(first) = IF ms = {} THEN {} ELSE {mi, mo, po}
  <2>1. <<mi, mo, po>> \in Seq(AnyCall) /\ ToSet(<<mi, mo, po>>) = {mi, mo, po}
    BY <1>2, <1>3, <1>4, ToSetOfThree
  <2>2. QED BY <2>1, ToSetOfNone
<1> DEFINE final == <<dc, om, dt>>
<1>13. final \in Seq(AnyCall) /\ ToSet(final) = {dc, om, dt} /\ Len(final) = 3
       /\ final[1] = dc /\ final[2] = om /\ final[3] = dt
  BY <1>6, <1>7, <1>8, ToSetOfThree
<1> HIDE DEF final
<1>14. third \in Seq(AnyCall) /\ ToSet(third) = IF ts = {} THEN {} ELSE {dc, om, dt}
  BY <1>13, ToSetOfNone DEF final
<1> HIDE DEF first, second, fourth
<1> DEFINE two == first \o second
           three == two \o third
           all == three \o fourth
<1>15. two \in Seq(AnyCall) /\ ToSet(two) = ToSet(first) \cup ToSet(second) /\ Ordered(K, two)
  <2>1. \A k \in ToSet(first) : Safe(K, k, {}) BY <1>2, <1>3, <1>4, <1>12, Harmless
  <2>2. Ordered(K, first) BY <1>12, <2>1, SafeAlone
  <2>3. ASSUME ms # {} PROVE Safe(K, dm, ToSet(first))
    <3>1. ASSUME NEW c \in Tasks, NEW m \in ms, tasks[c].exists, c \in K
          PROVE  \E b \in ToSet(first) : Replaces(b, c, m)
      <4>1. c \in outside BY <3>1 DEF LiveTasks
      <4>2. mi \in ToSet(first) /\ Replaces(mi, c, m) BY <1>2, <1>12, <2>3, <4>1 DEF Replaces
      <4>3. QED BY <4>2
    <3>2. QED BY <1>5, <3>1 DEF Safe, ModelsGoLast, ReleasedLast
  <2>4. \A k \in ToSet(second) : Safe(K, k, ToSet(first)) BY <1>10, <2>3
  <2>5. QED BY <1>10, <1>12, <2>2, <2>4, Adding
<1> HIDE DEF two
<1>16. Safe(K, dt, {dc, om})
  <2>1. ASSUME NEW c \in Tasks, c \in K, tasks[c].parent \in ts PROVE Detaches(dc, c)
    BY <1>6, <2>1 DEF Detaches
  <2>2. ASSUME NEW m \in Models, m \in K, models[m].task \in ts PROVE Redirects(om, m)
    BY <1>7, <2>2 DEF Redirects
  <2>3. QED BY <1>8, <2>1, <2>2 DEF Safe, TaskGoesLast, ReleasedLast
<1>17. three \in Seq(AnyCall) /\ ToSet(three) = ToSet(two) \cup ToSet(third) /\ Ordered(K, three)
  <2>1. ASSUME ts # {}, NEW i \in 1..Len(third) PROVE Safe(K, third[i], ToSet(two) \cup Earlier(third, i))
    <3>1. third = final BY <2>1 DEF final
    <3>2. i \in {1, 2, 3} BY <1>13, <3>1
    <3>3. CASE i \in {1, 2} BY <1>6, <1>7, <1>13, <3>1, <3>3, Harmless
    <3>4. CASE i = 3
      <4>1. {dc, om} \subseteq Earlier(third, i) BY <1>13, <3>1, <3>4 DEF Earlier
      <4>2. Safe(K, dt, ToSet(two) \cup Earlier(third, i)) BY <1>16, <4>1, SafeMore
      <4>3. QED BY <1>13, <3>1, <3>4, <4>2
    <3>5. QED BY <3>2, <3>3, <3>4
  <2>2. ASSUME ts = {}, NEW i \in 1..Len(third) PROVE FALSE BY <2>2
  <2>3. \A i \in 1..Len(third) : Safe(K, third[i], ToSet(two) \cup Earlier(third, i)) BY <2>1, <2>2
  <2> HIDE DEF third
  <2>4. Ordered(K, three) BY <1>14, <1>15, <2>3, SafeConcat
  <2>5. QED BY <1>14, <1>15, <2>4, ToSetOfConcat
<1> HIDE DEF three, third
<1>18. Safe(K, sc, ToSet(three))
  <2>1. SUFFICES ASSUME FilesAreOwned, NEW u \in U PROVE ReleasedLast({u}, ToSet(three) \cup {sc})
    BY <1>9 DEF Safe, ReleasedLast
  <2>2. PICK v \in {Uri[m] : m \in ms} \cup UNION {tasks[t].artifacts : t \in ts} : u = Folder[v] BY <2>1
  <2>3. \A t \in Tasks : tasks[t].artifacts \subseteq ArtifactsOf(t) BY <2>1 DEF FilesKept
  <2>4. v \in {Uri[m] : m \in Models \cap InProject} \cup UNION {ArtifactsOf(t) : t \in Tasks \cap InProject}
    <3>1. CASE v \in {Uri[m] : m \in ms} BY <1>1, <3>1
    <3>2. CASE v \in UNION {tasks[t].artifacts : t \in ts} BY <1>1, <2>3, <3>2
    <3>3. QED BY <2>2, <3>1, <3>2
  <2>5. Covers[u] \cap ({Uri[m] : m \in Models \ InProject} \cup UNION {ArtifactsOf(t) : t \in Tasks \ InProject}) = {}
    BY <2>1, <2>2, <2>4 DEF FilesAreOwned
  <2>6. ASSUME NEW t \in Tasks, tasks[t].exists, Covers[u] \cap tasks[t].artifacts # {}
        PROVE  \E b \in ToSet(three) : Empties(b, t)
    <3>1. t \in InProject
      <4>1. Covers[u] \cap ArtifactsOf(t) # {} BY <2>3, <2>6
      <4>2. QED BY <2>5, <4>1
    <3>2. t \in ts BY <2>6, <3>1 DEF LiveTasks
    <3>3. dt \in ToSet(three) /\ Empties(dt, t) BY <1>8, <1>14, <1>17, <3>2 DEF Empties
    <3>4. QED BY <3>3
  <2>7. ASSUME NEW m \in Models, models[m].exists, Uri[m] \in Covers[u]
        PROVE  \E b \in ToSet(three) : Drops(b, m)
    <3>1. m \in InProject BY <2>5, <2>7
    <3>2. m \in ms BY <2>7, <3>1 DEF LiveModels
    <3>3. dm \in ToSet(three) /\ Drops(dm, m) BY <1>5, <1>10, <1>15, <1>17, <3>2 DEF Drops
    <3>4. QED BY <3>3
  <2>8. QED BY <2>6, <2>7 DEF ReleasedLast
<1>19. all \in Seq(AnyCall) /\ ToSet(all) = ToSet(three) \cup ToSet(fourth) /\ Ordered(K, all)
  <2>1. \A k \in ToSet(fourth) : Safe(K, k, ToSet(three)) BY <1>11, <1>18
  <2>2. QED BY <1>11, <1>17, <2>1, Adding
<1> HIDE DEF all
<1>20. \A k \in ToSet(all) :
         k.op \in {"mark_inputs", "mark_outputs", "pull_outputs", "drop_models", "detach_children", "orphan_models",
                   "delete_task", "schedule_models"}
  BY <1>2, <1>3, <1>4, <1>5, <1>6, <1>7, <1>8, <1>9, <1>10, <1>11, <1>12, <1>14, <1>15, <1>17, <1>19
<1>21. Begins(K, all) BY <1>19, <1>20, PlainBegins
<1>22. QED BY <1>21 DEF ProjectCalls, all, three, two, first, second, third, fourth, mi, mo, po, dc, om, dt

\* Publishing deletes nothing.
LEMMA PublishCallsAre ==
  ASSUME Documents, NEW t \in Tasks, NEW with_model \in BOOLEAN
  PROVE  /\ PublishCalls(t, with_model) \in Seq(AnyCall)
         /\ \A k \in ToSet(PublishCalls(t, with_model)) :
              k.op \in {"publishing", "set_ready", "published"} /\ k.urls = {}
<1> DEFINE last == IF tasks[t].outputs = <<>> THEN {} ELSE {Last(tasks[t].outputs)} \cap LiveModels
           pg == Call("publishing", {t}, {}, NoTask)
           sr == Call("set_ready", {}, last, NoTask)
           pd == Call("published", {t}, {}, NoTask)
           middle == IF with_model /\ \E m \in last : ~models[m].ready THEN <<sr>> ELSE <<>>
<1>1. last \in SUBSET Models BY DEF LiveModels
<1> HIDE DEF last
<1>2. pg \in AnyCall /\ pg.op = "publishing" /\ pg.urls = {} BY DEF AnyCall, CallDoc, CallNames, Call
<1>3. sr \in AnyCall /\ sr.op = "set_ready" /\ sr.urls = {} BY <1>1 DEF AnyCall, CallDoc, CallNames, Call
<1>4. pd \in AnyCall /\ pd.op = "published" /\ pd.urls = {} BY DEF AnyCall, CallDoc, CallNames, Call
<1> HIDE DEF pg, sr, pd
<1> DEFINE begin == <<pg>>
           end == <<pd>>
           two == begin \o middle
           all == two \o end
<1>5. begin \in Seq(AnyCall) /\ ToSet(begin) = {pg} BY <1>2, ToSetOfOne
<1>6. end \in Seq(AnyCall) /\ ToSet(end) = {pd} BY <1>4, ToSetOfOne
<1>7. middle \in Seq(AnyCall) /\ ToSet(middle) \subseteq {sr} BY <1>3, ToSetOfOne, ToSetOfNone
<1> HIDE DEF begin, middle, end
<1>8. two \in Seq(AnyCall) /\ ToSet(two) = ToSet(begin) \cup ToSet(middle) BY <1>5, <1>7, ToSetOfConcat
<1> HIDE DEF two
<1>9. all \in Seq(AnyCall) /\ ToSet(all) = ToSet(two) \cup ToSet(end) BY <1>6, <1>8, ToSetOfConcat
<1> HIDE DEF all
<1>10. PublishCalls(t, with_model) = all BY DEF PublishCalls, all, two, begin, middle, end, pg, sr, pd, last
<1>11. QED BY <1>2, <1>3, <1>4, <1>5, <1>6, <1>7, <1>8, <1>9, <1>10

LEMMA PublishBegins ==
  ASSUME NEW K, NEW s \in Seq(AnyCall),
         \A k \in ToSet(s) : k.op \in {"publishing", "set_ready", "published"} /\ k.urls = {}
  PROVE  Begins(K, s)
<1>1. Ordered(K, s) BY Harmless, SafeAlone
<1>2. QED BY <1>1, PlainBegins

-----------------------------------------------------------------------------
(* Requests.                                                               *)

LEMMA PlanKept ==
  ASSUME UNCHANGED <<tasks, models>>, Begins(Spared', todo')
  PROVE  Plan'
<1>1. FilesAreOwned' = FilesAreOwned BY DEF FilesAreOwned, ArtifactsOf, ModelFiles
<1>2. \A T, before : TaskGoesLast(Spared', T, before) => TaskGoesLast(Spared, T, before)'
  BY DEF TaskGoesLast, Detaches, Redirects
<1>3. \A M, before : ModelsGoLast(Spared', M, before) => ModelsGoLast(Spared, M, before)'
  BY DEF ModelsGoLast, Replaces
<1>4. \A U, before : ReleasedLast(U, before) => ReleasedLast(U, before)'
  BY DEF ReleasedLast, Empties, Drops
<1>5. \A k, before : Safe(Spared', k, before) => Safe(Spared, k, before)'
  BY <1>1, <1>2, <1>3, <1>4 DEF Safe
<1>6. Ordered(Spared, todo)' BY <1>5 DEF Begins, Ordered, Earlier
<1>7. Separate(todo)' BY DEF Begins, Separate, Free
<1>8. DraftsOnly(todo)' BY DEF Begins, DraftsOnly
<1>9. CarefulPlan(todo)' BY <1>1 DEF Begins, CarefulPlan
<1>10. QED BY <1>6, <1>7, <1>8, <1>9 DEF Plan

LEMMA BeginsKeeps ==
  ASSUME OutInv, NEW s, Begin(s), UNCHANGED <<tasks, models>>, Begins(Spared', s), emptied' \in BOOLEAN,
         emptied => emptied'
  PROVE  OutInv'
<1>1. UNCHANGED urlVars /\ urls' = {} /\ todo' = s /\ stops' = stops /\ asked' = asked + 1 /\ asked < MaxRequests
  BY DEF Begin, MayAsk
<1>2. UrlInv' BY <1>1, UrlStep DEF OutInv
<1>3. Documents' BY <1>1, OutputsAssumption DEF OutputsAssumption, OutInv, Documents, Begins
<1>4. Plan' BY <1>1, PlanKept
<1>5. References' BY DEF OutInv, References, Spared
<1>6. FilesKept'
  <2>1. Doomed' = Doomed BY <1>1 DEF Doomed, urlVars, Recorded
  <2>2. QED BY <1>1, <2>1 DEF OutInv, FilesKept, FilesAreOwned, ArtifactsOf, ModelFiles, NotInUse, urlVars
<1>7. QED BY <1>2, <1>3, <1>4, <1>5, <1>6 DEF OutInv

\* The request drops only what it is allowed to: with the flags of a careful client.
LEMMA AskIs ==
  ASSUME NEW force \in BOOLEAN, NEW steps \in BOOLEAN, NEW o \in Options,
         NEW last \in {"delete_task", "to_created", "to_created_forced"},
         NEW ask, ask = [force |-> force, steps |-> steps, collect |-> o.external,
                         output_models |-> o.output_models, last |-> last]
  PROVE  ask \in AskDoc /\ (FilesAreOwned => (ask.collect => ask.output_models))
<1>1. o.external \in BOOLEAN /\ o.output_models \in BOOLEAN BY OutputsAssumption DEF OutputsAssumption
<1>2. ask \in AskDoc BY <1>1 DEF AskDoc
<1>3. ask.collect = o.external /\ ask.output_models = o.output_models OBVIOUS
<1>4. QED BY <1>2, <1>3 DEF FilesAreOwned

LEMMA DeleteTasksInv ==
  ASSUME OutInv, NEW T \in SUBSET Tasks, NEW force \in BOOLEAN, NEW steps \in BOOLEAN, NEW o \in Options,
         DeleteTasks(T, force, steps, o)
  PROVE  OutInv'
<1> DEFINE ask == [force |-> force, steps |-> steps, collect |-> o.external, output_models |-> o.output_models,
                   last |-> "delete_task"]
<1>1. ask \in AskDoc /\ (FilesAreOwned => (ask.collect => ask.output_models)) BY AskIs
<1>2. Begin(Cleanup(T, ask) \o Schedule) /\ UNCHANGED <<tasks, models, emptied>> BY DEF DeleteTasks
<1> HIDE DEF ask
<1>3. Begins(Spared', Cleanup(T, ask) \o Schedule) BY <1>1, CleanupsBegin
<1>4. emptied' \in BOOLEAN /\ (emptied => emptied') BY <1>2 DEF OutInv, Documents
<1>5. QED BY <1>2, <1>3, <1>4, BeginsKeeps

LEMMA ResetTasksInv ==
  ASSUME OutInv, NEW T \in SUBSET Tasks, NEW force \in BOOLEAN, NEW o \in Options, ResetTasks(T, force, o)
  PROVE  OutInv'
<1> DEFINE last == IF force THEN "to_created_forced" ELSE "to_created"
           ask == [force |-> force, steps |-> FALSE, collect |-> o.external, output_models |-> o.output_models,
                   last |-> last]
<1>1. ask \in AskDoc /\ (FilesAreOwned => (ask.collect => ask.output_models)) BY AskIs
<1>2. Begin(Cleanup(T, ask) \o Schedule) /\ UNCHANGED <<tasks, models, emptied>> BY DEF ResetTasks
<1> HIDE DEF ask
<1>3. Begins(Spared', Cleanup(T, ask) \o Schedule) BY <1>1, CleanupsBegin
<1>4. emptied' \in BOOLEAN /\ (emptied => emptied') BY <1>2 DEF OutInv, Documents
<1>5. QED BY <1>2, <1>3, <1>4, BeginsKeeps

LEMMA DeleteModelInv ==
  ASSUME OutInv, NEW m \in Models, NEW force \in BOOLEAN, NEW o \in Options, DeleteModel(m, force, o)
  PROVE  OutInv'
<1> DEFINE using == {t \in LiveTasks : m \in tasks[t].inputs}
           producer == {t \in LiveTasks : t = models[m].task}
           frozen == {t \in producer : tasks[t].status = published}
           pulled == producer \ frozen
           s == (IF using = {} THEN <<>> ELSE <<Call("mark_inputs", using, {m}, NoTask)>>)
                \o <<Call("mark_outputs", frozen, {m}, NoTask), Call("pull_outputs", pulled, {m}, NoTask)>>
                \o DropModels({m}) \o (IF o.external THEN ScheduleAlso({Uri[m]}) ELSE <<>>)
<1>1. Begin(s) /\ UNCHANGED <<tasks, models, emptied>> /\ m \in LiveModels BY DEF DeleteModel
<1>2. o.external \in BOOLEAN /\ frozen \in SUBSET Tasks /\ pulled \in SUBSET Tasks
  BY OutputsAssumption DEF OutputsAssumption, LiveTasks
<1>3. using = {t \in LiveTasks : m \in tasks[t].inputs} OBVIOUS
<1> HIDE DEF using, frozen, pulled, producer
<1>4. Begins(Spared', s) BY <1>1, <1>2, <1>3, DeleteModelBegins DEF OutInv
<1> HIDE DEF s
<1>5. emptied' \in BOOLEAN /\ (emptied => emptied') BY <1>1 DEF OutInv, Documents
<1>6. QED BY <1>1, <1>4, <1>5, BeginsKeeps

LEMMA DeleteProjectInv ==
  ASSUME OutInv, NEW force \in BOOLEAN, NEW o \in Options, DeleteProject(force, o)
  PROVE  OutInv'
<1> DEFINE ts == LiveTasks \cap InProject
           ms == LiveModels \cap InProject
           outside == LiveTasks \ InProject
           makers == {t \in outside : \E m \in ms : models[m].task = t}
           frozen == {t \in makers : tasks[t].status = published}
           pulled == makers \ frozen
           U == {Folder[u] : u \in {Uri[m] : m \in ms} \cup UNION {tasks[t].artifacts : t \in ts}}
           s == ProjectCalls(ts, ms, outside, frozen, pulled, o.external, U)
<1>1. Begin(s) /\ UNCHANGED <<tasks, models>> /\ emptied' = TRUE BY DEF DeleteProject, ProjectCalls
<1>2. o.external \in BOOLEAN /\ frozen \in SUBSET Tasks /\ pulled \in SUBSET Tasks
  BY OutputsAssumption DEF OutputsAssumption, LiveTasks
<1>3. /\ ts = LiveTasks \cap InProject /\ ms = LiveModels \cap InProject /\ outside = LiveTasks \ InProject
      /\ U = {Folder[u] : u \in {Uri[m] : m \in ms} \cup UNION {tasks[t].artifacts : t \in ts}}
  OBVIOUS
<1>4. Spared' \cap InProject = {} BY <1>1 DEF Spared
<1> HIDE DEF ts, ms, outside, makers, frozen, pulled, U
<1>5. Documents /\ FilesKept BY DEF OutInv
<1>6. Begins(Spared', s) BY <1>2, <1>3, <1>4, <1>5, DeleteProjectBegins
<1> HIDE DEF s
<1>7. QED BY <1>1, <1>6, BeginsKeeps

LEMMA PublishTaskInv ==
  ASSUME OutInv, NEW t \in Tasks, NEW force \in BOOLEAN, NEW with_model \in BOOLEAN, PublishTask(t, force, with_model)
  PROVE  OutInv'
<1>1. Begin(PublishCalls(t, with_model)) /\ UNCHANGED <<tasks, models, emptied>> BY DEF PublishTask
<1>2. Begins(Spared', PublishCalls(t, with_model)) BY PublishCallsAre, PublishBegins DEF OutInv
<1>3. emptied' \in BOOLEAN /\ (emptied => emptied') BY <1>1 DEF OutInv, Documents
<1>4. QED BY <1>1, <1>2, <1>3, BeginsKeeps

LEMMA PublishModelInv ==
  ASSUME OutInv, NEW m \in Models, NEW force \in BOOLEAN, NEW with_task \in BOOLEAN, PublishModel(m, force, with_task)
  PROVE  OutInv'
<1> DEFINE t == models[m].task
           first == with_task /\ t \in LiveTasks /\ tasks[t].status # published
           sr == Call("set_ready", {}, {m}, NoTask)
           before == IF first THEN PublishCalls(t, FALSE) ELSE <<>>
           after == <<sr>>
           s == before \o after
<1>1. Begin(s) /\ UNCHANGED <<tasks, models, emptied>> BY DEF PublishModel
<1>2. sr \in AnyCall /\ sr.op = "set_ready" /\ sr.urls = {} BY DEF AnyCall, CallDoc, CallNames, Call
<1> HIDE DEF sr
<1>3. after \in Seq(AnyCall) /\ ToSet(after) = {sr} BY <1>2, ToSetOfOne
<1>4. /\ before \in Seq(AnyCall)
      /\ \A k \in ToSet(before) : k.op \in {"publishing", "set_ready", "published"} /\ k.urls = {}
  <2>1. CASE first
    <3>1. t \in Tasks BY <2>1 DEF LiveTasks
    <3> HIDE DEF t
    <3>2. QED BY <2>1, <3>1, PublishCallsAre DEF OutInv
  <2>2. CASE ~first BY <2>2, ToSetOfNone
  <2>3. QED BY <2>1, <2>2
<1> HIDE DEF before, after
<1>5. s \in Seq(AnyCall) /\ ToSet(s) = ToSet(before) \cup ToSet(after) BY <1>3, <1>4, ToSetOfConcat
<1> HIDE DEF s
<1>6. Begins(Spared', s) BY <1>2, <1>3, <1>4, <1>5, PublishBegins
<1>7. emptied' \in BOOLEAN /\ (emptied => emptied') BY <1>1 DEF OutInv, Documents
<1>8. QED BY <1>1, <1>6, <1>7, BeginsKeeps

-----------------------------------------------------------------------------
(* Calls.                                                                  *)

\* What a call may do to the documents: it brings nothing back, and no more goes than it says.
Corrects ==
  /\ \A c \in Tasks : tasks'[c].exists =>
       /\ tasks[c].exists
       /\ tasks'[c].parent \in Tasks => tasks'[c].parent = tasks[c].parent /\ ~Detaches(now, c)
       /\ \A m \in Models : m \in tasks'[c].inputs => m \in tasks[c].inputs /\ ~Replaces(now, c, m)
       /\ Empties(now, c) => tasks'[c].artifacts = {}
  /\ \A c \in Tasks : tasks'[c].artifacts \subseteq tasks[c].artifacts
  /\ \A m \in Models : models'[m].exists =>
       /\ models[m].exists /\ ~Drops(now, m)
       /\ models'[m].task \in Tasks => models'[m].task = models[m].task /\ ~Redirects(now, m)
  /\ \A m \in Models : models'[m].ready => models[m].ready \/ now.op = "set_ready"

DeletesOnly ==
  /\ \A c \in Tasks : tasks[c].exists /\ ~tasks'[c].exists => now.op = "delete_task" /\ c \in now.tasks
  /\ \A m \in Models : models[m].exists /\ ~models'[m].exists => Drops(now, m)

LEMMA Now ==
  ASSUME OutInv, todo # <<>>
  PROVE  /\ now \in AnyCall /\ now \in ToSet(todo) /\ Safe(Spared, now, {}) /\ now = todo[1]
         /\ Tail(todo) \in Seq(AnyCall) /\ Len(Tail(todo)) = Len(todo) - 1 /\ Len(todo) \in Nat \ {0}
         /\ \A i \in 1..Len(Tail(todo)) : Tail(todo)[i] = todo[i + 1]
         /\ ToSet(Tail(todo)) \subseteq ToSet(todo)
<1>1. todo \in Seq(AnyCall) BY DEF OutInv, Documents
<1>2. /\ Tail(todo) \in Seq(AnyCall) /\ Len(Tail(todo)) = Len(todo) - 1 /\ Len(todo) \in Nat \ {0}
      /\ \A i \in 1..Len(Tail(todo)) : Tail(todo)[i] = todo[i + 1]
      /\ now \in AnyCall
  BY <1>1, HeadTailProperties, EmptySeq DEF now
<1>3. now = todo[1] /\ ToSet(todo) = {now} \cup ToSet(Tail(todo)) BY <1>1, ToSetOfTail DEF now
<1>4. Safe(Spared, todo[1], Earlier(todo, 1)) BY <1>2 DEF OutInv, Plan, Ordered
<1>5. Earlier(todo, 1) = {} BY DEF Earlier
<1>6. QED BY <1>2, <1>3, <1>4, <1>5

LEMMA SafeNext ==
  ASSUME Corrects, emptied' = emptied, NEW k \in AnyCall, NEW before, Safe(Spared, k, before \cup {now})
  PROVE  Safe(Spared, k, before)'
<1>1. FilesAreOwned' = FilesAreOwned BY DEF FilesAreOwned, ArtifactsOf, ModelFiles
<1>2. Spared' = Spared BY DEF Spared
<1>3. k.op \in {"delete_task", "drop_models"} => k.tasks \subseteq Tasks /\ k.models \subseteq Models
  BY DEF AnyCall, CallDoc, CleanupDoc
<1>4. ASSUME NEW T, T \subseteq Tasks, TaskGoesLast(Spared, T, before \cup {now})
      PROVE  TaskGoesLast(Spared, T, before)'
  <2>1. ASSUME NEW c \in Tasks, tasks'[c].exists, c \in Spared, tasks'[c].parent \in T
        PROVE  \E b \in before : Detaches(b, c)'
    <3>1. tasks[c].exists /\ tasks[c].parent = tasks'[c].parent /\ ~Detaches(now, c) BY <1>4, <2>1 DEF Corrects
    <3>2. PICK b \in before : Detaches(b, c) BY <1>4, <2>1, <3>1 DEF TaskGoesLast
    <3>3. QED BY <3>1, <3>2 DEF Detaches
  <2>2. ASSUME NEW m \in Models, models'[m].exists, m \in Spared, models'[m].task \in T
        PROVE  \E b \in before : Redirects(b, m)'
    <3>1. models[m].exists /\ models[m].task = models'[m].task /\ ~Redirects(now, m) BY <1>4, <2>2 DEF Corrects
    <3>2. PICK b \in before : Redirects(b, m) BY <1>4, <2>2, <3>1 DEF TaskGoesLast
    <3>3. QED BY <3>1, <3>2 DEF Redirects
  <2>3. QED BY <1>2, <2>1, <2>2 DEF TaskGoesLast
<1>5. ASSUME NEW M, M \subseteq Models, ModelsGoLast(Spared, M, before \cup {now})
      PROVE  ModelsGoLast(Spared, M, before)'
  <2>1. ASSUME NEW c \in Tasks, NEW m \in M, tasks'[c].exists, c \in Spared, m \in tasks'[c].inputs
        PROVE  \E b \in before : Replaces(b, c, m)
    <3>1. tasks[c].exists /\ m \in tasks[c].inputs /\ ~Replaces(now, c, m) BY <1>5, <2>1 DEF Corrects
    <3>2. QED BY <1>5, <2>1, <3>1 DEF ModelsGoLast
  <2>2. QED BY <1>2, <2>1 DEF ModelsGoLast, Replaces
<1>6. ASSUME NEW U, ReleasedLast(U, (before \cup {now}) \cup {k}) PROVE ReleasedLast(U, before \cup {k})'
  <2>1. ASSUME NEW u \in U, NEW t \in Tasks, tasks'[t].exists, Covers[u] \cap tasks'[t].artifacts # {}
        PROVE  \E b \in before \cup {k} : Empties(b, t)
    <3>1. tasks[t].exists /\ Covers[u] \cap tasks[t].artifacts # {} /\ ~Empties(now, t) BY <2>1 DEF Corrects
    <3>2. QED BY <1>6, <3>1 DEF ReleasedLast
  <2>2. ASSUME NEW u \in U, NEW m \in Models, models'[m].exists, Uri[m] \in Covers[u]
        PROVE  \E b \in before \cup {k} : Drops(b, m)
    <3>1. models[m].exists /\ ~Drops(now, m) BY <2>2 DEF Corrects
    <3>2. QED BY <1>6, <2>2, <3>1 DEF ReleasedLast
  <2>3. QED BY <2>1, <2>2 DEF ReleasedLast, Empties, Drops
<1>7. k.op = "delete_task" => TaskGoesLast(Spared, k.tasks, before)' BY <1>3, <1>4 DEF Safe
<1>8. k.op = "drop_models" => ModelsGoLast(Spared, k.models, before)' BY <1>3, <1>5 DEF Safe
<1>9. k.op # "cleanup" /\ FilesAreOwned => ReleasedLast(k.urls, before \cup {k})' BY <1>6 DEF Safe
<1>10. QED BY <1>1, <1>7, <1>8, <1>9 DEF Safe

\* The next call is carried out: what is left is a plan for what it leaves.
LEMMA ExecutedPlan ==
  ASSUME OutInv, todo # <<>>, todo' = Tail(todo), emptied' = emptied, Corrects
  PROVE  Plan'
<1>1. /\ todo' \in Seq(AnyCall) /\ Len(todo') = Len(todo) - 1 /\ Len(todo) \in Nat \ {0}
      /\ \A i \in 1..Len(todo') : todo'[i] = todo[i + 1]
      /\ now = todo[1] /\ now \in ToSet(todo) /\ ToSet(todo') \subseteq ToSet(todo)
  BY Now
<1>2. Ordered(Spared, todo)'
  <2>1. ASSUME NEW i \in 1..Len(todo') PROVE Safe(Spared, todo[i], Earlier(todo, i))'
    <3>1. i + 1 \in 1..Len(todo) BY <1>1
    <3>2. Safe(Spared, todo[i + 1], Earlier(todo, i + 1)) BY <3>1 DEF OutInv, Plan, Ordered
    <3>3. Earlier(todo, i + 1) \subseteq Earlier(todo', i) \cup {now}
      <4>1. ASSUME NEW j \in 1..i PROVE todo[j] \in Earlier(todo', i) \cup {now}
        <5>1. CASE j = 1 BY <1>1, <5>1
        <5>2. CASE j # 1
          <6>1. j - 1 \in 1..(i - 1) /\ j - 1 \in 1..Len(todo') /\ (j - 1) + 1 = j BY <1>1, <5>2
          <6>2. todo'[j - 1] = todo[j] BY <1>1, <6>1
          <6>3. QED BY <6>1, <6>2 DEF Earlier
        <5>3. QED BY <5>1, <5>2
      <4>2. (i + 1) - 1 = i OBVIOUS
      <4>3. QED BY <4>1, <4>2 DEF Earlier
    <3>4. todo'[i] \in AnyCall BY <1>1, ElementOfSeq
    <3>5. Safe(Spared, todo'[i], Earlier(todo', i) \cup {now}) BY <1>1, <3>2, <3>3, SafeMore
    <3>6. PICK k, before : k \in AnyCall /\ k = todo'[i] /\ before = Earlier(todo', i) BY <3>4
    <3>7. Safe(Spared, k, before)' BY <3>5, <3>6, SafeNext
    <3>8. QED BY <3>6, <3>7
      DEF Safe, TaskGoesLast, ModelsGoLast, ReleasedLast, Detaches, Redirects, Earlier
  <2>2. QED BY <2>1 DEF Ordered
<1>3. Separate(todo)'
  <2>1. ASSUME NEW i \in 1..Len(todo'), NEW j \in 1..Len(todo'), i < j,
               todo'[i].op \in {"cleanup", "to_created", "to_created_forced"}
        PROVE  Free(todo'[j])
    <3>1. i + 1 \in 1..Len(todo) /\ j + 1 \in 1..Len(todo) /\ i + 1 < j + 1 BY <1>1, <2>1
    <3>2. todo'[i] = todo[i + 1] /\ todo'[j] = todo[j + 1] BY <1>1
    <3>3. QED BY <2>1, <3>1, <3>2 DEF OutInv, Plan, Separate
  <2>2. QED BY <2>1 DEF Separate, Free
<1>4. DraftsOnly(todo)'
  <2>1. SUFFICES ASSUME NEW h \in ToSet(todo'), h.op = "schedule", NEW k \in ToSet(todo')
                 PROVE  k.op # "set_ready" /\ (k.op = "drop_models" => \A m \in k.models : ~models'[m].ready)
    BY DEF DraftsOnly
  <2>2. now.op # "set_ready" /\ k.op # "set_ready" /\ (k.op = "drop_models" => \A m \in k.models : ~models[m].ready)
    BY <1>1, <2>1 DEF OutInv, Plan, DraftsOnly
  <2>3. k.op = "drop_models" => k.models \subseteq Models
    <3>1. k \in AnyCall BY <1>1, <2>1, ToSetOfSeq
    <3>2. QED BY <3>1 DEF AnyCall, CallDoc, CleanupDoc
  <2>4. QED BY <2>2, <2>3 DEF Corrects
<1>5. CarefulPlan(todo)'
  <2>1. FilesAreOwned' = FilesAreOwned BY DEF FilesAreOwned, ArtifactsOf, ModelFiles
  <2>2. QED BY <1>1, <2>1 DEF OutInv, Plan, CarefulPlan
<1>6. QED BY <1>2, <1>3, <1>4, <1>5 DEF Plan

\* Corrections and deletions that the calls before them allow keep the invariant.
LEMMA ExecutedInv ==
  ASSUME OutInv, todo # <<>>, now.op # "cleanup", Continue, Corrects, DeletesOnly,
         tasks' \in [Tasks -> TaskDoc], models' \in [Models -> ModelDoc]
  PROVE  OutInv'
<1>1. /\ UNCHANGED urlVars /\ todo' = Tail(todo) /\ urls' = urls \cup now.urls
      /\ emptied' = emptied /\ asked' = asked /\ stops' = stops
  BY DEF Continue
<1>2. /\ now \in AnyCall /\ Tail(todo) \in Seq(AnyCall) /\ Safe(Spared, now, {}) BY Now
<1>3. UrlInv' BY <1>1, UrlStep DEF OutInv
<1>4. now.urls \subseteq Urls BY <1>2 DEF AnyCall, CallDoc, CleanupDoc
<1>5. Documents' BY <1>1, <1>2, <1>4 DEF OutInv, Documents
<1>6. Plan' BY <1>1, ExecutedPlan
<1>7. Spared' = Spared BY <1>1 DEF Spared
<1>8. References'
  <2>1. ASSUME NEW c \in Tasks, tasks[c].exists, ~tasks'[c].exists
        PROVE  TaskGoesLast(Spared, now.tasks, {}) /\ c \in now.tasks
    BY <1>2, <2>1 DEF DeletesOnly, Safe
  <2>2. ASSUME NEW t \in Tasks, tasks'[t].exists, t \in Spared, NEW m \in tasks'[t].inputs \cap Models
        PROVE  models'[m].exists
    <3>1. tasks[t].exists /\ m \in tasks[t].inputs BY <2>2 DEF Corrects
    <3>2. models[m].exists BY <2>2, <3>1 DEF OutInv, References
    <3>3. Drops(now, m) => ModelsGoLast(Spared, now.models, {}) /\ m \in now.models BY <1>2 DEF Drops, Safe
    <3>4. ~Drops(now, m) BY <2>2, <3>1, <3>3 DEF ModelsGoLast
    <3>5. QED BY <3>2, <3>4 DEF DeletesOnly
  <2>3. ASSUME NEW t \in Tasks, tasks'[t].exists, t \in Spared, tasks'[t].parent \in Tasks
        PROVE  tasks'[tasks'[t].parent].exists
    <3>1. tasks[t].exists /\ tasks'[t].parent = tasks[t].parent BY <2>3 DEF Corrects
    <3>2. tasks[tasks[t].parent].exists BY <2>3, <3>1 DEF OutInv, References
    <3>3. ASSUME ~tasks'[tasks[t].parent].exists PROVE FALSE
      <4>1. TaskGoesLast(Spared, now.tasks, {}) /\ tasks[t].parent \in now.tasks BY <2>1, <2>3, <3>1, <3>2, <3>3
      <4>2. QED BY <2>3, <3>1, <4>1 DEF TaskGoesLast
    <3>4. QED BY <3>1, <3>3
  <2>4. ASSUME NEW m \in Models, models'[m].exists, m \in Spared, models'[m].task \in Tasks
        PROVE  tasks'[models'[m].task].exists
    <3>1. models[m].exists /\ models'[m].task = models[m].task BY <2>4 DEF Corrects
    <3>2. tasks[models[m].task].exists BY <2>4, <3>1 DEF OutInv, References
    <3>3. ASSUME ~tasks'[models[m].task].exists PROVE FALSE
      <4>1. TaskGoesLast(Spared, now.tasks, {}) /\ models[m].task \in now.tasks BY <2>1, <2>4, <3>1, <3>2, <3>3
      <4>2. QED BY <2>4, <3>1, <4>1 DEF TaskGoesLast
    <3>4. QED BY <3>1, <3>3
  <2>5. QED BY <1>7, <2>2, <2>3, <2>4 DEF References
<1>9. FilesKept'
  <2>1. FilesAreOwned' = FilesAreOwned BY DEF FilesAreOwned, ArtifactsOf, ModelFiles
  <2>2. Doomed' = Doomed /\ files' = files BY <1>1 DEF Doomed, urlVars, Recorded
  <2>3. SUFFICES ASSUME FilesAreOwned
                 PROVE  /\ \A t \in Tasks : tasks'[t].artifacts \subseteq ArtifactsOf(t)
                        /\ NotInUse(Doomed \cup urls)'
                        /\ \A t \in Tasks : tasks'[t].exists => tasks'[t].artifacts \subseteq files
                        /\ \A m \in Models : models'[m].exists => Uri[m] \in files
    BY <2>1, <2>2 DEF FilesKept, ArtifactsOf
  <2>4. /\ \A t \in Tasks : tasks[t].artifacts \subseteq ArtifactsOf(t)
        /\ NotInUse(Doomed \cup urls)
        /\ \A t \in Tasks : tasks[t].exists => tasks[t].artifacts \subseteq files
        /\ \A m \in Models : models[m].exists => Uri[m] \in files
    BY <2>3 DEF OutInv, FilesKept
  <2>5. ReleasedLast(now.urls, {now}) BY <1>2, <2>3 DEF Safe
  <2>6. ASSUME NEW u \in Doomed \cup urls \cup now.urls, NEW t \in Tasks, tasks'[t].exists,
               Covers[u] \cap tasks'[t].artifacts # {}
        PROVE  FALSE
    <3>1. /\ tasks[t].exists /\ Covers[u] \cap tasks[t].artifacts # {}
          /\ Empties(now, t) => tasks'[t].artifacts = {}
      BY <2>6 DEF Corrects
    <3>2. u \in now.urls BY <2>4, <3>1 DEF NotInUse
    <3>3. Empties(now, t) BY <2>5, <3>1, <3>2 DEF ReleasedLast
    <3>4. QED BY <2>6, <3>1, <3>3
  <2>7. ASSUME NEW u \in Doomed \cup urls \cup now.urls, NEW m \in Models, models'[m].exists, Uri[m] \in Covers[u]
        PROVE  FALSE
    <3>1. models[m].exists /\ ~Drops(now, m) BY <2>7 DEF Corrects
    <3>2. u \in now.urls BY <2>4, <2>7, <3>1 DEF NotInUse
    <3>3. QED BY <2>5, <2>7, <3>1, <3>2 DEF ReleasedLast
  <2>8. NotInUse(Doomed \cup urls)' BY <1>1, <2>2, <2>6, <2>7 DEF NotInUse
  <2>9. QED BY <2>4, <2>8 DEF Corrects
<1>10. QED BY <1>3, <1>5, <1>6, <1>8, <1>9 DEF OutInv

LEMMA CallNow ==
  ASSUME OutInv, todo # <<>>, now.op # "cleanup"
  PROVE  now \in CallDoc
BY Now DEF AnyCall, CleanupDoc

\* The fields of documents.
LEMMA TaskFields ==
  ASSUME NEW d \in TaskDoc
  PROVE  /\ \A x \in BOOLEAN : [d EXCEPT !.exists = x] \in TaskDoc
         /\ \A x \in Statuses : [d EXCEPT !.status = x] \in TaskDoc
         /\ \A x \in Tasks \cup {NoTask, DeletedTask} : [d EXCEPT !.parent = x] \in TaskDoc
         /\ \A x \in SUBSET (Models \cup {DeletedModel}) : [d EXCEPT !.inputs = x] \in TaskDoc
         /\ \A x \in Seq(Models \cup {DeletedModel}) : [d EXCEPT !.outputs = x] \in TaskDoc
BY DEF TaskDoc

LEMMA ModelFields ==
  ASSUME NEW d \in ModelDoc
  PROVE  /\ \A x \in BOOLEAN : [d EXCEPT !.exists = x] \in ModelDoc /\ [d EXCEPT !.ready = x] \in ModelDoc
         /\ \A x \in Tasks \cup {NoTask, DeletedTask} : [d EXCEPT !.task = x] \in ModelDoc
BY DEF ModelDoc

LEMMA DetachChildrenInv == ASSUME OutInv, DetachChildren PROVE OutInv'
<1> DEFINE children == {c \in LiveTasks : tasks[c].parent \in now.tasks}
           S == IF now.to = NoTask THEN children \ InProject ELSE children
<1>1. todo # <<>> /\ now.op = "detach_children" /\ Continue /\ models' = models BY DEF DetachChildren, At
<1>2. tasks' = [t \in Tasks |-> IF t \in S THEN [tasks[t] EXCEPT !.parent = now.to] ELSE tasks[t]]
  BY DEF DetachChildren, UpdateTasks
<1>3. now \in CallDoc BY <1>1, CallNow
<1>4. now.to \in {NoTask, DeletedTask} BY <1>3 DEF CallDoc
<1>5. \A c \in Tasks : tasks[c] \in TaskDoc BY DEF OutInv, Documents
<1>6. \A c \in Tasks : c \in S <=> tasks[c].exists /\ Detaches(now, c) BY <1>1 DEF Detaches, LiveTasks
<1> HIDE DEF S
<1>7. tasks' \in [Tasks -> TaskDoc] BY <1>2, <1>4, <1>5, TaskFields
<1>8. \A c \in Tasks : /\ tasks'[c].exists = tasks[c].exists /\ tasks'[c].inputs = tasks[c].inputs
                       /\ tasks'[c].artifacts = tasks[c].artifacts
                       /\ tasks'[c].parent = IF c \in S THEN now.to ELSE tasks[c].parent
  BY <1>2, <1>5 DEF TaskDoc
<1>9. Corrects
  BY <1>1, <1>4, <1>6, <1>8, OutputsAssumption DEF OutputsAssumption, Corrects, Replaces, Empties, Drops, Redirects
<1>10. DeletesOnly BY <1>1, <1>8 DEF DeletesOnly
<1>11. models' \in [Models -> ModelDoc] BY <1>1 DEF OutInv, Documents
<1>12. QED BY <1>1, <1>7, <1>9, <1>10, <1>11, ExecutedInv

LEMMA OrphanModelsInv == ASSUME OutInv, OrphanModels PROVE OutInv'
<1> DEFINE S == {m \in LiveModels \ InProject : models[m].task \in now.tasks}
<1>1. todo # <<>> /\ now.op = "orphan_models" /\ Continue /\ tasks' = tasks BY DEF OrphanModels, At
<1>2. models' = [m \in Models |-> IF m \in S THEN [models[m] EXCEPT !.task = NoTask] ELSE models[m]]
  BY DEF OrphanModels, UpdateModels
<1>3. \A m \in Models : models[m] \in ModelDoc BY DEF OutInv, Documents
<1>4. \A m \in Models : m \in S <=> models[m].exists /\ Redirects(now, m) BY <1>1 DEF Redirects, LiveModels
<1> HIDE DEF S
<1>5. models' \in [Models -> ModelDoc] BY <1>2, <1>3, ModelFields
<1>6. \A m \in Models : /\ models'[m].exists = models[m].exists /\ models'[m].ready = models[m].ready
                        /\ models'[m].task = IF m \in S THEN NoTask ELSE models[m].task
  BY <1>2, <1>3 DEF ModelDoc
<1>7. Corrects
  BY <1>1, <1>4, <1>6, OutputsAssumption DEF OutputsAssumption, Corrects, Detaches, Replaces, Empties, Drops
<1>8. DeletesOnly BY <1>1, <1>6 DEF DeletesOnly
<1>9. tasks' \in [Tasks -> TaskDoc] BY <1>1 DEF OutInv, Documents
<1>10. QED BY <1>1, <1>5, <1>7, <1>8, <1>9, ExecutedInv

LEMMA SetModelsTaskInv == ASSUME OutInv, SetModelsTask PROVE OutInv'
<1>1. todo # <<>> /\ now.op = "set_model_task" /\ Continue /\ tasks' = tasks BY DEF SetModelsTask, At
<1>2. models' = [m \in Models |-> IF m \in now.models THEN [models[m] EXCEPT !.task = now.to] ELSE models[m]]
  BY DEF SetModelsTask, UpdateModels
<1>3. now.to \in {NoTask, DeletedTask} BY <1>1, CallNow DEF CallDoc
<1>4. \A m \in Models : models[m] \in ModelDoc BY DEF OutInv, Documents
<1>5. models' \in [Models -> ModelDoc] BY <1>2, <1>3, <1>4, ModelFields
<1>6. \A m \in Models : /\ models'[m].exists = models[m].exists /\ models'[m].ready = models[m].ready
                        /\ models'[m].task = IF m \in now.models THEN now.to ELSE models[m].task
  BY <1>2, <1>4 DEF ModelDoc
<1>7. Corrects
  BY <1>1, <1>3, <1>6, OutputsAssumption
  DEF OutputsAssumption, Corrects, Detaches, Redirects, Replaces, Empties, Drops
<1>8. DeletesOnly BY <1>1, <1>6 DEF DeletesOnly
<1>9. tasks' \in [Tasks -> TaskDoc] BY <1>1 DEF OutInv, Documents
<1>10. QED BY <1>1, <1>5, <1>7, <1>8, <1>9, ExecutedInv

LEMMA DeleteModelsInv == ASSUME OutInv, DeleteModels PROVE OutInv'
<1>1. todo # <<>> /\ now.op = "drop_models" /\ Continue /\ tasks' = tasks BY DEF DeleteModels, At
<1>2. models' = [m \in Models |-> IF m \in now.models THEN [models[m] EXCEPT !.exists = FALSE] ELSE models[m]]
  BY DEF DeleteModels, UpdateModels
<1>3. \A m \in Models : models[m] \in ModelDoc BY DEF OutInv, Documents
<1>4. models' \in [Models -> ModelDoc] BY <1>2, <1>3, ModelFields
<1>5. \A m \in Models : /\ models'[m].exists = IF m \in now.models THEN FALSE ELSE models[m].exists
                        /\ models'[m].ready = models[m].ready /\ models'[m].task = models[m].task
  BY <1>2, <1>3 DEF ModelDoc
<1>6. Corrects BY <1>1, <1>5 DEF Corrects, Detaches, Redirects, Replaces, Empties, Drops
<1>7. DeletesOnly BY <1>1, <1>5 DEF DeletesOnly, Drops
<1>8. tasks' \in [Tasks -> TaskDoc] BY <1>1 DEF OutInv, Documents
<1>9. QED BY <1>1, <1>4, <1>6, <1>7, <1>8, ExecutedInv

LEMMA MarkInputsInv == ASSUME OutInv, MarkInputs PROVE OutInv'
<1> DEFINE New(t) == MarkedInputs(tasks[t].inputs, now.models)
<1>1. todo # <<>> /\ now.op = "mark_inputs" /\ Continue /\ models' = models BY DEF MarkInputs, At
<1>2. tasks' = [t \in Tasks |-> IF t \in now.tasks THEN [tasks[t] EXCEPT !.inputs = New(t)] ELSE tasks[t]]
  BY DEF MarkInputs, UpdateTasks
<1>3. \A t \in Tasks : tasks[t] \in TaskDoc /\ tasks[t].inputs \in SUBSET (Models \cup {DeletedModel})
  BY DEF OutInv, Documents, TaskDoc
<1>4. \A t \in Tasks : New(t) \in SUBSET (Models \cup {DeletedModel}) BY <1>3 DEF MarkedInputs
<1>5. \A t \in Tasks : \A m \in Models : m \in New(t) => m \in tasks[t].inputs /\ m \notin now.models
  BY OutputsAssumption DEF OutputsAssumption, MarkedInputs
<1> HIDE DEF New
<1>6. tasks' \in [Tasks -> TaskDoc] BY <1>2, <1>3, <1>4, TaskFields
<1>7. \A t \in Tasks : /\ tasks'[t].exists = tasks[t].exists /\ tasks'[t].parent = tasks[t].parent
                       /\ tasks'[t].artifacts = tasks[t].artifacts
                       /\ tasks'[t].inputs = IF t \in now.tasks THEN New(t) ELSE tasks[t].inputs
  BY <1>2, <1>3 DEF TaskDoc
<1>8. Corrects BY <1>1, <1>5, <1>7 DEF Corrects, Detaches, Redirects, Replaces, Empties, Drops
<1>9. DeletesOnly BY <1>1, <1>7 DEF DeletesOnly
<1>10. models' \in [Models -> ModelDoc] BY <1>1 DEF OutInv, Documents
<1>11. QED BY <1>1, <1>6, <1>8, <1>9, <1>10, ExecutedInv

\* Changes of the outputs or the status alone.
LEMMA OthersKept ==
  ASSUME OutInv, todo # <<>>, now.op \in {"mark_outputs", "pull_outputs", "publishing", "published"}, Continue,
         models' = models, tasks' \in [Tasks -> TaskDoc],
         \A t \in Tasks : /\ tasks'[t].exists = tasks[t].exists /\ tasks'[t].parent = tasks[t].parent
                          /\ tasks'[t].artifacts = tasks[t].artifacts /\ tasks'[t].inputs = tasks[t].inputs
  PROVE  OutInv'
<1>1. Corrects BY DEF Corrects, Detaches, Redirects, Replaces, Empties, Drops
<1>2. DeletesOnly BY DEF DeletesOnly
<1>3. models' \in [Models -> ModelDoc] BY DEF OutInv, Documents
<1>4. QED BY <1>1, <1>2, <1>3, ExecutedInv

LEMMA MarkOutputsInv == ASSUME OutInv, MarkOutputs PROVE OutInv'
<1> DEFINE New(t) == Marked(tasks[t].outputs, now.models)
<1>1. todo # <<>> /\ now.op = "mark_outputs" /\ Continue /\ models' = models BY DEF MarkOutputs, At
<1>2. tasks' = [t \in Tasks |-> IF t \in now.tasks THEN [tasks[t] EXCEPT !.outputs = New(t)] ELSE tasks[t]]
  BY DEF MarkOutputs, UpdateTasks
<1>3. \A t \in Tasks : tasks[t] \in TaskDoc /\ tasks[t].outputs \in Seq(Models \cup {DeletedModel})
  BY DEF OutInv, Documents, TaskDoc
<1>4. ASSUME NEW t \in Tasks PROVE New(t) \in Seq(Models \cup {DeletedModel})
  <2>1. tasks[t].outputs \in Seq(Models \cup {DeletedModel}) BY <1>3
  <2>2. /\ DOMAIN tasks[t].outputs = 1..Len(tasks[t].outputs) /\ Len(tasks[t].outputs) \in Nat
        /\ \A i \in 1..Len(tasks[t].outputs) : tasks[t].outputs[i] \in Models \cup {DeletedModel}
    BY <2>1
  <2>3. New(t) \in [1..Len(tasks[t].outputs) -> Models \cup {DeletedModel}] BY <2>2 DEF Marked
  <2>4. QED BY <2>2, <2>3, SeqDef
<1> HIDE DEF New
<1>5. tasks' \in [Tasks -> TaskDoc] BY <1>2, <1>3, <1>4, TaskFields
<1>6. \A t \in Tasks : /\ tasks'[t].exists = tasks[t].exists /\ tasks'[t].parent = tasks[t].parent
                       /\ tasks'[t].artifacts = tasks[t].artifacts /\ tasks'[t].inputs = tasks[t].inputs
  BY <1>2, <1>3 DEF TaskDoc
<1>7. QED BY <1>1, <1>5, <1>6, OthersKept

LEMMA SetStatusInv == ASSUME OutInv, SetStatus PROVE OutInv'
<1>1. todo # <<>> /\ now.op \in {"publishing", "published"} /\ Continue /\ models' = models BY DEF SetStatus, At
<1>2. tasks' = [t \in Tasks |-> IF t \in now.tasks THEN [tasks[t] EXCEPT !.status = now.op] ELSE tasks[t]]
  BY DEF SetStatus, UpdateTasks
<1>3. \A t \in Tasks : tasks[t] \in TaskDoc BY DEF OutInv, Documents
<1>4. now.op \in Statuses BY <1>1 DEF Statuses, publishing, published
<1>5. tasks' \in [Tasks -> TaskDoc] BY <1>2, <1>3, <1>4, TaskFields
<1>6. \A t \in Tasks : /\ tasks'[t].exists = tasks[t].exists /\ tasks'[t].parent = tasks[t].parent
                       /\ tasks'[t].artifacts = tasks[t].artifacts /\ tasks'[t].inputs = tasks[t].inputs
  BY <1>2, <1>3 DEF TaskDoc
<1>7. QED BY <1>1, <1>5, <1>6, OthersKept

LEMMA SetReadyInv == ASSUME OutInv, SetReady PROVE OutInv'
<1>1. todo # <<>> /\ now.op = "set_ready" /\ Continue /\ tasks' = tasks BY DEF SetReady, At
<1>2. models' = [m \in Models |-> IF m \in now.models THEN [models[m] EXCEPT !.ready = TRUE] ELSE models[m]]
  BY DEF SetReady, UpdateModels
<1>3. \A m \in Models : models[m] \in ModelDoc BY DEF OutInv, Documents
<1>4. models' \in [Models -> ModelDoc] BY <1>2, <1>3, ModelFields
<1>5. \A m \in Models : models'[m].exists = models[m].exists /\ models'[m].task = models[m].task
  BY <1>2, <1>3 DEF ModelDoc
<1>6. Corrects BY <1>1, <1>5 DEF Corrects, Detaches, Redirects, Replaces, Empties, Drops
<1>7. DeletesOnly BY <1>1, <1>5 DEF DeletesOnly, Drops
<1>8. tasks' \in [Tasks -> TaskDoc] BY <1>1 DEF OutInv, Documents
<1>9. QED BY <1>1, <1>4, <1>6, <1>7, <1>8, ExecutedInv

LEMMA DeleteDocumentsInv == ASSUME OutInv, DeleteDocuments PROVE OutInv'
<1>1. todo # <<>> /\ now.op = "delete_task" /\ Continue /\ models' = models BY DEF DeleteDocuments, At
<1>2. tasks' = [t \in Tasks |-> IF t \in now.tasks THEN [tasks[t] EXCEPT !.exists = FALSE] ELSE tasks[t]]
  BY DEF DeleteDocuments, UpdateTasks
<1>3. \A t \in Tasks : tasks[t] \in TaskDoc BY DEF OutInv, Documents
<1>4. tasks' \in [Tasks -> TaskDoc] BY <1>2, <1>3, TaskFields
<1>5. \A t \in Tasks : /\ tasks'[t].exists = IF t \in now.tasks THEN FALSE ELSE tasks[t].exists
                       /\ tasks'[t].parent = tasks[t].parent
                       /\ tasks'[t].artifacts = tasks[t].artifacts /\ tasks'[t].inputs = tasks[t].inputs
  BY <1>2, <1>3 DEF TaskDoc
<1>6. Corrects BY <1>1, <1>5 DEF Corrects, Detaches, Redirects, Replaces, Empties, Drops
<1>7. DeletesOnly BY <1>1, <1>5 DEF DeletesOnly
<1>8. models' \in [Models -> ModelDoc] BY <1>1 DEF OutInv, Documents
<1>9. QED BY <1>1, <1>4, <1>6, <1>7, <1>8, ExecutedInv

LEMMA PullOutputsInv == ASSUME OutInv, PullOutputs PROVE OutInv'
<1> DEFINE New(t) == Excluding(tasks[t].outputs, now.models)
<1>1. todo # <<>> /\ now.op = "pull_outputs" /\ Continue /\ models' = models BY DEF PullOutputs, At
<1>2. tasks' = [t \in Tasks |-> IF t \in now.tasks THEN [tasks[t] EXCEPT !.outputs = New(t)] ELSE tasks[t]]
  BY DEF PullOutputs, UpdateTasks
<1>3. \A t \in Tasks : tasks[t] \in TaskDoc /\ tasks[t].outputs \in Seq(Models \cup {DeletedModel})
  BY DEF OutInv, Documents, TaskDoc
<1>4. \A t \in Tasks : New(t) \in Seq(Models \cup {DeletedModel}) 
  <2>1. ASSUME NEW t \in Tasks PROVE New(t) \in Seq(Models \cup {DeletedModel})
    <3>1. New(t) \in Seq((Models \cup {DeletedModel}) \ now.models) BY <1>3, ExcludingIsFrom
    <3>2. QED BY <3>1
  <2>2. QED BY <2>1
<1> HIDE DEF New
<1>5. tasks' \in [Tasks -> TaskDoc] BY <1>2, <1>3, <1>4, TaskFields
<1>6. \A t \in Tasks : /\ tasks'[t].exists = tasks[t].exists /\ tasks'[t].parent = tasks[t].parent
                       /\ tasks'[t].artifacts = tasks[t].artifacts /\ tasks'[t].inputs = tasks[t].inputs
  BY <1>2, <1>3 DEF TaskDoc
<1>7. QED BY <1>1, <1>5, <1>6, OthersKept

\* What is left to do is a plan when it needs nothing before it.
LEMMA FreePlan ==
  ASSUME todo' \in Seq(AnyCall),
         \A k \in ToSet(todo') :
           Free(k) /\ (FilesAreOwned /\ k.op = "cleanup" => (k.ask.collect => k.ask.output_models))
  PROVE  Plan'
<1>1. \A i \in 1..Len(todo') : todo'[i] \in ToSet(todo') BY ToSetOfSeq
<1>2. FilesAreOwned' = FilesAreOwned BY DEF FilesAreOwned, ArtifactsOf, ModelFiles
<1>3. Ordered(Spared, todo)'
  <2>1. ASSUME NEW i \in 1..Len(todo') PROVE Safe(Spared, todo[i], Earlier(todo, i))'
    <3>1. Free(todo'[i]) BY <1>1
    <3>2. QED BY <1>2, <3>1 DEF Safe, ReleasedLast, Free
  <2>2. QED BY <2>1 DEF Ordered
<1>4. Separate(todo)' BY <1>1 DEF Separate, Free
<1>5. DraftsOnly(todo)' BY DEF DraftsOnly, Free
<1>6. CarefulPlan(todo)' BY <1>2 DEF CarefulPlan
<1>7. QED BY <1>3, <1>4, <1>5, <1>6 DEF Plan

\* The rest of a request is left out, or its cleanups are.
LEMMA SameDocuments ==
  ASSUME OutInv, UNCHANGED <<urlVars, tasks, models, emptied, asked>>, urls' \subseteq urls,
         todo' \in Seq(AnyCall), stops' \in 0..MaxStops, Plan'
  PROVE  OutInv'
<1>1. UrlInv' BY UrlStep DEF OutInv
<1>2. Documents' BY DEF OutInv, Documents
<1>3. References' BY DEF OutInv, References, Spared
<1>4. FilesKept'
  <2>1. Doomed' = Doomed BY DEF Doomed, urlVars, Recorded
  <2>2. QED BY <2>1 DEF OutInv, FilesKept, FilesAreOwned, ArtifactsOf, ModelFiles, NotInUse, urlVars
<1>5. QED BY <1>1, <1>2, <1>3, <1>4 DEF OutInv

LEMMA ToCreatedInv == ASSUME OutInv, ToCreated PROVE OutInv'
<1>1. todo # <<>> /\ now.op \in {"to_created", "to_created_forced"} /\ models' = models BY DEF ToCreated, At
<1>2. PICK t \in now.tasks :
        \/ /\ Continue
           /\ tasks' = [tasks EXCEPT ![t].status = created, ![t].outputs = <<>>, ![t].artifacts = {}]
        \/ todo' = Tail(todo) /\ UNCHANGED <<urlVars, tasks, urls, emptied, asked, stops>>
  BY DEF ToCreated
<1>3. now \in CallDoc BY <1>1, CallNow
<1>4. t \in Tasks BY <1>3 DEF CallDoc
<1>5. CASE /\ Continue
           /\ tasks' = [tasks EXCEPT ![t].status = created, ![t].outputs = <<>>, ![t].artifacts = {}]
  <2>1. \A c \in Tasks : tasks[c] \in TaskDoc BY DEF OutInv, Documents
  <2>2. tasks' = [c \in Tasks |-> IF c = t THEN [tasks[t] EXCEPT !.status = created, !.outputs = <<>>, !.artifacts = {}]
                                  ELSE tasks[c]]
    BY <1>4, <1>5 DEF OutInv, Documents
  <2>3. [tasks[t] EXCEPT !.status = created, !.outputs = <<>>, !.artifacts = {}] \in TaskDoc
    BY <1>4, <2>1, ToSetOfNone DEF TaskDoc, Statuses
  <2>4. tasks' \in [Tasks -> TaskDoc] BY <2>1, <2>2, <2>3
  <2>5. \A c \in Tasks : /\ tasks'[c].exists = tasks[c].exists /\ tasks'[c].parent = tasks[c].parent
                         /\ tasks'[c].inputs = tasks[c].inputs
                         /\ tasks'[c].artifacts = IF c = t THEN {} ELSE tasks[c].artifacts
    BY <2>1, <2>2 DEF TaskDoc
  <2>6. \A c \in Tasks : Empties(now, c) => c = t BY <1>1, <1>2 DEF Empties
  <2>7. Corrects BY <1>1, <2>5, <2>6 DEF Corrects, Detaches, Redirects, Replaces, Drops
  <2>8. DeletesOnly BY <1>1, <2>5 DEF DeletesOnly
  <2>9. models' \in [Models -> ModelDoc] BY <1>1 DEF OutInv, Documents
  <2>10. QED BY <1>1, <1>5, <2>4, <2>7, <2>8, <2>9, ExecutedInv
<1>6. CASE todo' = Tail(todo) /\ UNCHANGED <<urlVars, tasks, urls, emptied, asked, stops>>
  <2>1. /\ todo' \in Seq(AnyCall) /\ Len(todo') = Len(todo) - 1 /\ Len(todo) \in Nat \ {0}
        /\ \A i \in 1..Len(todo') : todo'[i] = todo[i + 1]
        /\ now = todo[1] /\ ToSet(todo') \subseteq ToSet(todo)
    BY <1>1, <1>6, Now
  <2>2. ASSUME NEW i \in 1..Len(todo') PROVE Free(todo'[i])
    <3>1. 1 \in 1..Len(todo) /\ i + 1 \in 1..Len(todo) /\ 1 < i + 1 BY <2>1
    <3>2. QED BY <1>1, <2>1, <3>1 DEF OutInv, Plan, Separate
  <2>3. \A k \in ToSet(todo') : Free(k) BY <2>1, <2>2, ToSetOfSeq
  <2>4. Plan' BY <2>1, <2>3, FreePlan DEF OutInv, Plan, CarefulPlan
  <2>5. stops' \in 0..MaxStops BY <1>6 DEF OutInv, Documents
  <2>6. QED BY <1>1, <1>6, <2>1, <2>4, <2>5, SameDocuments
<1>7. QED BY <1>2, <1>5, <1>6

LEMMA ServerStopsInv == ASSUME OutInv, ServerStops PROVE OutInv'
<1>1. /\ todo' = <<>> /\ urls' = {} /\ stops' = stops + 1 /\ stops < MaxStops
      /\ UNCHANGED <<urlVars, tasks, models, emptied, asked>>
  BY DEF ServerStops
<1>2. todo' \in Seq(AnyCall) /\ ToSet(todo') = {} BY <1>1, ToSetOfNone
<1>3. Plan' BY <1>2, FreePlan
<1>4. stops' \in 0..MaxStops BY <1>1, OutputsAssumption DEF OutputsAssumption, OutInv, Documents
<1>5. QED BY <1>1, <1>2, <1>3, <1>4, SameDocuments

LEMMA AddModelInv ==
  ASSUME OutInv, NEW t \in Tasks, NEW m \in Models, NEW type \in {"input", "output"}, AddModel(t, m, type)
  PROVE  OutInv'
<1> DEFINE outputs == IF m \in ToSet(tasks[t].outputs) THEN tasks[t].outputs ELSE Append(tasks[t].outputs, m)
           new == IF type = "input" THEN [tasks[t] EXCEPT !.inputs = @ \cup {m}] ELSE [tasks[t] EXCEPT !.outputs = outputs]
<1>1. /\ todo = <<>> /\ asked < MaxRequests /\ asked' = asked + 1 /\ models[m].exists /\ tasks[t].exists
      /\ UNCHANGED <<urlVars, models, todo, urls, emptied, stops>>
  BY DEF AddModel, AtOnce, MayAsk, LiveTasks, LiveModels
<1>2. \A c \in Tasks : tasks[c] \in TaskDoc BY DEF OutInv, Documents
<1>3. tasks' = [c \in Tasks |-> IF c = t THEN new ELSE tasks[c]]
  <2>1. CASE type = "input"
    <3>1. tasks' = [tasks EXCEPT ![t].inputs = @ \cup {m}] BY <2>1 DEF AddModel
    <3>2. QED BY <2>1, <3>1 DEF OutInv, Documents
  <2>2. CASE type # "input"
    <3>1. tasks' = [tasks EXCEPT ![t].outputs = outputs] BY <2>2 DEF AddModel
    <3>2. QED BY <2>2, <3>1 DEF OutInv, Documents
  <2>3. QED BY <2>1, <2>2
<1>4. /\ new \in TaskDoc /\ new.exists = tasks[t].exists /\ new.parent = tasks[t].parent
      /\ new.artifacts = tasks[t].artifacts /\ new.inputs \subseteq tasks[t].inputs \cup {m}
  <2>1. tasks[t].outputs \in Seq(Models \cup {DeletedModel}) /\ tasks[t].inputs \subseteq Models \cup {DeletedModel}
    BY <1>2 DEF TaskDoc
  <2>2. outputs \in Seq(Models \cup {DeletedModel}) BY <2>1
  <2>3. tasks[t] \in TaskDoc BY <1>2
  <2> HIDE DEF outputs
  <2>4. CASE type = "input" BY <2>1, <2>3, <2>4 DEF TaskDoc
  <2>5. CASE type # "input" BY <2>2, <2>3, <2>5 DEF TaskDoc
  <2>6. QED BY <2>4, <2>5
<1> HIDE DEF new
<1>5. \A c \in Tasks : /\ tasks'[c] \in TaskDoc /\ tasks'[c].exists = tasks[c].exists
                       /\ tasks'[c].parent = tasks[c].parent /\ tasks'[c].artifacts = tasks[c].artifacts
                       /\ tasks'[c].inputs \subseteq tasks[c].inputs \cup {m}
  BY <1>2, <1>3, <1>4
<1>6. UrlInv' BY <1>1, UrlStep DEF OutInv
<1>7. Documents'
  <2>1. tasks' \in [Tasks -> TaskDoc] BY <1>3, <1>5
  <2>2. QED BY <1>1, <2>1, OutputsAssumption DEF OutputsAssumption, OutInv, Documents
<1>8. Plan'
  <2>1. todo' \in Seq(AnyCall) /\ ToSet(todo') = {} BY <1>1, ToSetOfNone
  <2>2. QED BY <2>1, FreePlan
<1>9. References' BY <1>1, <1>5 DEF OutInv, References, Spared
<1>10. FilesKept'
  <2>1. Doomed' = Doomed BY <1>1 DEF Doomed, urlVars, Recorded
  <2>2. QED BY <1>1, <1>5, <2>1 DEF OutInv, FilesKept, FilesAreOwned, ArtifactsOf, ModelFiles, NotInUse, urlVars
<1>11. QED BY <1>6, <1>7, <1>8, <1>9, <1>10 DEF OutInv

LEMMA ScheduleCollectedInv == ASSUME OutInv, ScheduleCollected PROVE OutInv'
<1> DEFINE S == urls \cup now.urls
<1>1. /\ todo # <<>> /\ now.op \in {"schedule", "schedule_models"} /\ ScheduleUrls(S)
      /\ todo' = Tail(todo) /\ urls' = {} /\ UNCHANGED <<tasks, models, emptied, asked, stops>>
  BY DEF ScheduleCollected, At
<1>2. now \in AnyCall /\ Tail(todo) \in Seq(AnyCall) /\ Safe(Spared, now, {}) BY <1>1, Now
<1>3. now.urls \subseteq Urls BY <1>1, CallNow DEF CallDoc
<1>4. S \in SUBSET Urls BY <1>3 DEF OutInv, Documents
<1>5. UrlInv' BY <1>1, <1>4, UrlStep DEF OutInv
<1>6. Documents' BY <1>1, <1>2 DEF OutInv, Documents
<1>7. Corrects BY <1>1 DEF Corrects, Detaches, Redirects, Replaces, Empties, Drops
<1>8. Plan' BY <1>1, <1>7, ExecutedPlan
<1>9. References' BY <1>1 DEF OutInv, References, Spared
<1>10. FilesKept'
  <2>1. FilesAreOwned' = FilesAreOwned BY DEF FilesAreOwned, ArtifactsOf, ModelFiles
  <2>2. files' = files /\ job' = job /\ records' = Scheduled(S) BY <1>1 DEF ScheduleUrls
  <2>3. Recorded' \subseteq Recorded \cup S
    <3>1. \A u \in Urls : records'[u].exists => u \in S \/ records[u].exists BY <2>2 DEF Scheduled
    <3>2. QED BY <3>1 DEF Recorded
  <2>4. Doomed' \cup urls' \subseteq Doomed \cup urls \cup now.urls BY <1>1, <2>2, <2>3 DEF Doomed
  <2>5. SUFFICES ASSUME FilesAreOwned
                 PROVE  /\ \A t \in Tasks : tasks[t].artifacts \subseteq ArtifactsOf(t)
                        /\ NotInUse(Doomed \cup urls)'
                        /\ \A t \in Tasks : tasks[t].exists => tasks[t].artifacts \subseteq files
                        /\ \A m \in Models : models[m].exists => Uri[m] \in files
    BY <1>1, <2>1, <2>2 DEF FilesKept, ArtifactsOf
  <2>6. NotInUse(now.urls)
    <3>1. ReleasedLast(now.urls, {now}) BY <1>1, <1>2, <2>5 DEF Safe
    <3>2. QED BY <1>1, <3>1 DEF NotInUse, ReleasedLast, Empties, Drops
  <2>7. NotInUse(Doomed \cup urls) BY <2>5 DEF OutInv, FilesKept
  <2>8. NotInUse(Doomed \cup urls)' BY <1>1, <2>4, <2>6, <2>7 DEF NotInUse
  <2>9. QED BY <2>5, <2>8 DEF OutInv, FilesKept
<1>11. QED BY <1>5, <1>6, <1>8, <1>9, <1>10 DEF OutInv

-----------------------------------------------------------------------------
(* The job.  It deletes only files of doomed urls, and dooms no other.     *)

DoomedGo == Doomed' \subseteq Doomed /\ \A f \in files \ files' : \E u \in Doomed : f \in Covers[u]

LEMMA NoNewRecords ==
  ASSUME TypeInv, NEW S,
         \/ UNCHANGED records \/ records' = Failed(S) \/ records' = RetryFailed(S) \/ records' = Without(S)
  PROVE  Recorded' \subseteq Recorded
<1>1. \A u \in Urls : records'[u].exists => records[u].exists
  <2>1. CASE UNCHANGED records BY <2>1
  <2>2. CASE records' = Failed(S) BY <2>2, FailedType DEF TypeInv
  <2>3. CASE records' = RetryFailed(S) BY <2>3, RetryFailedType DEF TypeInv
  <2>4. CASE records' = Without(S) BY <2>4 DEF Without, NoRecord
  <2>5. QED BY <2>1, <2>2, <2>3, <2>4
<1>2. QED BY <1>1 DEF Recorded

LEMMA IdleDooms == ASSUME job' = JobIdle, Recorded' \subseteq Recorded, files' = files PROVE DoomedGo
BY DEF DoomedGo, Doomed, JobIdle

LEMMA JobGo == ASSUME UrlInv, UrlNext PROVE DoomedGo
<1>0. TypeInv /\ job \in JobType BY DEF UrlInv, TypeInv
<1>1. CASE StartBatch
  <2>1. PICK first \in Urls :
          LET batch == {u \in Urls : Due(u) /\ StorageOf[u] = StorageOf[first]}
          IN  /\ records' = Failed(batch \cap Misconfigured)
              /\ IF batch \subseteq Misconfigured THEN UNCHANGED job
                 ELSE Resume([pc |-> "connect", group |-> batch \ Misconfigured])
    BY <1>1 DEF StartBatch
  <2> DEFINE batch == {u \in Urls : Due(u) /\ StorageOf[u] = StorageOf[first]}
  <2>2. batch \subseteq Recorded BY DEF Due, Recorded
  <2>3. Recorded' \subseteq Recorded /\ files' = files BY <1>0, <1>1, <2>1, NoNewRecords DEF StartBatch
  <2>4. CASE UNCHANGED job BY <2>3, <2>4 DEF DoomedGo, Doomed
  <2>5. CASE Resume([pc |-> "connect", group |-> batch \ Misconfigured])
    <3>1. job'.group = batch \ Misconfigured /\ job'.todo = job.todo /\ job'.chunk = job.chunk
      BY <1>0, <2>5, ResumeType DEF JobFields, Places
    <3>2. QED BY <2>2, <2>3, <3>1 DEF DoomedGo, Doomed
  <2>6. QED BY <2>1, <2>4, <2>5
<1>2. CASE GetClient
  <2>1. files' = files BY <1>2 DEF GetClient
  <2>2. CASE Resume([pc |-> "chunks", todo |-> job.group]) /\ UNCHANGED <<records, attempts>>
    <3>1. job'.group = job.group /\ job'.todo = job.group /\ job'.chunk = job.chunk
      BY <1>0, <2>2, ResumeType DEF JobFields, Places, JobType
    <3>2. Recorded' = Recorded BY <2>2 DEF Recorded
    <3>3. QED BY <2>1, <3>1, <3>2 DEF DoomedGo, Doomed
  <2>3. CASE records' = RetryFailed(job.group) /\ job' = JobIdle BY <1>0, <2>1, <2>3, NoNewRecords, IdleDooms
  <2>4. QED BY <1>2, <2>2, <2>3 DEF GetClient
<1>3. CASE NextChunk
  <2>1. files' = files BY <1>3 DEF NextChunk
  <2>2. CASE job' = JobIdle /\ UNCHANGED records BY <1>0, <2>1, <2>2, NoNewRecords, IdleDooms
  <2>3. ASSUME NEW chunk \in SUBSET job.todo, records' = Failed(chunk \cap NoPath),
               Resume([pc |-> IF chunk \subseteq NoPath THEN "chunks" ELSE "delete",
                       todo |-> job.todo \ chunk, chunk |-> chunk \ NoPath])
        PROVE  DoomedGo
    <3>1. job.todo \subseteq Urls BY <1>0 DEF JobType
    <3>2. job'.group = job.group /\ job'.todo = job.todo \ chunk /\ job'.chunk = chunk \ NoPath
      BY <1>0, <2>3, <3>1, ResumeType DEF JobFields, Places
    <3>3. Recorded' \subseteq Recorded BY <1>0, <2>3, NoNewRecords
    <3>4. QED BY <2>1, <3>2, <3>3 DEF DoomedGo, Doomed
  <2>4. QED BY <1>3, <2>2, <2>3 DEF NextChunk
<1>4. CASE DeleteMany
  <2>1. PICK gone, deleted, errors :
          /\ gone \subseteq job.chunk /\ deleted \subseteq gone /\ errors \subseteq job.chunk
          /\ files' = files \ UNION {Covers[u] : u \in gone}
          /\ Resume([pc |-> "mark", deleted |-> deleted, errors |-> errors])
    BY <1>4 DEF DeleteMany
  <2>2. job.chunk \subseteq Urls BY <1>0 DEF JobType
  <2>3. job'.group = job.group /\ job'.todo = job.todo /\ job'.chunk = job.chunk
    BY <1>0, <2>1, <2>2, ResumeType DEF JobFields, Places
  <2>4. Recorded' = Recorded BY <1>4 DEF DeleteMany, Recorded
  <2>5. QED BY <2>1, <2>3, <2>4 DEF DoomedGo, Doomed
<1>5. CASE DeleteManyRaises
  <2>1. PICK gone \in SUBSET job.chunk : files' = files \ UNION {Covers[u] : u \in gone}
    BY <1>5 DEF DeleteManyRaises
  <2>2. job'.group = job.group /\ job'.todo = job.todo /\ job'.chunk = {}
    BY <1>0, <1>5, ResumeType DEF DeleteManyRaises, JobFields, Places
  <2>3. Recorded' \subseteq Recorded BY <1>0, <1>5, NoNewRecords DEF DeleteManyRaises
  <2>4. QED BY <2>1, <2>2, <2>3 DEF DoomedGo, Doomed
<1>6. CASE MarkErrors
  <2>1. job'.group = job.group /\ job'.todo = job.todo /\ job'.chunk = job.chunk
    BY <1>0, <1>6, ResumeType DEF MarkErrors, JobFields, Places
  <2>2. Recorded' \subseteq Recorded /\ files' = files BY <1>0, <1>6, NoNewRecords DEF MarkErrors
  <2>3. QED BY <2>1, <2>2 DEF DoomedGo, Doomed
<1>7. CASE RemoveRecords
  <2>1. job'.group = job.group /\ job'.todo = job.todo /\ job'.chunk = job.chunk
    BY <1>0, <1>7, ResumeType DEF RemoveRecords, JobFields, Places
  <2>2. Recorded' \subseteq Recorded /\ files' = files BY <1>0, <1>7, NoNewRecords DEF RemoveRecords
  <2>3. QED BY <2>1, <2>2 DEF DoomedGo, Doomed
<1>8. CASE MarkMissing
  <2>1. job'.group = job.group /\ job'.todo = job.todo /\ job'.chunk = {}
    BY <1>0, <1>8, ResumeType DEF MarkMissing, JobFields, Places
  <2>2. Recorded' \subseteq Recorded /\ files' = files BY <1>0, <1>8, NoNewRecords DEF MarkMissing
  <2>3. QED BY <2>1, <2>2 DEF DoomedGo, Doomed
<1>9. CASE JobDies BY <1>0, <1>9, NoNewRecords, IdleDooms DEF JobDies
<1>10. ASSUME NEW v \in Urls, TimePasses(v) PROVE DoomedGo
  <2>1. Recorded' = Recorded BY <1>0, <1>10 DEF TimePasses, TypeInv, Record, Recorded
  <2>2. QED BY <1>10, <2>1 DEF TimePasses, DoomedGo, Doomed
<1>11. QED BY <1>1, <1>2, <1>3, <1>4, <1>5, <1>6, <1>7, <1>8, <1>9, <1>10 DEF UrlNext, JobStep

LEMMA JobInv == ASSUME OutInv, UrlNext, UNCHANGED dbVars PROVE OutInv'
<1>1. DoomedGo BY JobGo DEF OutInv
<1>2. UNCHANGED <<tasks, models, todo, urls, emptied, asked, stops>> BY DEF dbVars
<1>3. UrlInv' BY UrlStep DEF OutInv
<1>4. Documents' BY <1>2 DEF OutInv, Documents
<1>5. FilesAreOwned' = FilesAreOwned BY DEF FilesAreOwned, ArtifactsOf, ModelFiles
<1>6. Plan'
  <2>1. Ordered(Spared, todo)'
    BY <1>2, <1>5 DEF OutInv, Plan, Ordered, Earlier, Safe, TaskGoesLast, ModelsGoLast, ReleasedLast, Detaches,
                      Redirects, Spared
  <2>2. QED BY <1>2, <1>5, <2>1 DEF OutInv, Plan, Separate, DraftsOnly, CarefulPlan
<1>7. References' BY <1>2 DEF OutInv, References, Spared
<1>8. FilesKept'
  <2>1. SUFFICES ASSUME FilesAreOwned
                 PROVE  /\ \A t \in Tasks : tasks[t].artifacts \subseteq ArtifactsOf(t)
                        /\ NotInUse(Doomed \cup urls)'
                        /\ \A t \in Tasks : tasks[t].exists => tasks[t].artifacts \subseteq files'
                        /\ \A m \in Models : models[m].exists => Uri[m] \in files'
    BY <1>2, <1>5 DEF FilesKept, ArtifactsOf
  <2>2. /\ \A t \in Tasks : tasks[t].artifacts \subseteq ArtifactsOf(t)
        /\ NotInUse(Doomed \cup urls)
        /\ \A t \in Tasks : tasks[t].exists => tasks[t].artifacts \subseteq files
        /\ \A m \in Models : models[m].exists => Uri[m] \in files
    BY <2>1 DEF OutInv, FilesKept
  <2>3. NotInUse(Doomed \cup urls)' BY <1>1, <1>2, <2>2 DEF DoomedGo, NotInUse
  <2>4. QED BY <1>1, <2>2, <2>3 DEF DoomedGo, NotInUse
<1>9. QED BY <1>3, <1>4, <1>6, <1>7, <1>8 DEF OutInv

-----------------------------------------------------------------------------
(* The cleanup of a task: what refers to it is corrected, then it goes.    *)

LEMMA SeparateLast ==
  ASSUME NEW s \in Seq(AnyCall), NEW e \in Seq(AnyCall), Len(e) = 1,
         \A k \in ToSet(s) : k.op \notin {"cleanup", "to_created", "to_created_forced"}
  PROVE  Separate(s \o e)
<1>1. /\ Len(s \o e) = Len(s) + 1 /\ Len(s) \in Nat
      /\ \A i \in 1..Len(s) + 1 : i <= Len(s) => (s \o e)[i] = s[i]
  BY ConcatProperties
<1>2. \A i \in 1..Len(s) : s[i].op \notin {"cleanup", "to_created", "to_created_forced"} BY ToSetOfSeq
<1>3. ASSUME NEW i \in 1..Len(s \o e), NEW j \in 1..Len(s \o e), i < j,
             (s \o e)[i].op \in {"cleanup", "to_created", "to_created_forced"}
      PROVE  FALSE
  <2>1. i \in 1..Len(s) /\ (s \o e)[i] = s[i] BY <1>1, <1>3
  <2>2. QED BY <1>2, <1>3, <2>1
<1>4. QED BY <1>3 DEF Separate

LEMMA SeparateThen ==
  ASSUME NEW s \in Seq(AnyCall), NEW e \in Seq(AnyCall), Separate(s), \A k \in ToSet(e) : Free(k)
  PROVE  Separate(s \o e)
<1>1. /\ Len(s \o e) = Len(s) + Len(e) /\ Len(s) \in Nat /\ Len(e) \in Nat
      /\ \A i \in 1..Len(s) + Len(e) : (s \o e)[i] = IF i <= Len(s) THEN s[i] ELSE e[i - Len(s)]
  BY ConcatProperties
<1>2. \A i \in 1..Len(e) : Free(e[i]) BY ToSetOfSeq
<1>3. ASSUME NEW i \in 1..Len(s \o e), NEW j \in 1..Len(s \o e), i < j,
             (s \o e)[i].op \in {"cleanup", "to_created", "to_created_forced"}
      PROVE  Free((s \o e)[j])
  <2>1. CASE j <= Len(s)
    <3>1. i \in 1..Len(s) /\ j \in 1..Len(s) /\ (s \o e)[i] = s[i] /\ (s \o e)[j] = s[j] BY <1>1, <1>3, <2>1
    <3>2. QED BY <1>3, <3>1 DEF Separate
  <2>2. CASE j > Len(s)
    <3>1. j - Len(s) \in 1..Len(e) /\ (s \o e)[j] = e[j - Len(s)] BY <1>1, <2>2
    <3>2. QED BY <1>2, <3>1
  <2>3. QED BY <1>1, <2>1, <2>2
<1>4. QED BY <1>3 DEF Separate

\* The updates before the last call, and what they are good for.
Corrections == {"detach_children", "set_model_task", "drop_models"}

LEMMA CleanupCallsAre ==
  ASSUME Documents, NEW K, NEW t \in Tasks, NEW children \in BOOLEAN, NEW output_models \in BOOLEAN,
         NEW s, s = CleanupCalls(t, children, output_models)
  PROVE  /\ s \in Seq(AnyCall) /\ Ordered(K, s)
         /\ \A k \in ToSet(s) : /\ k.op \in Corrections
                                /\ k.op = "drop_models" => \A m \in k.models : m \in Models /\ ~models[m].ready
         /\ children => TaskGoesLast(K, {t}, ToSet(s))
         /\ output_models => \A m \in DraftModels(t) \ InUse(t, DraftModels(t)) : \E k \in ToSet(s) : Drops(k, m)
<1> DEFINE drafts == DraftModels(t)
           used == InUse(t, drafts)
           unused == drafts \ used
           ready == PublishedModels(t)
           reference == IF children THEN DeletedTask ELSE NoTask
           dc == Call("detach_children", {t}, {}, DeletedTask)
           dm == Call("drop_models", {}, unused, NoTask)
           su == Call("set_model_task", {}, used, NoTask)
           sd == Call("set_model_task", {}, drafts, reference)
           sp == Call("set_model_task", {}, ready, reference)
           detach == IF children THEN <<dc>> ELSE <<>>
           both == DropModels(unused) \o SetModelTask(used, NoTask)
           mid == IF output_models THEN both ELSE SetModelTask(drafts, reference)
           pub == SetModelTask(ready, reference)
           two == detach \o mid
           all == two \o pub
<1>1. /\ drafts \in SUBSET Models /\ used \in SUBSET Models /\ unused \in SUBSET Models /\ ready \in SUBSET Models
      /\ reference \in {NoTask, DeletedTask} /\ used \subseteq drafts
      /\ \A m \in drafts : models[m].exists /\ ~models[m].ready
      /\ \A m \in Models : models[m].exists /\ models[m].task = t => m \in drafts \cup ready
  BY DEF DraftModels, PublishedModels, InUse, OfTask, Listed, LiveModels
<1>2. \A c \in Tasks : \A m \in unused : ~(tasks[c].exists /\ m \in tasks[c].inputs)
  BY DEF InUse, LiveTasks
<1>3. s = all BY DEF CleanupCalls, all
<1>4. /\ dc \in AnyCall /\ dc.op = "detach_children" /\ dc.tasks = {t} /\ dc.to = DeletedTask /\ dc.urls = {}
  BY DEF AnyCall, CallDoc, CallNames, Call
<1> HIDE DEF drafts, used, unused, ready, reference, dc
<1>5. dm.op = "drop_models" /\ dm.models = unused /\ dm.urls = {} BY DEF Call
<1>6. su.op = "set_model_task" /\ su.models = used /\ su.urls = {} BY DEF Call
<1>7. sd.op = "set_model_task" /\ sd.models = drafts /\ sd.urls = {} BY DEF Call
<1>8. sp.op = "set_model_task" /\ sp.models = ready /\ sp.urls = {} BY DEF Call
<1>9. /\ DropModels(unused) \in Seq(AnyCall) /\ ToSet(DropModels(unused)) = IF unused = {} THEN {} ELSE {dm}
  BY <1>1, DropModelsIs
<1>10. SetModelTask(used, NoTask) \in Seq(AnyCall) /\ ToSet(SetModelTask(used, NoTask)) = IF used = {} THEN {} ELSE {su}
  BY <1>1, SetModelTaskIs
<1>11. /\ SetModelTask(drafts, reference) \in Seq(AnyCall)
       /\ ToSet(SetModelTask(drafts, reference)) = IF drafts = {} THEN {} ELSE {sd}
  BY <1>1, SetModelTaskIs
<1>12. pub \in Seq(AnyCall) /\ ToSet(pub) = IF ready = {} THEN {} ELSE {sp} BY <1>1, SetModelTaskIs
<1>13. detach \in Seq(AnyCall) /\ ToSet(detach) = IF children THEN {dc} ELSE {}
  BY <1>4, ToSetOfOne, ToSetOfNone
<1> HIDE DEF dm, su, sd, sp, pub, detach
<1>14. /\ mid \in Seq(AnyCall)
       /\ ToSet(mid) = IF output_models THEN (IF unused = {} THEN {} ELSE {dm}) \cup (IF used = {} THEN {} ELSE {su})
                       ELSE IF drafts = {} THEN {} ELSE {sd}
  <2>1. both \in Seq(AnyCall) /\ ToSet(both) = ToSet(DropModels(unused)) \cup ToSet(SetModelTask(used, NoTask))
    BY <1>9, <1>10, ToSetOfConcat
  <2> HIDE DEF both
  <2>2. QED BY <1>9, <1>10, <1>11, <2>1
<1> HIDE DEF mid, both
<1>15. two \in Seq(AnyCall) /\ ToSet(two) = ToSet(detach) \cup ToSet(mid) BY <1>13, <1>14, ToSetOfConcat
<1> HIDE DEF two
<1>16. all \in Seq(AnyCall) /\ ToSet(all) = ToSet(detach) \cup ToSet(mid) \cup ToSet(pub)
  BY <1>12, <1>15, ToSetOfConcat
<1> HIDE DEF all
<1>17. ASSUME NEW k \in ToSet(all)
       PROVE  /\ k.op \in Corrections /\ k.urls = {}
              /\ k.op = "drop_models" => k = dm
    BY <1>4, <1>5, <1>6, <1>7, <1>8, <1>12, <1>13, <1>14, <1>16, <1>17 DEF Corrections
<1>18. \A k \in ToSet(all) : k.op = "drop_models" => \A m \in k.models : m \in Models /\ ~models[m].ready
  <2>1. unused \subseteq drafts BY DEF unused
  <2>2. QED BY <1>1, <1>5, <1>17, <2>1
<1>19. Ordered(K, all)
  <2>1. ModelsGoLast(K, unused, {}) BY <1>2 DEF ModelsGoLast
  <2>2. ASSUME NEW k \in ToSet(all) PROVE Safe(K, k, {})
    BY <1>5, <1>17, <2>1 DEF Safe, ReleasedLast, Corrections
  <2>3. QED BY <1>16, <2>2, SafeAlone
<1>20. ASSUME children PROVE TaskGoesLast(K, {t}, ToSet(all))
  <2>1. dc \in ToSet(all) BY <1>13, <1>16, <1>20
  <2>2. \A c \in Tasks : tasks[c].parent \in {t} => Detaches(dc, c)
    BY <1>4, OutputsAssumption DEF OutputsAssumption, Detaches
  <2>3. ASSUME NEW m \in Models, models[m].exists, models[m].task = t
        PROVE  \E k \in ToSet(all) : Redirects(k, m)
    <3>1. m \in drafts \cup ready BY <1>1, <2>3
    <3>2. CASE m \in ready BY <1>8, <1>12, <1>16, <3>2 DEF Redirects
    <3>3. CASE m \in drafts /\ ~output_models BY <1>7, <1>14, <1>16, <3>3 DEF Redirects
    <3>4. CASE m \in used /\ output_models BY <1>6, <1>14, <1>16, <3>4 DEF Redirects
    <3>5. CASE m \in unused /\ output_models BY <1>5, <1>14, <1>16, <3>5 DEF Redirects
    <3>6. m \in drafts => m \in used \/ m \in unused BY DEF unused
    <3>7. QED BY <3>1, <3>2, <3>3, <3>4, <3>5, <3>6
  <2>4. QED BY <2>1, <2>2, <2>3 DEF TaskGoesLast
<1>21. ASSUME output_models, NEW m \in unused PROVE \E k \in ToSet(all) : Drops(k, m)
  BY <1>5, <1>14, <1>16, <1>21 DEF Drops
<1>22. QED BY <1>3, <1>16, <1>17, <1>18, <1>19, <1>20, <1>21 DEF unused, used, drafts

\* The calls for one task: its own last call may release what it alone owns.
LEMMA TaskCallsBegin ==
  ASSUME Documents, FilesKept, NEW K, NEW t \in Tasks, NEW ask \in AskDoc,
         FilesAreOwned => (ask.collect => ask.output_models),
         NEW U, U = IF ask.collect THEN CleanupUrls(t) ELSE {},
         NEW s, s = CleanupCalls(t, ask.last = "delete_task", ask.output_models) \o <<Releasing(ask.last, {t}, U)>>
  PROVE  /\ s \in Seq(AnyCall) /\ Ordered(K, s) /\ Separate(s)
         /\ \A k \in ToSet(s) : /\ k.op \notin {"cleanup", "set_ready", "schedule"}
                                /\ k.op = "drop_models" => \A m \in k.models : ~models[m].ready
<1> DEFINE calls == CleanupCalls(t, ask.last = "delete_task", ask.output_models)
           rel == Releasing(ask.last, {t}, U)
           end == <<rel>>
           unused == DraftModels(t) \ InUse(t, DraftModels(t))
<1>1. /\ ask.last \in {"delete_task", "to_created", "to_created_forced"} /\ ask.collect \in BOOLEAN
      /\ ask.output_models \in BOOLEAN /\ (ask.last = "delete_task") \in BOOLEAN
  BY DEF AskDoc
<1>2. unused \in SUBSET Models BY DEF DraftModels, OfTask, Listed, LiveModels
<1>3. /\ calls \in Seq(AnyCall) /\ Ordered(K, calls)
      /\ \A k \in ToSet(calls) : /\ k.op \in Corrections
                                 /\ k.op = "drop_models" => \A m \in k.models : m \in Models /\ ~models[m].ready
      /\ (ask.last = "delete_task") => TaskGoesLast(K, {t}, ToSet(calls))
      /\ ask.output_models => \A m \in unused : \E k \in ToSet(calls) : Drops(k, m)
  BY <1>1, CleanupCallsAre
<1>4. CleanupUrls(t) = tasks[t].artifacts \cup {Uri[m] : m \in unused} BY DEF CleanupUrls
<1> HIDE DEF unused
<1>5. U \in SUBSET Urls
  <2>1. tasks[t].artifacts \subseteq Urls BY DEF Documents, TaskDoc
  <2>2. QED BY <1>2, <1>4, <2>1, OutputsAssumption DEF OutputsAssumption
<1>6. rel \in AnyCall /\ rel.op = ask.last /\ rel.tasks = {t} /\ rel.urls = U
  BY <1>1, <1>5 DEF Releasing, AnyCall, CallDoc, CallNames
<1> HIDE DEF calls, rel
<1>7. end \in Seq(AnyCall) /\ ToSet(end) = {rel} /\ Len(end) = 1 BY <1>6, ToSetOfOne
<1> HIDE DEF end
<1>8. Safe(K, rel, ToSet(calls))
  <2>1. rel.op = "delete_task" => TaskGoesLast(K, rel.tasks, ToSet(calls)) BY <1>3, <1>6
  <2>2. rel.op # "drop_models" BY <1>1, <1>6
  <2>3. ASSUME FilesAreOwned PROVE ReleasedLast(rel.urls, ToSet(calls) \cup {rel})
    <3>1. \A c \in Tasks : tasks[c].artifacts \subseteq ArtifactsOf(c) BY <2>3 DEF FilesKept
    <3>2. Empties(rel, t) BY <1>1, <1>6 DEF Empties
    <3>3. ASSUME NEW u \in U
          PROVE  /\ \A c \in Tasks : tasks[c].exists /\ Covers[u] \cap tasks[c].artifacts # {} =>
                      \E b \in ToSet(calls) \cup {rel} : Empties(b, c)
                 /\ \A m \in Models : models[m].exists /\ Uri[m] \in Covers[u] =>
                      \E b \in ToSet(calls) \cup {rel} : Drops(b, m)
      <4>1. ask.collect /\ ask.output_models BY <2>3, <3>3
      <4>2. u \in tasks[t].artifacts \/ \E m \in unused : u = Uri[m] BY <1>4, <3>3
      <4>3. CASE u \in tasks[t].artifacts
        <5>1. u \in ArtifactsOf(t) BY <3>1, <4>3
        <5>2. Covers[u] \cap (ModelFiles \cup UNION {ArtifactsOf(c) : c \in Tasks \ {t}}) = {}
          BY <2>3, <5>1 DEF FilesAreOwned
        <5>3. ASSUME NEW c \in Tasks, Covers[u] \cap tasks[c].artifacts # {} PROVE c = t
          <6>1. Covers[u] \cap ArtifactsOf(c) # {} BY <3>1, <5>3
          <6>2. QED BY <5>2, <6>1
        <5>4. \A m \in Models : Uri[m] \notin Covers[u] BY <5>2 DEF ModelFiles
        <5>5. QED BY <3>2, <5>3, <5>4
      <4>4. CASE \E m \in unused : u = Uri[m]
        <5>1. PICK m \in unused : u = Uri[m] BY <4>4
        <5>2. m \in Models BY <1>2
        <5>3. Covers[u] \cap ({Uri[n] : n \in Models \ {m}} \cup UNION {ArtifactsOf(c) : c \in Tasks}) = {}
          BY <2>3, <5>1, <5>2 DEF FilesAreOwned
        <5>4. ASSUME NEW c \in Tasks, Covers[u] \cap tasks[c].artifacts # {} PROVE FALSE
          <6>1. Covers[u] \cap ArtifactsOf(c) # {} BY <3>1, <5>4
          <6>2. QED BY <5>3, <6>1
        <5>5. \A n \in Models : Uri[n] \in Covers[u] => n = m BY <5>3
        <5>6. PICK b \in ToSet(calls) : Drops(b, m) BY <1>3, <4>1
        <5>7. QED BY <5>4, <5>5, <5>6
      <4>5. QED BY <4>2, <4>3, <4>4
    <3>4. QED BY <1>6, <3>3 DEF ReleasedLast
  <2>4. QED BY <2>1, <2>2, <2>3 DEF Safe
<1> DEFINE all == calls \o end
<1>9. all \in Seq(AnyCall) /\ ToSet(all) = ToSet(calls) \cup ToSet(end) /\ Ordered(K, all)
  <2>1. \A k \in ToSet(end) : Safe(K, k, ToSet(calls)) BY <1>7, <1>8
  <2>2. QED BY <1>3, <1>7, <2>1, Adding
<1>10. Separate(all)
  <2>1. \A k \in ToSet(calls) : k.op \notin {"cleanup", "to_created", "to_created_forced"}
    BY <1>3 DEF Corrections
  <2>2. QED BY <1>3, <1>7, <2>1, SeparateLast
<1>11. s = all BY DEF all, calls, end, rel
<1> HIDE DEF all
<1>12. ASSUME NEW k \in ToSet(all)
       PROVE  /\ k.op \notin {"cleanup", "set_ready", "schedule"}
              /\ k.op = "drop_models" => \A m \in k.models : ~models[m].ready
  <2>1. CASE k \in ToSet(calls) BY <1>3, <2>1 DEF Corrections
  <2>2. CASE k \in ToSet(end) BY <1>1, <1>6, <1>7, <2>2
  <2>3. QED BY <1>9, <2>1, <2>2
<1>13. QED BY <1>9, <1>10, <1>11, <1>12

Careful(k) == Free(k) /\ (FilesAreOwned /\ k.op = "cleanup" => (k.ask.collect => k.ask.output_models))

LEMMA CleanupCareful ==
  ASSUME NEW T \in SUBSET Tasks, NEW ask \in AskDoc, FilesAreOwned => (ask.collect => ask.output_models)
  PROVE  Cleanup(T, ask) \in Seq(AnyCall) /\ \A k \in ToSet(Cleanup(T, ask)) : Careful(k)
BY CleanupIs DEF Careful, Free

LEMMA CarefulConcat ==
  ASSUME NEW s \in Seq(AnyCall), NEW e \in Seq(AnyCall), \A k \in ToSet(s) : Careful(k), \A k \in ToSet(e) : Careful(k)
  PROVE  s \o e \in Seq(AnyCall) /\ \A k \in ToSet(s \o e) : Careful(k)
BY ToSetOfConcat

\* Calls for a task, before what is left of its batch and of the request.
LEMMA CallsAndRest ==
  ASSUME NEW K, NEW s \in Seq(AnyCall), NEW e \in Seq(AnyCall), Ordered(K, s), Separate(s),
         \A k \in ToSet(e) : Careful(k),
         \A k \in ToSet(s) : /\ k.op \notin {"cleanup", "set_ready", "schedule"}
                             /\ k.op = "drop_models" => \A m \in k.models : ~models[m].ready
  PROVE  Begins(K, s \o e)
<1> DEFINE all == s \o e
<1>1. all \in Seq(AnyCall) /\ ToSet(all) = ToSet(s) \cup ToSet(e) /\ Ordered(K, all)
  <2>1. \A k \in ToSet(e) : Safe(K, k, ToSet(s)) BY Harmless DEF Careful, Free
  <2>2. QED BY <2>1, Adding
<1>2. Separate(all) BY SeparateThen DEF Careful
<1> HIDE DEF all
<1>3. DraftsOnly(all) BY <1>1 DEF DraftsOnly, Careful, Free
<1>4. CarefulPlan(all) BY <1>1 DEF CarefulPlan, Careful
<1>5. QED BY <1>1, <1>2, <1>3, <1>4 DEF Begins, all

LEMMA RunCleanupInv == ASSUME OutInv, RunCleanup PROVE OutInv'
<1> DEFINE ask == now.ask
           single == [ask EXCEPT !.steps = FALSE]
           forced == [single EXCEPT !.force = TRUE, !.collect = FALSE]
           children(t) == {c \in LiveTasks : tasks[c].parent = t}
           U(t) == IF ask.collect THEN CleanupUrls(t) ELSE {}
           its(t) == CleanupCalls(t, ask.last = "delete_task", ask.output_models) \o <<Releasing(ask.last, {t}, U(t))>>
           both(t) == Cleanup(children(t), forced) \o Cleanup({t}, single)
           first(t) == IF t \notin LiveTasks THEN <<>>
                       ELSE IF ask.steps /\ t \in Controllers THEN both(t)
                       ELSE IF ~ask.force /\ HasPublished(t) THEN <<>> ELSE its(t)
           others(t) == Cleanup(now.tasks \ {t}, ask)
<1>1. /\ todo # <<>> /\ now.op = "cleanup" /\ UNCHANGED <<urlVars, tasks, models, urls, emptied, asked, stops>>
  BY DEF RunCleanup, At
<1>2. PICK t \in now.tasks : todo' = first(t) \o others(t) \o Tail(todo) BY DEF RunCleanup
<1>3. now \in CleanupDoc
  <2>1. now \in AnyCall BY <1>1, Now
  <2>2. QED BY <1>1, <2>1 DEF AnyCall, CallDoc, CallNames
<1>4. t \in Tasks /\ now.tasks \ {t} \in SUBSET Tasks /\ ask \in AskDoc BY <1>2, <1>3 DEF CleanupDoc
<1>5. FilesAreOwned => (ask.collect => ask.output_models) BY <1>1, Now DEF OutInv, Plan, CarefulPlan
<1>6. single \in AskDoc /\ (FilesAreOwned => (single.collect => single.output_models)) BY <1>4, <1>5 DEF AskDoc
<1>7. forced \in AskDoc /\ ~forced.collect BY <1>4 DEF AskDoc
<1>8. /\ Tail(todo) \in Seq(AnyCall) /\ Len(Tail(todo)) = Len(todo) - 1 /\ Len(todo) \in Nat \ {0}
      /\ \A i \in 1..Len(Tail(todo)) : Tail(todo)[i] = todo[i + 1]
      /\ now = todo[1] /\ ToSet(Tail(todo)) \subseteq ToSet(todo)
  BY <1>1, Now
<1>9. ASSUME NEW k \in ToSet(Tail(todo)) PROVE Careful(k)
  <2> DEFINE tail == Tail(todo)
  <2>1. tail \in Seq(AnyCall) /\ k \in ToSet(tail) BY <1>8, <1>9
  <2> HIDE DEF tail
  <2>2. \E i \in 1..Len(tail) : k = tail[i] BY <2>1, ToSetOfSeq
  <2>3. PICK i \in 1..Len(Tail(todo)) : k = Tail(todo)[i] BY <2>2 DEF tail
  <2>4. 1 \in 1..Len(todo) /\ i + 1 \in 1..Len(todo) /\ 1 < i + 1 /\ k = todo[i + 1] BY <1>8, <2>3
  <2>5. Free(k) BY <1>1, <1>8, <2>4 DEF OutInv, Plan, Separate
  <2>6. FilesAreOwned /\ k.op = "cleanup" => (k.ask.collect => k.ask.output_models)
    BY <1>8, <1>9 DEF OutInv, Plan, CarefulPlan
  <2>7. QED BY <2>5, <2>6 DEF Careful
<1> HIDE DEF ask, single, forced
<1>10. others(t) \in Seq(AnyCall) /\ \A k \in ToSet(others(t)) : Careful(k) BY <1>4, <1>5, CleanupCareful
<1> DEFINE rest == others(t) \o Tail(todo)
<1>11. rest \in Seq(AnyCall) /\ \A k \in ToSet(rest) : Careful(k) BY <1>8, <1>9, <1>10, CarefulConcat
<1> DEFINE one == first(t)
<1>12. ASSUME one \in Seq(AnyCall) PROVE todo' = one \o rest
  <2> DEFINE o == others(t)
             tail == Tail(todo)
  <2>1. todo' = (one \o o) \o tail /\ rest = o \o tail BY <1>2
  <2>2. o \in Seq(AnyCall) /\ tail \in Seq(AnyCall) BY <1>8, <1>10
  <2> HIDE DEF one, o, tail, rest
  <2>3. (one \o o) \o tail = one \o (o \o tail) BY <1>12, <2>2, ConcatAssociative
  <2>4. QED BY <2>1, <2>3
<1>13. Spared' = Spared BY <1>1 DEF Spared
<1>14. stops' \in 0..MaxStops BY <1>1 DEF OutInv, Documents
<1>15. CASE one \in {<<>>, both(t)}
  <2>1. both(t) \in Seq(AnyCall) /\ \A k \in ToSet(both(t)) : Careful(k)
    <3>1. /\ Cleanup(children(t), forced) \in Seq(AnyCall)
          /\ \A k \in ToSet(Cleanup(children(t), forced)) : Careful(k)
      <4>1. children(t) \in SUBSET Tasks BY DEF LiveTasks
      <4>2. QED BY <1>7, <4>1, CleanupCareful
    <3>2. Cleanup({t}, single) \in Seq(AnyCall) /\ \A k \in ToSet(Cleanup({t}, single)) : Careful(k)
      BY <1>4, <1>6, CleanupCareful
    <3> HIDE DEF children
    <3>3. QED BY <3>1, <3>2, CarefulConcat
  <2>2. <<>> \in Seq(AnyCall) /\ \A k \in ToSet(<<>>) : Careful(k) BY ToSetOfNone
  <2> HIDE DEF both
  <2>3. one \in Seq(AnyCall) /\ \A k \in ToSet(one) : Careful(k) BY <1>15, <2>1, <2>2
  <2> HIDE DEF one, rest
  <2>4. todo' \in Seq(AnyCall) /\ \A k \in ToSet(todo') : Careful(k) BY <1>11, <1>12, <2>3, CarefulConcat
  <2>5. Plan' BY <2>4, FreePlan DEF Careful
  <2>6. QED BY <1>1, <1>14, <2>4, <2>5, SameDocuments
<1>16. CASE one = its(t)
  <2>1. /\ its(t) \in Seq(AnyCall) /\ Ordered(Spared, its(t)) /\ Separate(its(t))
        /\ \A k \in ToSet(its(t)) : /\ k.op \notin {"cleanup", "set_ready", "schedule"}
                                    /\ k.op = "drop_models" => \A m \in k.models : ~models[m].ready
    <3>1. Documents /\ FilesKept BY DEF OutInv
    <3> HIDE DEF U, its
    <3>2. U(t) = (IF ask.collect THEN CleanupUrls(t) ELSE {}) BY DEF U
    <3>3. its(t) = CleanupCalls(t, ask.last = "delete_task", ask.output_models) \o <<Releasing(ask.last, {t}, U(t))>>
      BY DEF its
    <3>4. QED BY <1>4, <1>5, <3>1, <3>2, <3>3, TaskCallsBegin
  <2> HIDE DEF one, rest, its
  <2>2. Begins(Spared, one \o rest) BY <1>11, <1>16, <2>1, CallsAndRest
  <2>3. todo' = one \o rest BY <1>12, <1>16, <2>1
  <2>4. Begins(Spared', todo') BY <1>13, <2>2, <2>3
  <2>5. Plan' BY <1>1, <2>4, PlanKept
  <2>6. todo' \in Seq(AnyCall) BY <2>4 DEF Begins
  <2>7. QED BY <1>1, <1>14, <2>5, <2>6, SameDocuments
<1>17. one \in {<<>>, both(t), its(t)}
  <2> HIDE DEF both, its
  <2>1. QED OBVIOUS
<1>18. QED BY <1>15, <1>16, <1>17

-----------------------------------------------------------------------------
(* The specification.                                                      *)

LEMMA OutInitInv == OutInit => OutInv
<1> SUFFICES ASSUME OutInit PROVE OutInv OBVIOUS
<1>1. PICK s \in Starts : tasks = s.tasks /\ models = s.models BY DEF OutInit
<1>2. UrlInv BY UrlInitInv DEF OutInit
<1>3. todo = <<>> /\ urls = {} /\ emptied = FALSE /\ asked = 0 /\ stops = 0 BY DEF OutInit
<1>4. Documents
  <2>1. tasks \in [Tasks -> TaskDoc] /\ models \in [Models -> ModelDoc]
    BY <1>1, StartsAssumption DEF StartsAssumption
  <2>2. todo \in Seq(AnyCall) /\ urls \subseteq Urls BY <1>3, ToSetOfNone
  <2>3. asked \in 0..MaxRequests /\ stops \in 0..MaxStops BY <1>3, OutputsAssumption DEF OutputsAssumption
  <2>4. QED BY <1>3, <2>1, <2>2, <2>3 DEF Documents
<1>5. todo \in Seq(AnyCall) /\ Len(todo) = 0 /\ ToSet(todo) = {} BY <1>3, ToSetOfNone
<1>6. Plan BY <1>5 DEF Plan, Ordered, Separate, DraftsOnly, CarefulPlan
<1>7. References BY <1>1, StartsAssumption DEF StartsAssumption, References
<1>8. FilesKept
  <2>1. files = Files /\ job = JobIdle /\ \A u \in Urls : ~records[u].exists BY DEF OutInit, UrlInit, NoRecord
  <2>2. Doomed = {} BY <2>1 DEF Doomed, Recorded, JobIdle
  <2>3. \A t \in Tasks : tasks[t].artifacts \subseteq ArtifactsOf(t) BY <1>1 DEF ArtifactsOf
  <2>4. QED BY <1>1, <1>3, <2>1, <2>2, <2>3 DEF FilesKept, FilesAreOwned, NotInUse
<1>9. QED BY <1>2, <1>4, <1>6, <1>7, <1>8 DEF OutInv

LEMMA OutStep == ASSUME OutInv, [OutNext]_outVars PROVE OutInv'
<1>1. CASE UNCHANGED outVars
  <2>1. UNCHANGED <<urlVars, tasks, models, urls, emptied, asked, todo, stops>> BY <1>1 DEF outVars, dbVars
  <2>2. todo' \in Seq(AnyCall) /\ stops' \in 0..MaxStops BY <2>1 DEF OutInv, Documents
  <2>3. Spared' = Spared BY <2>1 DEF Spared
  <2>4. Begins(Spared', todo') BY <2>1, <2>2, <2>3 DEF OutInv, Plan, Begins
  <2>5. Plan' BY <2>1, <2>4, PlanKept
  <2>6. QED BY <2>1, <2>2, <2>5, SameDocuments
<1>2. CASE Requests
  <2>1. ASSUME NEW T \in SUBSET Tasks, NEW force \in BOOLEAN, NEW o \in Options,
               (\E steps \in BOOLEAN : DeleteTasks(T, force, steps, o)) \/ ResetTasks(T, force, o)
        PROVE  OutInv'
    BY <2>1, DeleteTasksInv, ResetTasksInv
  <2>2. ASSUME NEW force \in BOOLEAN, NEW o \in Options,
               DeleteProject(force, o) \/ \E m \in Models : DeleteModel(m, force, o)
        PROVE  OutInv'
    BY <2>2, DeleteProjectInv, DeleteModelInv
  <2>3. ASSUME NEW force \in BOOLEAN, NEW also \in BOOLEAN,
               \/ \E t \in Tasks : PublishTask(t, force, also)
               \/ \E m \in Models : PublishModel(m, force, also)
        PROVE  OutInv'
    BY <2>3, PublishTaskInv, PublishModelInv
  <2>4. ASSUME NEW t \in Tasks, NEW m \in Models, NEW type \in {"input", "output"}, AddModel(t, m, type)
        PROVE  OutInv'
    BY <2>4, AddModelInv
  <2>5. QED BY <1>2, <2>1, <2>2, <2>3, <2>4 DEF Requests
<1>3. CASE Calls
  BY <1>3, RunCleanupInv, DetachChildrenInv, OrphanModelsInv, SetModelsTaskInv, DeleteModelsInv, MarkInputsInv,
     MarkOutputsInv, PullOutputsInv, DeleteDocumentsInv, ToCreatedInv, SetStatusInv, SetReadyInv,
     ScheduleCollectedInv, ServerStopsInv
  DEF Calls
<1>4. CASE UrlNext /\ UNCHANGED dbVars BY <1>4, JobInv
<1>5. QED BY <1>1, <1>2, <1>3, <1>4 DEF OutNext

LEMMA OutInvariance == OutSpec => []OutInv
<1>1. OutInv /\ [OutNext]_outVars => OutInv' BY OutStep
<1>2. QED BY <1>1, OutInitInv, PTL DEF OutSpec

-----------------------------------------------------------------------------
\* The documents, the calls that are left, what a request has collected and the files,
\* records and memory of the job keep their types.
THEOREM OutputsTypeCorrect == OutSpec => []OutTypeOK
<1>1. OutInv => OutTypeOK
  BY DEF OutInv, UrlInv, TypeInv, UrlTypeOK, JobType, Record, Places, Documents, OutTypeOK, AnyCall
<1>2. QED BY <1>1, OutInvariance, PTL

\* References lead to a document or say that it was deleted, for any tasks, models and
\* project, any requests with any flags, and wherever the server stops: each deletion comes
\* after the updates of what refers to it (cleanup_task, delete_model, delete_project).
THEOREM ReferencesAlwaysResolve == OutSpec => []ReferencesResolve
<1>1. ASSUME OutInv PROVE ReferencesResolve
  <2>1. Documents /\ References BY <1>1 DEF OutInv
  <2>2. ASSUME NEW t \in LiveTasks, emptied => t \notin InProject
        PROVE  /\ tasks[t].inputs \subseteq LiveModels \cup {DeletedModel}
               /\ tasks[t].parent \in LiveTasks \cup {NoTask, DeletedTask}
    <3>1. t \in Tasks /\ tasks[t].exists /\ t \in Spared BY <2>2 DEF LiveTasks, Spared
    <3>2. tasks[t].inputs \subseteq Models \cup {DeletedModel} /\ tasks[t].parent \in Tasks \cup {NoTask, DeletedTask}
      BY <2>1, <3>1 DEF Documents, TaskDoc
    <3>3. QED BY <2>1, <3>1, <3>2 DEF References, LiveTasks, LiveModels
  <2>3. ASSUME NEW m \in LiveModels, emptied => m \notin InProject
        PROVE  models[m].task \in LiveTasks \cup {NoTask, DeletedTask}
    <3>1. m \in Models /\ models[m].exists /\ m \in Spared BY <2>3 DEF LiveModels, Spared
    <3>2. models[m].task \in Tasks \cup {NoTask, DeletedTask} BY <2>1, <3>1 DEF Documents, ModelDoc
    <3>3. QED BY <2>1, <3>1, <3>2 DEF References, LiveTasks
  <2>4. QED BY <2>2, <2>3 DEF ReferencesResolve
<1>2. QED BY <1>1, OutInvariance, PTL

\* No file goes that a task or a model still names, whatever requests schedule while the
\* job works, when every file has one owner and clients that release urls delete the
\* models too (FilesAreOwned): schedule_for_delete gets a url only after its document.
THEOREM OwnedFilesSurvive == ASSUME FilesAreOwned PROVE OutSpec => []FilesInUseSurvive
<1>1. OutInv => FilesInUseSurvive BY DEF OutInv, FilesKept, FilesInUseSurvive, LiveTasks, LiveModels
<1>2. QED BY <1>1, OutInvariance, PTL

LEMMA LastOfSeq == ASSUME NEW S, NEW s \in Seq(S), s # <<>> PROVE Last(s) \in ToSet(s)
<1>1. Len(s) \in 1..Len(s) BY EmptySeq
<1>2. QED BY <1>1, ToSetOfSeq DEF Last

\* A published model is deleted only by a request for that model or its project: the
\* cleanup of a task deletes drafts, and no request publishes them meanwhile.
THEOREM CleanupKeepsPublishedModels == OutSpec => PublishedModelsStay
<1>1. ASSUME OutInv, [OutNext]_outVars, NEW m \in Models, models[m].ready, models[m].exists, ~models'[m].exists
      PROVE  Last(todo).op # "schedule"
  <2>1. \A n \in Models : models[n] \in ModelDoc BY <1>1 DEF OutInv, Documents
  <2>2. models' # models BY <1>1
  <2>3. ~Requests
    BY <2>2 DEF Requests, DeleteTasks, ResetTasks, DeleteProject, DeleteModel, PublishTask, PublishModel, AddModel
  <2>4. ~OrphanModels BY <1>1, <2>1 DEF OrphanModels, UpdateModels, ModelDoc
  <2>5. ~SetModelsTask BY <1>1, <2>1 DEF SetModelsTask, UpdateModels, ModelDoc
  <2>6. ~SetReady BY <1>1, <2>1 DEF SetReady, UpdateModels, ModelDoc
  <2>7. DeleteModels
    BY <1>1, <2>2, <2>3, <2>4, <2>5, <2>6
    DEF OutNext, outVars, dbVars, Calls, RunCleanup, DetachChildren, MarkInputs, MarkOutputs, PullOutputs,
        DeleteDocuments, ToCreated, SetStatus, ScheduleCollected, ServerStops
  <2>8. todo # <<>> /\ now.op = "drop_models" BY <2>7 DEF DeleteModels, At
  <2>9. m \in now.models BY <1>1, <2>1, <2>7 DEF DeleteModels, UpdateModels
  <2>10. now \in ToSet(todo) BY <1>1, <2>8, Now
  <2>11. Last(todo) \in ToSet(todo) BY <1>1, <2>8, LastOfSeq DEF OutInv, Documents
  <2>12. QED BY <1>1, <2>8, <2>9, <2>10, <2>11 DEF OutInv, Plan, DraftsOnly
<1>2. OutInv /\ [OutNext]_outVars =>
        [\A m \in Models : models[m].ready /\ models[m].exists /\ ~models'[m].exists => Last(todo).op # "schedule"]_outVars
  BY <1>1
<1>3. QED BY <1>2, OutInvariance, PTL DEF OutSpec, PublishedModelsStay

\* The requests do to records and files nothing but schedule urls: what UrlDeletion proves
\* of any requests that schedule holds of these.
THEOREM RequestsOnlySchedule == OutSpec => UrlSpec
<1>1. OutInit => UrlInit BY DEF OutInit
<1>2. ASSUME OutInv, [OutNext]_outVars PROVE [UrlNext \/ \E S \in SUBSET Urls : ScheduleUrls(S)]_urlVars
  <2>1. CASE UNCHANGED outVars BY <2>1 DEF outVars
  <2>2. CASE Requests
    BY <2>2 DEF Requests, DeleteTasks, ResetTasks, DeleteProject, DeleteModel, PublishTask, PublishModel, AddModel,
       Begin, AtOnce
  <2>3. CASE ScheduleCollected
    <3>1. todo # <<>> /\ now.op \in {"schedule", "schedule_models"} /\ ScheduleUrls(urls \cup now.urls)
      BY <2>3 DEF ScheduleCollected, At
    <3>2. now.urls \subseteq Urls BY <1>2, <3>1, CallNow DEF CallDoc
    <3>3. urls \cup now.urls \in SUBSET Urls BY <1>2, <3>2 DEF OutInv, Documents
    <3>4. QED BY <3>1, <3>3
  <2>4. CASE Calls /\ ~ScheduleCollected
    BY <2>4 DEF Calls, RunCleanup, DetachChildren, OrphanModels, SetModelsTask, DeleteModels, MarkInputs, MarkOutputs,
       PullOutputs, DeleteDocuments, ToCreated, SetStatus, SetReady, ServerStops, Continue
  <2>5. CASE UrlNext BY <2>5
  <2>6. QED BY <1>2, <2>1, <2>2, <2>3, <2>4, <2>5 DEF OutNext
<1>3. QED BY <1>1, <1>2, OutInvariance, PTL DEF OutSpec, UrlSpec
=============================================================================
