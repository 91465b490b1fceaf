---------------------------- MODULE UrlDeletion ----------------------------
(***************************************************************************)
(* Asynchronous deletion of files in external storage.                     *)
(*                                                                         *)
(* A request that removes tasks or models schedules the urls of their      *)
(* files (task_cleanup.py): one record for each url, which a second request*)
(* finds there and starts over.  A separate process, the job               *)
(* (jobs/async_urls_delete.py), takes the records of one storage at a time,*)
(* asks the storage to delete the files, removes the records of those that *)
(* are gone and gives up the others after max_retries attempts.            *)
(* The job may die at any time; what it holds in memory is lost.           *)
(***************************************************************************)
EXTENDS Naturals, FiniteSets, Functions

CONSTANTS
  Urls,          \* what records are kept for: files and folders
  Files,         \* the files in external storage
  Covers,        \* the files that go when a url is deleted: itself, or those in a folder
  StorageOf,     \* the storage type of each url
  Misconfigured, \* urls without a base: no configuration for their account
  NoPath,        \* urls that get_path refuses
  MaxRetries,    \* services.async_urls_delete.max_retries
  ChunkSize,     \* paths in one call of the storage
  MaxDeaths      \* bound: how often the job dies

ASSUME UrlsAssumption ==
  /\ Covers \in [Urls -> SUBSET Files] /\ DOMAIN StorageOf = Urls
  /\ Misconfigured \subseteq Urls /\ NoPath \subseteq Urls
  /\ MaxRetries \in Nat \ {0} /\ ChunkSize \in Nat \ {0} /\ MaxDeaths \in Nat

VARIABLES
  files,    \* the files that are there
  records,  \* the UrlToDelete documents
  job,      \* what the job holds in memory
  attempts, \* history: calls made to a storage, or failed to be made, for a record
  deaths    \* how often the job died

urlVars == <<files, records, job, attempts, deaths>>

-----------------------------------------------------------------------------
(* Records.  A record rests after a failure until retry_timeout has passed.*)

NoRecord == [exists |-> FALSE, status |-> "none", retry_count |-> 0, resting |-> FALSE]
NewRecord == [exists |-> TRUE, status |-> "created", retry_count |-> 0, resting |-> FALSE]

Recorded == {u \in Urls : records[u].exists}

\* urls_query in run_delete_loop.
Due(u) == /\ records[u].exists /\ records[u].status # "failed"
          /\ records[u].retry_count < MaxRetries /\ ~records[u].resting

GivenUp(u) == records[u].status = "failed" \/ records[u].retry_count >= MaxRetries

\* Mutant of Scheduled: a record that is there keeps its count.
ScheduledAgain(S) ==
  [u \in Urls |-> IF u \notin S THEN records[u]
                  ELSE IF records[u].exists THEN [records[u] EXCEPT !.status = "created"] ELSE NewRecord]

\* schedule_for_delete: a save, or a reset of the record that is there.
Scheduled(S) == [u \in Urls |-> IF u \in S THEN NewRecord ELSE records[u]]

\* An attempt that has been made and not been marked yet is one of the new record, which
\* will be charged with it.
AttemptsRestarted(S) ==
  [u \in Urls |-> IF u \notin S THEN attempts[u]
                  ELSE IF u \in job.chunk /\ job.pc \in {"mark", "remove", "missing"} THEN 1 ELSE 0]

\* Mutant of RetryFailed: the count of attempts is not increased.
RetryFailedUncounted(S) ==
  [u \in Urls |-> IF u \in S \cap Recorded THEN [records[u] EXCEPT !.resting = TRUE]
                  ELSE records[u]]

\* mark_retry_failed.  Its second update sets the status; a record whose count is
\* MaxRetries is not due either way, so the two are one step.  A larger count tells no
\* more and is not kept.
RetryFailed(S) ==
  [u \in Urls |->
     IF u \notin S \cap Recorded THEN records[u]
     ELSE [records[u] EXCEPT !.resting = TRUE, !.retry_count = IF @ < MaxRetries THEN @ + 1 ELSE @,
             !.status = IF records[u].retry_count + 1 >= MaxRetries THEN "failed" ELSE @]]

\* mark_failed
Failed(S) == [u \in Urls |-> IF u \in S \cap Recorded
                               THEN [records[u] EXCEPT !.status = "failed", !.resting = TRUE]
                               ELSE records[u]]

\* A request schedules urls, also those that have been scheduled before.
ScheduleUrls(S) ==
  /\ records' = Scheduled(S)
  /\ attempts' = AttemptsRestarted(S)
  /\ UNCHANGED <<files, job, deaths>>

Without(S) == [u \in Urls |-> IF u \in S THEN NoRecord ELSE records[u]]

-----------------------------------------------------------------------------
(* The job.                                                                *)

JobIdle == [pc |-> "idle", group |-> {}, todo |-> {}, chunk |-> {}, deleted |-> {}, errors |-> {}]

Resume(fields) == job' = [f \in DOMAIN job |-> IF f \in DOMAIN fields THEN fields[f] ELSE job[f]]

\* More attempts than MaxRetries tell no more and are not counted.
Attempted(S) == attempts' = [u \in Urls |-> IF u \in S /\ attempts[u] < MaxRetries
                                              THEN attempts[u] + 1 ELSE attempts[u]]

\* run_delete_loop takes the storage of a record tried least often; delete_urls reads
\* all the records due for it and gives up those without a base.
StartBatch ==
  /\ job.pc = "idle"
  /\ \E first \in Urls :
       /\ Due(first)
       /\ \A u \in Urls : Due(u) => records[first].retry_count <= records[u].retry_count
       /\ LET batch == {u \in Urls : Due(u) /\ StorageOf[u] = StorageOf[first]}
          IN  /\ records' = Failed(batch \cap Misconfigured)
              /\ IF batch \subseteq Misconfigured THEN UNCHANGED job
                 ELSE Resume([pc |-> "connect", group |-> batch \ Misconfigured])
  /\ UNCHANGED <<files, attempts, deaths>>

\* storage.get_client for the group of records that share a base.
GetClient ==
  /\ job.pc = "connect"
  /\ \/ Resume([pc |-> "chunks", todo |-> job.group]) /\ UNCHANGED <<records, attempts>>
     \/ /\ records' = RetryFailed(job.group)
        /\ Attempted(job.group)
        /\ job' = JobIdle
  /\ UNCHANGED <<files, deaths>>

\* The next chunk; a record whose path cannot be found is given up.
NextChunk ==
  /\ job.pc = "chunks"
  /\ IF job.todo = {} THEN job' = JobIdle /\ UNCHANGED records
     ELSE \E chunk \in SUBSET job.todo :
            /\ Cardinality(chunk) = IF Cardinality(job.todo) < ChunkSize
                                      THEN Cardinality(job.todo) ELSE ChunkSize
            /\ records' = Failed(chunk \cap NoPath)
            /\ Resume([pc |-> IF chunk \subseteq NoPath THEN "chunks" ELSE "delete",
                       todo |-> job.todo \ chunk, chunk |-> chunk \ NoPath])
  /\ UNCHANGED <<files, attempts, deaths>>

\* client.delete_many answers for some of the paths that they are deleted, for others
\* that they are not, and says nothing about the rest, whose files may be gone or not.
\* What it says it deleted is deleted.
DeleteMany ==
  /\ job.pc = "delete"
  /\ \E gone \in SUBSET job.chunk : \E deleted \in SUBSET gone :
       \E errors \in SUBSET (job.chunk \ gone) :
         /\ files' = files \ UNION {Covers[u] : u \in gone}
         /\ Resume([pc |-> "mark", deleted |-> deleted, errors |-> errors])
  /\ Attempted(job.chunk)
  /\ UNCHANGED <<records, deaths>>

\* It raises, having deleted some files or none: the whole group is marked, also the
\* records of other chunks.
DeleteManyRaises ==
  /\ job.pc = "delete"
  /\ \E gone \in SUBSET job.chunk : files' = files \ UNION {Covers[u] : u \in gone}
  /\ Attempted(job.chunk)
  /\ records' = RetryFailed(job.group)
  /\ Resume([pc |-> "chunks", chunk |-> {}])
  /\ UNCHANGED deaths

MarkErrors ==
  /\ job.pc = "mark"
  /\ records' = RetryFailed(job.errors)
  /\ Resume([pc |-> "remove"])
  /\ UNCHANGED <<files, attempts, deaths>>

\* Mutant of Removable: the records of the whole chunk.
WholeChunk == job.chunk

Removable == job.deleted

RemoveRecords ==
  /\ job.pc = "remove"
  /\ records' = Without(Removable)
  /\ attempts' = [u \in Urls |-> IF u \in Removable THEN 0 ELSE attempts[u]]
  /\ Resume([pc |-> "missing"])
  /\ UNCHANGED <<files, deaths>>

MarkMissing ==
  /\ job.pc = "missing"
  /\ records' = RetryFailed(job.chunk \ (job.deleted \cup job.errors))
  /\ Resume([pc |-> "chunks", chunk |-> {}, deleted |-> {}, errors |-> {}])
  /\ UNCHANGED <<files, attempts, deaths>>

\* The process dies; the container starts it again.
JobDies ==
  /\ job.pc # "idle" /\ deaths < MaxDeaths
  /\ job' = JobIdle /\ deaths' = deaths + 1
  /\ UNCHANGED <<files, records, attempts>>

\* retry_timeout passes since the last failure of a record.
TimePasses(u) ==
  /\ records[u].resting /\ records[u].status # "failed"
  /\ records' = [records EXCEPT ![u].resting = FALSE]
  /\ UNCHANGED <<files, job, attempts, deaths>>

JobStep == \/ StartBatch \/ GetClient \/ NextChunk \/ DeleteMany \/ DeleteManyRaises
           \/ MarkErrors \/ RemoveRecords \/ MarkMissing

UrlNext == JobStep \/ JobDies \/ \E u \in Urls : TimePasses(u)

UrlInit ==
  /\ files = Files
  /\ records = [u \in Urls |-> NoRecord]
  /\ job = JobIdle
  /\ attempts = [u \in Urls |-> 0]
  /\ deaths = 0

UrlSpec == UrlInit /\ [][UrlNext \/ \E S \in SUBSET Urls : ScheduleUrls(S)]_urlVars

\* The job loops for ever and sleeps at most 10 seconds; the clock does not stop.
UrlFairness == WF_urlVars(JobStep) /\ \A u \in Urls : WF_urlVars(TimePasses(u))

UrlTypeOK ==
  /\ files \subseteq Files
  /\ records \in [Urls -> [exists: BOOLEAN, status: {"none", "created", "failed"},
                           retry_count: 0..MaxRetries, resting: BOOLEAN]]
  /\ job.pc \in {"idle", "connect", "chunks", "delete", "mark", "remove", "missing"}
  /\ \A f \in {"group", "todo", "chunk", "deleted", "errors"} : job[f] \subseteq Urls
  /\ attempts \in [Urls -> 0..MaxRetries] /\ deaths \in 0..MaxDeaths

\* A record is removed only when the files it stands for are gone: whatever the storage
\* leaves unanswered, and wherever the job dies, no file is forgotten.
RecordsOutliveFiles ==
  [][\A u \in Urls : records[u].exists /\ ~records'[u].exists => Covers[u] \cap files = {}]_urlVars

\* A record is given up only after max_retries attempts, unless its url is unusable.
\* It needs a group that fits one call of the storage.
GivenUpAfterRetries ==
  \A u \in Urls \ (Misconfigured \cup NoPath) :
    records[u].status = "failed" => attempts[u] >= MaxRetries

\* As long as nothing more is scheduled for some time, every record is removed or given
\* up, whatever the storage answers and however often the job has died.
RecordsSettle == []<>(\A u \in Urls : ~records[u].exists \/ GivenUp(u))
=============================================================================
