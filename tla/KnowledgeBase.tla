--------------------------- MODULE KnowledgeBase ---------------------------
(***************************************************************************)
(* The life of a document: upload request, ingest queue, background        *)
(* worker, the SQL rows (ingest_jobs, documents), the chunks in Qdrant,    *)
(* the temporary and preview files, and deletion.  With                    *)
(* APP_INGEST_ASYNC_ENABLED off, the upload request runs the job itself.   *)
(*                                                                         *)
(* No transaction spans SQL, Qdrant, Redis and the disk.  Every call to    *)
(* one of them is a step of its own; a call that may fail does nothing     *)
(* and raises ("lost"), or takes effect and raises ("late": the reply or   *)
(* the refresh after the commit is lost).                                  *)
(***************************************************************************)
EXTENDS Naturals, Sequences

CONSTANTS Jobs,      \* uploads; a job id names its job, its file and its request
          Docs,      \* document ids (uuid4)
          Direct,    \* the uploads taken with ingest_async_enabled off
          Workers,   \* RQ worker processes
          Admins,    \* admins' delete requests
          Tenants, TenantOf,   \* the tenant of every upload and admin
          Faults,    \* what may fail: a service, the worker process, the 15 minutes of a job
          Legacy,    \* TRUE: admins pick ids from GET /documents/legacy too
          None

Services == {"db", "qdrant", "redis", "crash", "timeout"}

ASSUME TenantOfAssumption == TenantOf \in [Jobs \cup Admins -> Tenants]
ASSUME FaultsAssumption == Faults \subseteq Services /\ Legacy \in BOOLEAN
ASSUME NoneAssumption == None \notin Jobs \cup Docs
ASSUME DirectAssumption == Direct \subseteq Jobs /\ Workers \cap Jobs = {}

\* Who runs process_ingest_job; an upload that runs its job goes by the job's name.
Runners == Workers \cup Direct

VARIABLES job,      \* ingest_jobs: status and document_id
          row,      \* documents: status
          collection,  \* the Qdrant collection exists
          points,   \* documents with chunks in it
          owner,    \* the upload a document id was generated for (chunk payload)
          file,     \* uploads whose temporary file is on disk
          preview,  \* documents with a copy in preview storage
          queue,    \* the RQ list
          request,  \* where the upload request of a job stands
          worker,   \* what each runner does
          purge     \* what each delete request still has to do

vars == <<job, row, collection, points, owner, file, preview, queue, request, worker, purge>>
stores == <<row, collection, points, owner, preview>>
uploads == <<job, file, queue, request>>

JobStatus == {"absent", "queued", "processing", "completed", "failed"}
Idle == [pc |-> "idle", job |-> None, doc |-> None]
NoPurge == [pc |-> "idle", todo |-> {}]

\* The types; and a worker past the indexing holds the id of its document.
TypeOK ==
  /\ job \in [Jobs -> [status : JobStatus, doc : Docs \cup {None}]]
  /\ row \in [Docs -> {"absent", "active", "deleted"}]
  /\ points \subseteq Docs /\ preview \subseteq Docs
  /\ owner \in [Docs -> Jobs \cup {None}]
  /\ file \subseteq Jobs
  /\ queue \in Seq(Jobs)
  /\ collection \in BOOLEAN
  /\ request \in [Jobs -> {"new", "saved", "created", "refused", "handed", "accepted", "error"}]
  /\ worker \in [Runners -> [pc : {"idle", "picked", "working", "creating", "ready", "indexed",
                                    "recorded", "failing", "cleanup"},
                             job : Jobs \cup {None}, doc : Docs \cup {None}]]
  /\ \A w \in Runners : /\ (worker[w].pc = "idle") = (worker[w].job = None)
                        /\ w \in Direct => worker[w].job \in {w, None}
                        /\ worker[w].pc \in {"indexed", "recorded"} => worker[w].doc # None
  /\ purge \in [Admins -> [pc : {"idle", "checked", "purging"}, todo : SUBSET Docs]]

Init == /\ job = [j \in Jobs |-> [status |-> "absent", doc |-> None]]
        /\ row = [d \in Docs |-> "absent"]
        /\ collection = FALSE
        /\ points = {} /\ preview = {} /\ file = {}
        /\ owner = [d \in Docs |-> None]
        /\ queue = <<>>
        /\ request = [j \in Jobs |-> "new"]
        /\ worker = [w \in Runners |-> Idle]
        /\ purge = [a \in Admins |-> NoPurge]

Tenant(d) == TenantOf[owner[d]]
\* How a call to a service can end.
Outcomes(service) == {"ok"} \cup IF service \in Faults THEN {"lost", "late"} ELSE {}
Raised(o) == o # "ok"
\* update_ingest_job loads the row and writes the columns that differ from what it loaded:
\* with the row to itself that sets status and document_id whatever they were. Only
\* Refuse and the worker can overlap, and only Refuse can tell (see there).
UpdateJob(j, status, doc, o) ==
  job' = IF o = "lost" THEN job ELSE [job EXCEPT ![j] = [status |-> status, doc |-> doc]]
-----------------------------------------------------------------------------
\* POST /ingest/file

SaveFile(j) ==
  /\ request[j] = "new"
  /\ file' = file \cup {j}
  /\ request' = [request EXCEPT ![j] = "saved"]
  /\ UNCHANGED <<job, queue, worker, purge, stores>>

\* An exception here leaves the handler: 500, and the file stays.
CreateJob(j) == \E o \in Outcomes("db") :
  /\ request[j] = "saved"
  /\ UpdateJob(j, "queued", None, o)
  /\ request' = [request EXCEPT ![j] = IF Raised(o) THEN "error" ELSE "created"]
  /\ UNCHANGED <<file, queue, worker, purge, stores>>

Enqueue(j) == \E o \in Outcomes("redis") :
  /\ request[j] = "created" /\ j \notin Direct
  /\ queue' = IF o = "lost" THEN queue ELSE Append(queue, j)
  /\ request' = [request EXCEPT ![j] = IF Raised(o) THEN "refused" ELSE "handed"]
  /\ UNCHANGED <<job, file, worker, purge, stores>>

\* ingest_async_enabled off: the request calls process_ingest_job and waits for it.
RunHere(j) ==
  /\ request[j] = "created" /\ j \in Direct
  /\ request' = [request EXCEPT ![j] = "handed"]
  /\ worker' = [worker EXCEPT ![j] = [pc |-> "picked", job |-> j, doc |-> None]]
  /\ UNCHANGED <<job, file, queue, purge, stores>>
Returned(j) == j \in Direct => worker[j].pc = "idle"

\* The except branch: the job is marked failed, the caller gets 503. If the job was
\* queued all the same and the worker completes it between this load and its UPDATE,
\* document_id was NULL when loaded, is left out, and stays what the worker set.
Refuse(j) == \E o \in Outcomes("db"), doc \in {None, job[j].doc} :
  /\ request[j] = "refused" /\ Returned(j)
  /\ j \in Direct => doc = None
  /\ UpdateJob(j, "failed", doc, o)
  /\ request' = [request EXCEPT ![j] = "error"]
  /\ UNCHANGED <<file, queue, worker, purge, stores>>

\* The ingest_submitted audit entry and the response, after the enqueue or the run.
Accept(j) == \E o \in Outcomes("db") :
  /\ request[j] = "handed" /\ Returned(j)
  /\ request' = [request EXCEPT ![j] = IF Raised(o) THEN "error" ELSE "accepted"]
  /\ UNCHANGED <<job, file, queue, worker, purge, stores>>

Upload(j) == SaveFile(j) \/ CreateJob(j) \/ Enqueue(j) \/ RunHere(j) \/ Refuse(j) \/ Accept(j)
-----------------------------------------------------------------------------
\* The worker: rq takes the head of the list and runs process_ingest_job.

Pick(w) ==
  /\ w \in Workers /\ worker[w].pc = "idle"
  /\ queue # <<>>
  /\ queue' = Tail(queue)
  /\ worker' = [worker EXCEPT ![w] = [pc |-> "picked", job |-> Head(queue), doc |-> None]]
  /\ UNCHANGED <<job, file, request, purge, stores>>

\* An exception out of process_ingest_job ends in the handler, if that made the call.
Reraise(w, o) ==
  request' = IF w \in Direct /\ Raised(o) THEN [request EXCEPT ![w] = "refused"] ELSE request

\* The first update stands before the try: if it raises, the run is over.
StartJob(w) == \E o \in Outcomes("db") :
  /\ worker[w].pc = "picked"
  /\ UpdateJob(worker[w].job, "processing", None, o)
  /\ worker' = [worker EXCEPT ![w] = IF Raised(o) THEN Idle ELSE [@ EXCEPT !.pc = "working"]]
  /\ Reraise(w, o)
  /\ UNCHANGED <<file, queue, purge, stores>>

\* Mutants of NoText: it returns without an update, or past the finally clause, or it
\* does not return.
NoTextUnreported(w) ==
  /\ worker[w].pc = "working"
  /\ worker' = [worker EXCEPT ![w].pc = "cleanup"]
  /\ UNCHANGED <<uploads, purge, stores>>
NoTextKeepsFile(w) == \E o \in Outcomes("db") :
  /\ worker[w].pc = "working"
  /\ UpdateJob(worker[w].job, "failed", None, o)
  /\ worker' = [worker EXCEPT ![w] = IF Raised(o) THEN [@ EXCEPT !.pc = "failing"] ELSE Idle]
  /\ UNCHANGED <<file, queue, request, purge, stores>>

NoTextGoesOn(w) == \E o \in Outcomes("db") :
  /\ worker[w].pc = "working"
  /\ UpdateJob(worker[w].job, "failed", None, o)
  /\ UNCHANGED <<file, queue, request, worker, purge, stores>>

\* Nothing to index: the job fails inside the try.
NoText(w) == \E o \in Outcomes("db") :
  /\ worker[w].pc = "working"
  /\ UpdateJob(worker[w].job, "failed", None, o)
  /\ worker' = [worker EXCEPT ![w].pc = IF Raised(o) THEN "failing" ELSE "cleanup"]
  /\ UNCHANGED <<file, queue, request, purge, stores>>

\* Reading, extracting, chunking or embedding raises before anything is stored.
Unreadable(w) ==
  /\ worker[w].pc \in {"working", "ready"}
  /\ worker' = [worker EXCEPT ![w].pc = "failing"]
  /\ UNCHANGED <<uploads, purge, stores>>

\* ensure_collection asks whether the collection exists ...
MissCollection(w) ==
  /\ worker[w].pc = "working"
  /\ ~collection
  /\ worker' = [worker EXCEPT ![w].pc = "creating"]
  /\ UNCHANGED <<uploads, purge, stores>>

\* ... and creates it; Qdrant refuses a second creation.
CreateCollection(w) == \E o \in Outcomes("qdrant") :
  /\ worker[w].pc = "creating"
  /\ collection' = (collection \/ o # "lost")
  /\ worker' = [worker EXCEPT ![w].pc = IF Raised(o) \/ collection THEN "failing" ELSE "ready"]
  /\ UNCHANGED <<uploads, row, points, owner, preview, purge>>

\* A search, a listing or a deletion creates it as well.
CreateElsewhere ==
  /\ ~collection
  /\ collection' = TRUE
  /\ UNCHANGED <<uploads, row, points, owner, preview, worker, purge>>

Ready(w) == worker[w].pc = "ready" \/ (worker[w].pc = "working" /\ collection)

\* Mutant of Index: the returned document id is not kept.
IndexForgetsId(w) == \E d \in Docs, o \in Outcomes("qdrant") \ {"lost"} :
  /\ Ready(w)
  /\ owner[d] = None
  /\ owner' = [owner EXCEPT ![d] = worker[w].job]
  /\ points' = points \cup {d}
  /\ worker' = [worker EXCEPT ![w].pc = IF Raised(o) THEN "failing" ELSE "indexed"]
  /\ UNCHANGED <<uploads, row, collection, preview, purge>>

\* Mutant of Index: a call that raised is made again, under a new document id.
IndexRetried(w) == \E d \in Docs, o \in Outcomes("qdrant") \ {"lost"} :
  /\ Ready(w)
  /\ owner[d] = None
  /\ owner' = [owner EXCEPT ![d] = worker[w].job]
  /\ points' = points \cup {d}
  /\ worker' = [worker EXCEPT ![w] = IF Raised(o) THEN @
                                     ELSE [@ EXCEPT !.pc = "indexed", !.doc = d]]
  /\ UNCHANGED <<uploads, row, collection, preview, purge>>

\* upsert_chunks generates the document id; the caller learns it from the return value.
Index(w) == \E d \in Docs, o \in Outcomes("qdrant") \ {"lost"} :
  /\ Ready(w)
  /\ owner[d] = None
  /\ owner' = [owner EXCEPT ![d] = worker[w].job]
  /\ points' = points \cup {d}
  /\ worker' = [worker EXCEPT ![w] = IF Raised(o) THEN [@ EXCEPT !.pc = "failing"]
                                     ELSE [@ EXCEPT !.pc = "indexed", !.doc = d]]
  /\ UNCHANGED <<uploads, row, collection, preview, purge>>

\* The preview copy may fail quietly; then the documents row is inserted.
RecordDocument(w) == \E copied \in BOOLEAN, o \in Outcomes("db") :
  /\ worker[w].pc = "indexed"
  /\ preview' = IF copied THEN preview \cup {worker[w].doc} ELSE preview
  /\ row' = IF o = "lost" THEN row ELSE [row EXCEPT ![worker[w].doc] = "active"]
  /\ worker' = [worker EXCEPT ![w].pc = IF Raised(o) THEN "failing" ELSE "recorded"]
  /\ UNCHANGED <<uploads, collection, points, owner, purge>>

\* Mutant of Complete: the job is completed before its document is recorded.
CompleteEarly(w) == \E o \in Outcomes("db") :
  /\ worker[w].pc \in {"indexed", "recorded"}
  /\ UpdateJob(worker[w].job, "completed", worker[w].doc, o)
  /\ worker' = [worker EXCEPT ![w].pc = IF Raised(o) THEN "failing" ELSE "cleanup"]
  /\ UNCHANGED <<file, queue, request, purge, stores>>

\* A time limit that expires right after the commit raises as a lost reply does.
Complete(w) == \E o \in Outcomes("db") \cup {x \in {"late"} : "timeout" \in Faults /\ w \in Workers} :
  /\ worker[w].pc = "recorded"
  /\ UpdateJob(worker[w].job, "completed", worker[w].doc, o)
  /\ worker' = [worker EXCEPT ![w].pc = IF Raised(o) THEN "failing" ELSE "cleanup"]
  /\ UNCHANGED <<file, queue, request, purge, stores>>

\* except: the finally clause runs even if this update raises.
MarkFailed(w) == \E o \in Outcomes("db") :
  /\ worker[w].pc = "failing"
  /\ UpdateJob(worker[w].job, "failed", None, o)
  /\ worker' = [worker EXCEPT ![w].pc = "cleanup"]
  /\ Reraise(w, o)
  /\ UNCHANGED <<file, queue, purge, stores>>

\* finally: the temporary file goes.
Cleanup(w) ==
  /\ worker[w].pc = "cleanup"
  /\ file' = file \ {worker[w].job}
  /\ worker' = [worker EXCEPT ![w] = Idle]
  /\ UNCHANGED <<job, queue, request, purge, stores>>

\* The process dies. RQ does not put the job back on the list; a request is gone.
Crash(w) ==
  /\ "crash" \in Faults
  /\ worker[w].pc # "idle"
  /\ worker' = [worker EXCEPT ![w] = Idle]
  /\ request' = IF w \in Direct THEN [request EXCEPT ![w] = "error"] ELSE request
  /\ UNCHANGED <<job, file, queue, purge, stores>>

\* RQ raises JobTimeoutException wherever the job is after job_timeout: inside the
\* try it is caught, in the except clause finally still runs, elsewhere it ends the run.
Timeout(w) ==
  /\ "timeout" \in Faults /\ w \in Workers
  /\ worker[w].pc # "idle"
  /\ worker' = [worker EXCEPT ![w] =
       IF @.pc \in {"working", "creating", "ready", "indexed", "recorded"} THEN [@ EXCEPT !.pc = "failing"]
       ELSE IF @.pc = "failing" THEN [@ EXCEPT !.pc = "cleanup"] ELSE Idle]
  /\ UNCHANGED <<uploads, purge, stores>>

Work(w) == \/ Pick(w) \/ StartJob(w) \/ NoText(w) \/ Unreadable(w)
           \/ MissCollection(w) \/ CreateCollection(w) \/ Index(w)
           \/ RecordDocument(w) \/ Complete(w) \/ MarkFailed(w) \/ Cleanup(w)
-----------------------------------------------------------------------------
\* DELETE /documents/{id} and POST /documents/bulk

\* remove_document: the row exists, in any status, and belongs to the tenant.
CheckDelete(a, d) ==
  /\ purge[a].pc = "idle"
  /\ row[d] # "absent" /\ Tenant(d) = TenantOf[a]
  /\ purge' = [purge EXCEPT ![a] = [pc |-> "checked", todo |-> {d}]]
  /\ UNCHANGED <<uploads, worker, stores>>

\* Mutant of MarkDeleted: an error of the update is swallowed.
MarkDeletedQuietly(a) == \E o \in Outcomes("db") :
  /\ purge[a].pc = "checked"
  /\ row' = IF o = "lost" THEN row
            ELSE [d \in Docs |-> IF d \in purge[a].todo THEN "deleted" ELSE row[d]]
  /\ purge' = [purge EXCEPT ![a].pc = "purging"]
  /\ UNCHANGED <<uploads, collection, points, owner, preview, worker>>

MarkDeleted(a) == \E o \in Outcomes("db") :
  /\ purge[a].pc = "checked"
  /\ row' = IF o = "lost" THEN row
            ELSE [d \in Docs |-> IF d \in purge[a].todo THEN "deleted" ELSE row[d]]
  /\ purge' = [purge EXCEPT ![a] = IF Raised(o) THEN NoPurge ELSE [@ EXCEPT !.pc = "purging"]]
  /\ UNCHANGED <<uploads, collection, points, owner, preview, worker>>

\* Ids an admin can have seen, of any tenant.
Known == {d \in Docs : row[d] # "absent" \/ (Legacy /\ d \in points)}

\* Mutant of BulkDelete: the UPDATE does not look at the tenant.
BulkDeleteAnyTenant(a, ds) == \E o \in Outcomes("db") :
  /\ purge[a].pc = "idle"
  /\ ds # {} /\ ds \subseteq Known
  /\ row' = IF o = "lost" THEN row
            ELSE [d \in Docs |-> IF d \in ds /\ row[d] # "absent" THEN "deleted" ELSE row[d]]
  /\ purge' = [purge EXCEPT ![a] = IF Raised(o) THEN NoPurge ELSE [pc |-> "purging", todo |-> ds]]
  /\ UNCHANGED <<uploads, collection, points, owner, preview, worker>>

\* bulk_delete_documents: no check; one UPDATE of the tenant's rows among the ids.
BulkDelete(a, ds) == \E o \in Outcomes("db") :
  /\ purge[a].pc = "idle"
  /\ ds # {} /\ ds \subseteq Known
  /\ row' = IF o = "lost" THEN row
            ELSE [d \in Docs |-> IF d \in ds /\ row[d] # "absent" /\ Tenant(d) = TenantOf[a]
                                 THEN "deleted" ELSE row[d]]
  /\ purge' = [purge EXCEPT ![a] = IF Raised(o) THEN NoPurge ELSE [pc |-> "purging", todo |-> ds]]
  /\ UNCHANGED <<uploads, collection, points, owner, preview, worker>>

\* Mutant of PurgeChunks: it returns from inside the loop.
PurgeOnlyOne(a, d) == \E o \in Outcomes("qdrant") :
  /\ purge[a].pc = "purging" /\ d \in purge[a].todo
  /\ points' = IF o # "lost" /\ Tenant(d) = TenantOf[a] THEN points \ {d} ELSE points
  /\ purge' = [purge EXCEPT ![a] = IF Raised(o) THEN NoPurge ELSE [@ EXCEPT !.todo = {}]]
  /\ UNCHANGED <<uploads, row, collection, owner, preview, worker>>

\* Mutant of PurgeChunks: the filter matches the document only.
PurgeAnyTenant(a, d) == \E o \in Outcomes("qdrant") :
  /\ purge[a].pc = "purging" /\ d \in purge[a].todo
  /\ points' = IF o # "lost" THEN points \ {d} ELSE points
  /\ purge' = [purge EXCEPT ![a] = IF Raised(o) THEN NoPurge ELSE [@ EXCEPT !.todo = purge[a].todo \ {d}]]
  /\ UNCHANGED <<uploads, row, collection, owner, preview, worker>>

\* delete_document (retrieval): the filter matches document and tenant. A failure
\* ends the request: the documents after it keep their chunks.
PurgeChunks(a, d) == \E o \in Outcomes("qdrant") :
  /\ purge[a].pc = "purging" /\ d \in purge[a].todo
  /\ points' = IF o # "lost" /\ Tenant(d) = TenantOf[a] THEN points \ {d} ELSE points
  /\ purge' = [purge EXCEPT ![a] = IF Raised(o) THEN NoPurge ELSE [@ EXCEPT !.todo = purge[a].todo \ {d}]]
  /\ UNCHANGED <<uploads, row, collection, owner, preview, worker>>

\* The audit entry and the response.
FinishDelete(a) ==
  /\ purge[a].pc = "purging" /\ purge[a].todo = {}
  /\ purge' = [purge EXCEPT ![a] = NoPurge]
  /\ UNCHANGED <<uploads, worker, stores>>

Delete(a) == \/ \E d \in Docs : CheckDelete(a, d) \/ PurgeChunks(a, d)
             \/ \E ds \in SUBSET Docs : BulkDelete(a, ds)
             \/ MarkDeleted(a)
             \/ FinishDelete(a)

Next == \/ \E j \in Jobs : Upload(j)
        \/ \E w \in Runners : Work(w) \/ Crash(w) \/ Timeout(w)
        \/ CreateElsewhere
        \/ \E a \in Admins : Delete(a)

Spec == Init /\ [][Next]_vars

\* rq workers keep polling their list, and who runs a job runs it to its end.
FairSpec == Spec /\ \A w \in Runners : WF_vars(Work(w))
-----------------------------------------------------------------------------
\* A job reads "completed" only when its document is listed and was made from that
\* very upload: process_ingest_job records the row before it completes the job.
CompletedIsListed ==
  \A j \in Jobs : job[j].status = "completed" =>
    job[j].doc # None /\ row[job[j].doc] # "absent" /\ owner[job[j].doc] = j

\* An upload yields one document at most, whatever dies, times out or loses a
\* reply: nobody puts a job on the list a second time.
OneDocumentPerJob ==
  \A d, e \in Docs : owner[d] = owner[e] /\ owner[d] # None => d = e

\* A document listed as active has its chunks, whichever calls fail: indexing
\* precedes the row, and every deletion marks the row before it purges the chunks.
ActiveIsSearchable == \A d \in Docs : row[d] = "active" => d \in points

InProgress(d) == \/ \E w \in Runners : worker[w].doc = d
                 \/ \E a \in Admins : d \in purge[a].todo

\* Once nobody is at work on a document, SQL and Qdrant agree on it: its chunks are
\* found exactly when it is listed as active. Needs SQL and Qdrant calls that do not fail
\* and workers that are not stopped.
StoresAgree ==
  \A d \in Docs : ~InProgress(d) => (d \in points <=> row[d] = "active")

\* Only a tenant's own admins remove its documents, whatever ids others send: where
\* no request comes from a document's tenant it keeps its row and its chunks.
OnlyOwnTenantDeletes ==
  \A d \in Docs : owner[d] # None /\ (\A a \in Admins : TenantOf[a] # Tenant(d)) =>
    d \in points /\ row[d] # "deleted"

\* What the documents table and Qdrant hold of a document is a stage of its life
\* (DocumentLife), though two services are written one after the other: from any upload
\* at most one document, stored before it is listed, erased only once an admin of its
\* tenant has withdrawn it, and never back. Not for ids of the legacy listing.
StageOf(status, chunks) ==
  CASE status = "absent"  -> IF chunks THEN "stored" ELSE "unborn"
    [] status = "active"  -> IF chunks THEN "listed" ELSE "lost"
    [] status = "deleted" -> IF chunks THEN "withdrawn" ELSE "erased"
Stage == [d \in Docs |-> StageOf(row[d], d \in points)]
Life == INSTANCE DocumentLife WITH Uploads <- Jobs, stage <- Stage, origin <- owner
FollowsLife == Life!Spec

\* The disk does not fill up: when the worker is done with an accepted upload, however
\* the job ended, the temporary file is gone. Needs a database that answers and workers
\* that are not stopped.
FilesReclaimed ==
  \A j \in Jobs :
    request[j] = "accepted" /\ (\A i \in DOMAIN queue : queue[i] # j)
                            /\ (\A w \in Runners : worker[w].job # j) => j \notin file

\* A job's status only advances: a poll never sees it leave completed or failed, nor
\* go back to queued, though the upload request and the worker both write it. Needs SQL
\* and Redis to answer, and no time limit to expire.
Phase == [absent |-> 0, queued |-> 1, processing |-> 2, completed |-> 3, failed |-> 3]
JobMovesForward ==
  [][\A j \in Jobs : \/ job'[j] = job[j]
                     \/ Phase[job[j].status] < Phase[job'[j].status]]_job

\* The poller's wait ends: an accepted upload is completed or failed eventually. Needs
\* a database that answers and a worker that is not killed.
JobSettles ==
  \A j \in Jobs : (request[j] = "accepted") ~> (job[j].status \in {"completed", "failed"})
=============================================================================
