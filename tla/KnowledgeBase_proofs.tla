----------------------- MODULE KnowledgeBase_proofs -----------------------
\* The life of documents for any number of uploads, workers and admins, whatever
\* service, process or time limit fails.
EXTENDS KnowledgeBase, TLAPS

\* Nothing is stored and nobody works.
LEMMA TypeInit == Init => TypeOK
<1> SUFFICES ASSUME Init PROVE TypeOK
  OBVIOUS
<1>1. collection \in BOOLEAN
  BY DEF Init
<1>2. \A w \in Runners : worker[w] = Idle
  BY DEF Init
<1> QED
  BY <1>1, <1>2 DEF Init, TypeOK, JobStatus, Idle, NoPurge

\* update_ingest_job writes a status and a document id, or nothing.
LEMMA UpdateKeepsType ==
  ASSUME TypeOK, NEW j \in Jobs, NEW st \in JobStatus, NEW d \in Docs \cup {None}, NEW o,
         UpdateJob(j, st, d, o)
  PROVE  job' \in [Jobs -> [status : JobStatus, doc : Docs \cup {None}]]
  BY DEF UpdateJob, TypeOK

\* The part of the types that speaks of workers, for a step of worker w to wk.
WorkerPlaces == {"idle", "picked", "working", "creating", "ready", "indexed", "recorded", "failing", "cleanup"}
WorkerState == [pc : WorkerPlaces, job : Jobs \cup {None}, doc : Docs \cup {None}]
Consistent(w, wk) ==
                  /\ (wk.pc = "idle") = (wk.job = None)
                  /\ w \in Direct => wk.job \in {w, None}
                  /\ wk.pc \in {"indexed", "recorded"} => wk.doc # None
WorkersOK == /\ worker \in [Runners -> WorkerState]
             /\ \A w \in Runners : Consistent(w, worker[w])

\* A worker's step to a proper state leaves all workers in one.
LEMMA WorkerStepOK ==
  ASSUME WorkersOK, NEW w \in Runners, NEW wk \in WorkerState, Consistent(w, wk),
         worker' = [worker EXCEPT ![w] = wk]
  PROVE  WorkersOK'
  BY DEF WorkersOK

\* The worker's part of the types, in the form the lemma above needs.
LEMMA WorkersInType == TypeOK => WorkersOK
  BY DEF TypeOK, WorkersOK, WorkerState, WorkerPlaces, Consistent

\* The steps of POST /ingest/file.
LEMMA UploadKeepsType ==
  ASSUME TypeOK, NEW j \in Jobs, Upload(j)
  PROVE  TypeOK'
<1>1. CASE SaveFile(j)
  BY <1>1 DEF SaveFile, stores, TypeOK
<1>2. CASE CreateJob(j)
  <2>1. PICK o \in Outcomes("db") : UpdateJob(j, "queued", None, o)
    BY <1>2 DEF CreateJob
  <2>2. job' \in [Jobs -> [status : JobStatus, doc : Docs \cup {None}]]
    BY <2>1, UpdateKeepsType DEF JobStatus
  <2> QED
    BY <1>2, <2>2 DEF CreateJob, stores, TypeOK
<1>3. CASE Enqueue(j)
  <2>1. queue' \in Seq(Jobs)
    BY <1>3 DEF Enqueue, TypeOK
  <2> QED
    BY <1>3, <2>1 DEF Enqueue, stores, TypeOK
<1>6. CASE RunHere(j)
  <2> DEFINE wk == [pc |-> "picked", job |-> j, doc |-> None]
  <2>1. j \in Runners /\ WorkersOK
    BY <1>6, WorkersInType DEF RunHere, Runners
  <2>2. wk \in WorkerState /\ Consistent(j, wk)
    BY NoneAssumption DEF WorkerState, WorkerPlaces, Consistent
  <2>3. worker' = [worker EXCEPT ![j] = wk]
    BY <1>6 DEF RunHere
  <2> HIDE DEF wk
  <2>4. WorkersOK'
    BY <2>1, <2>2, <2>3, WorkerStepOK
  <2> QED
    BY <1>6, <2>4 DEF RunHere, stores, TypeOK, WorkersOK, WorkerState, WorkerPlaces, Consistent
<1>4. CASE Refuse(j)
  <2>1. PICK o \in Outcomes("db"), doc \in Docs \cup {None} : UpdateJob(j, "failed", doc, o)
    BY <1>4 DEF Refuse, TypeOK
  <2>2. job' \in [Jobs -> [status : JobStatus, doc : Docs \cup {None}]]
    BY <2>1, UpdateKeepsType DEF JobStatus
  <2>3. request' = [request EXCEPT ![j] = "error"] /\ UNCHANGED <<file, queue, worker, purge, stores>>
    BY <1>4 DEF Refuse
  <2> QED
    BY <2>2, <2>3 DEF stores, TypeOK
<1>5. CASE Accept(j)
  BY <1>5 DEF Accept, stores, TypeOK
<1> QED
  BY <1>1, <1>2, <1>3, <1>4, <1>5, <1>6 DEF Upload

\* Where a worker step leaves the worker, and what it does to the job.
LEMMA WorkKeepsType ==
  ASSUME TypeOK, NEW w \in Runners, Work(w) \/ Crash(w) \/ Timeout(w)
  PROVE  TypeOK'
<1>1. WorkersOK
  BY WorkersInType
<1>2. worker[w] \in WorkerState /\ Consistent(w, worker[w])
  BY <1>1 DEF WorkersOK
<1>3. Idle \in WorkerState /\ Consistent(w, Idle)
  BY DEF Idle, WorkerState, WorkerPlaces, Consistent
<1>4. \A p \in {"working", "creating", "ready", "failing", "cleanup", "recorded"} :
        worker[w].pc \notin {"idle"} /\ (p = "recorded" => worker[w].doc # None) =>
          [worker[w] EXCEPT !.pc = p] \in WorkerState /\ Consistent(w, [worker[w] EXCEPT !.pc = p])
  BY <1>2 DEF WorkerState, WorkerPlaces, Consistent
<1>5. worker[w].pc # "idle" => worker[w].job \in Jobs
  BY <1>2 DEF WorkerState, Consistent
<1>6. ASSUME WorkersOK', NEW jobs \in [Jobs -> [status : JobStatus, doc : Docs \cup {None}]],
             job' = jobs, NEW o, Reraise(w, o), UNCHANGED <<file, queue, purge, stores>>
      PROVE  TypeOK'
  BY <1>6 DEF stores, Reraise, TypeOK, WorkersOK, WorkerState, WorkerPlaces, Consistent
<1>17. ASSUME WorkersOK', NEW jobs \in [Jobs -> [status : JobStatus, doc : Docs \cup {None}]],
              job' = jobs, UNCHANGED <<file, queue, request, purge, stores>>
      PROVE  TypeOK'
  BY <1>17 DEF stores, TypeOK, WorkersOK, WorkerState, WorkerPlaces, Consistent
<1>7. CASE Pick(w)
  <2> DEFINE wk == [pc |-> "picked", job |-> Head(queue), doc |-> None]
  <2>1. Head(queue) \in Jobs /\ Tail(queue) \in Seq(Jobs) /\ w \notin Direct
    BY <1>7, DirectAssumption DEF Pick, TypeOK
  <2>2. wk \in WorkerState /\ Consistent(w, wk)
    BY <2>1, NoneAssumption DEF WorkerState, WorkerPlaces, Consistent
  <2>3. worker' = [worker EXCEPT ![w] = wk]
    BY <1>7 DEF Pick
  <2> HIDE DEF wk
  <2>4. WorkersOK'
    BY <1>1, <2>2, <2>3, WorkerStepOK
  <2> QED
    BY <1>7, <2>1, <2>4 DEF Pick, stores, TypeOK, WorkersOK, WorkerState, WorkerPlaces, Consistent
<1>8. CASE StartJob(w)
  <2>1. PICK o \in Outcomes("db") :
          /\ worker[w].pc = "picked"
          /\ UpdateJob(worker[w].job, "processing", None, o)
          /\ worker' = [worker EXCEPT ![w] = IF Raised(o) THEN Idle ELSE [@ EXCEPT !.pc = "working"]]
          /\ Reraise(w, o)
    BY <1>8 DEF StartJob
  <2>2. job' \in [Jobs -> [status : JobStatus, doc : Docs \cup {None}]]
    BY <1>5, <2>1, UpdateKeepsType DEF JobStatus
  <2>3. WorkersOK'
    BY <1>1, <1>3, <1>4, <2>1, WorkerStepOK
  <2> QED
    BY <1>6, <1>8, <2>1, <2>2, <2>3 DEF StartJob
<1>9. CASE NoText(w)
  <2>1. PICK o \in Outcomes("db") :
          /\ worker[w].pc = "working"
          /\ UpdateJob(worker[w].job, "failed", None, o)
          /\ worker' = [worker EXCEPT ![w].pc = IF Raised(o) THEN "failing" ELSE "cleanup"]
    BY <1>9 DEF NoText
  <2>2. job' \in [Jobs -> [status : JobStatus, doc : Docs \cup {None}]]
    BY <1>5, <2>1, UpdateKeepsType DEF JobStatus
  <2>3. WorkersOK'
    BY <1>1, <1>4, <2>1, WorkerStepOK
  <2> QED
    BY <1>17, <1>9, <2>2, <2>3 DEF NoText
<1>10. CASE Unreadable(w)
  <2>1. WorkersOK'
    BY <1>1, <1>4, <1>10, WorkerStepOK DEF Unreadable
  <2> QED
    BY <1>10, <2>1 DEF Unreadable, uploads, stores, TypeOK, WorkersOK, WorkerState, WorkerPlaces, Consistent
<1>18. CASE MissCollection(w)
  <2>1. WorkersOK'
    BY <1>1, <1>4, <1>18, WorkerStepOK DEF MissCollection
  <2> QED
    BY <1>18, <2>1 DEF MissCollection, uploads, stores, TypeOK, WorkersOK, WorkerState, WorkerPlaces, Consistent
<1>19. CASE CreateCollection(w)
  <2>1. PICK o \in Outcomes("qdrant") :
          /\ worker[w].pc = "creating"
          /\ collection' = (collection \/ o # "lost")
          /\ worker' = [worker EXCEPT ![w].pc = IF Raised(o) \/ collection THEN "failing" ELSE "ready"]
          /\ UNCHANGED <<uploads, row, points, owner, preview, purge>>
    BY <1>19 DEF CreateCollection
  <2>2. WorkersOK'
    BY <1>1, <1>4, <2>1, WorkerStepOK
  <2> QED
    BY <2>1, <2>2 DEF uploads, TypeOK, WorkersOK, WorkerState, WorkerPlaces, Consistent
<1>11. CASE Index(w)
  <2>1. PICK d \in Docs, o \in Outcomes("qdrant") :
          /\ worker[w].pc \in {"working", "ready"}
          /\ owner' = [owner EXCEPT ![d] = worker[w].job]
          /\ points' = points \cup {d}
          /\ worker' = [worker EXCEPT ![w] = IF Raised(o) THEN [@ EXCEPT !.pc = "failing"]
                                     ELSE [@ EXCEPT !.pc = "indexed", !.doc = d]]
          /\ UNCHANGED <<uploads, row, collection, preview, purge>>
    BY <1>11 DEF Index, Ready
  <2>2. /\ [worker[w] EXCEPT !.pc = "indexed", !.doc = d] \in WorkerState
        /\ Consistent(w, [worker[w] EXCEPT !.pc = "indexed", !.doc = d])
    BY <1>2, <2>1, NoneAssumption DEF WorkerState, WorkerPlaces, Consistent
  <2>3. WorkersOK'
    BY <1>1, <1>4, <2>1, <2>2, WorkerStepOK
  <2>4. owner' \in [Docs -> Jobs \cup {None}]
    BY <1>5, <2>1 DEF TypeOK
  <2> QED
    BY <2>1, <2>3, <2>4 DEF uploads, TypeOK, WorkersOK, WorkerState, WorkerPlaces, Consistent
<1>12. CASE RecordDocument(w)
  <2>1. PICK copied \in BOOLEAN, o \in Outcomes("db") :
          /\ worker[w].pc = "indexed"
          /\ preview' = IF copied THEN preview \cup {worker[w].doc} ELSE preview
          /\ row' = IF o = "lost" THEN row ELSE [row EXCEPT ![worker[w].doc] = "active"]
          /\ worker' = [worker EXCEPT ![w].pc = IF Raised(o) THEN "failing" ELSE "recorded"]
          /\ UNCHANGED <<uploads, collection, points, owner, purge>>
    BY <1>12 DEF RecordDocument
  <2>2. worker[w].doc \in Docs
    BY <1>2, <2>1 DEF WorkerState, Consistent
  <2>3. preview' \subseteq Docs /\ row' \in [Docs -> {"absent", "active", "deleted"}]
    BY <2>1, <2>2 DEF TypeOK
  <2>4. WorkersOK'
    BY <1>1, <1>2, <1>4, <2>1, WorkerStepOK DEF Consistent
  <2> QED
    BY <2>1, <2>3, <2>4 DEF uploads, TypeOK, WorkersOK, WorkerState, WorkerPlaces, Consistent
<1>13. CASE Complete(w)
  <2>1. PICK o :
          /\ worker[w].pc = "recorded"
          /\ UpdateJob(worker[w].job, "completed", worker[w].doc, o)
          /\ worker' = [worker EXCEPT ![w].pc = IF Raised(o) THEN "failing" ELSE "cleanup"]
    BY <1>13 DEF Complete
  <2>2. worker[w].doc \in Docs
    BY <1>2, <2>1 DEF WorkerState, Consistent
  <2>3. job' \in [Jobs -> [status : JobStatus, doc : Docs \cup {None}]]
    BY <1>5, <2>1, <2>2, UpdateKeepsType DEF JobStatus
  <2>4. WorkersOK'
    BY <1>1, <1>4, <2>1, WorkerStepOK
  <2> QED
    BY <1>17, <1>13, <2>3, <2>4 DEF Complete
<1>14. CASE MarkFailed(w)
  <2>1. PICK o \in Outcomes("db") :
          /\ worker[w].pc = "failing"
          /\ UpdateJob(worker[w].job, "failed", None, o)
          /\ worker' = [worker EXCEPT ![w].pc = "cleanup"]
          /\ Reraise(w, o)
    BY <1>14 DEF MarkFailed
  <2>2. job' \in [Jobs -> [status : JobStatus, doc : Docs \cup {None}]]
    BY <1>5, <2>1, UpdateKeepsType DEF JobStatus
  <2>3. WorkersOK'
    BY <1>1, <1>4, <2>1, WorkerStepOK
  <2> QED
    BY <1>6, <1>14, <2>1, <2>2, <2>3 DEF MarkFailed
<1>15. CASE Cleanup(w) \/ Crash(w)
  <2>1. WorkersOK'
    BY <1>1, <1>3, <1>15, WorkerStepOK DEF Cleanup, Crash
  <2>2. request' \in [Jobs -> {"new", "saved", "created", "refused", "handed", "accepted", "error"}]
    BY <1>15 DEF Cleanup, Crash, TypeOK
  <2> QED
    BY <1>15, <2>1, <2>2 DEF Cleanup, Crash, uploads, stores, TypeOK, WorkersOK, WorkerState, WorkerPlaces, Consistent
<1>16. CASE Timeout(w)
  <2> DEFINE wk == IF worker[w].pc \in {"working", "creating", "ready", "indexed", "recorded"} THEN [worker[w] EXCEPT !.pc = "failing"]
                   ELSE IF worker[w].pc = "failing" THEN [worker[w] EXCEPT !.pc = "cleanup"] ELSE Idle
  <2>1. worker[w].pc # "idle" /\ worker' = [worker EXCEPT ![w] = wk]
    BY <1>16 DEF Timeout
  <2>2. wk \in WorkerState /\ Consistent(w, wk)
    BY <1>3, <1>4, <2>1
  <2> HIDE DEF wk
  <2>3. WorkersOK'
    BY <1>1, <2>1, <2>2, WorkerStepOK
  <2> QED
    BY <1>16, <2>3 DEF Timeout, uploads, stores, TypeOK, WorkersOK, WorkerState, WorkerPlaces, Consistent
<1> QED
  BY <1>7, <1>8, <1>9, <1>10, <1>11, <1>12, <1>13, <1>14, <1>15, <1>16, <1>18, <1>19 DEF Work

\* The steps of the delete requests.
LEMMA DeleteKeepsType ==
  ASSUME TypeOK, NEW a \in Admins, Delete(a)
  PROVE  TypeOK'
<1> USE DEF TypeOK, uploads, stores, NoPurge
<1>1. ASSUME NEW d \in Docs, CheckDelete(a, d) PROVE TypeOK'
  BY <1>1 DEF CheckDelete
<1>2. CASE MarkDeleted(a)
  BY <1>2 DEF MarkDeleted
<1>3. ASSUME NEW ds \in SUBSET Docs, BulkDelete(a, ds) PROVE TypeOK'
  BY <1>3 DEF BulkDelete
<1>4. ASSUME NEW d \in Docs, PurgeChunks(a, d) PROVE TypeOK'
  BY <1>4 DEF PurgeChunks
<1>5. CASE FinishDelete(a)
  BY <1>5 DEF FinishDelete
<1> QED
  BY <1>1, <1>2, <1>3, <1>4, <1>5 DEF Delete

\* Every step of the system.
LEMMA TypeNext == TypeOK /\ [Next]_vars => TypeOK'
<1>1. TypeOK /\ UNCHANGED vars => TypeOK'
  BY DEF vars, TypeOK
<1>2. TypeOK /\ CreateElsewhere => TypeOK'
  BY DEF CreateElsewhere, uploads, TypeOK
<1> QED
  BY <1>1, <1>2, UploadKeepsType, WorkKeepsType, DeleteKeepsType DEF Next

\* The types hold, and a worker past the indexing has the id of its document in hand
\* (process_ingest_job).
THEOREM TypeCorrect == Spec => []TypeOK
  BY TypeInit, TypeNext, PTL DEF Spec
-----------------------------------------------------------------------------
\* What ties workers, rows and deletions to the uploads, whatever fails. owner
\* never changes once set, and a row never disappears.
Owned == \A w \in Runners :
           worker[w].pc \in {"indexed", "recorded"} => owner[worker[w].doc] = worker[w].job
Recorded == \A w \in Runners : worker[w].pc = "recorded" => row[worker[w].doc] # "absent"
RowsOwned == \A d \in Docs : row[d] # "absent" => owner[d] # None
ChecksOwn == \A a \in Admins : purge[a].pc = "checked" =>
               \A d \in purge[a].todo : row[d] # "absent" /\ Tenant(d) = TenantOf[a]
Documented == Owned /\ Recorded /\ RowsOwned /\ ChecksOwn /\ CompletedIsListed

\* The steps that touch neither stores nor deletions, and bring no worker further
\* than it was.
Quiet ==
  /\ UNCHANGED <<row, points, owner, preview, purge>>
  /\ \A w \in Runners : worker'[w] = worker[w] \/ worker'[w].pc \notin {"indexed", "recorded"}
  /\ \A j \in Jobs : job'[j] = job[j] \/ job'[j].status # "completed"

LEMMA QuietKeepsDocumented ==
  ASSUME TypeOK, Documented, Quiet
  PROVE  Documented'
  BY DEF Documented, Owned, Recorded, RowsOwned, ChecksOwn, CompletedIsListed, Tenant, Quiet, stores, TypeOK

\* update_ingest_job with another status than completed completes nothing.
LEMMA UpdateCompletesNothing ==
  ASSUME TypeOK, NEW j \in Jobs, NEW st, st # "completed", NEW d, NEW o, UpdateJob(j, st, d, o)
  PROVE  \A i \in Jobs : job'[i] = job[i] \/ job'[i].status # "completed"
  BY DEF UpdateJob, TypeOK

\* Every step of an upload is quiet, and so are most steps of a worker.
LEMMA UploadIsQuiet ==
  ASSUME TypeOK, NEW j \in Jobs, Upload(j)
  PROVE  Quiet
<1>1. UNCHANGED <<purge, stores>>
  BY DEF Upload, SaveFile, CreateJob, Enqueue, RunHere, Refuse, Accept
<1>3. \A w \in Runners : worker'[w] = worker[w] \/ worker'[w].pc \notin {"indexed", "recorded"}
  BY DEF Upload, SaveFile, CreateJob, Enqueue, RunHere, Refuse, Accept, TypeOK
<1>2. \A i \in Jobs : job'[i] = job[i] \/ job'[i].status # "completed"
  <2>1. CASE CreateJob(j)
    BY <2>1, UpdateCompletesNothing DEF CreateJob
  <2>2. CASE Refuse(j)
    BY <2>2, UpdateCompletesNothing DEF Refuse
  <2>3. CASE SaveFile(j) \/ Enqueue(j) \/ RunHere(j) \/ Accept(j)
    BY <2>3 DEF SaveFile, Enqueue, RunHere, Accept
  <2> QED
    BY <2>1, <2>2, <2>3 DEF Upload
<1> QED
  BY <1>1, <1>2, <1>3 DEF Quiet, stores

LEMMA ElsewhereIsQuiet ==
  ASSUME CreateElsewhere
  PROVE  Quiet
  BY DEF CreateElsewhere, Quiet, uploads

LEMMA WorkIsQuiet ==
  ASSUME TypeOK, NEW w \in Runners,
         \/ Pick(w) \/ StartJob(w) \/ NoText(w) \/ Unreadable(w)
         \/ MissCollection(w) \/ CreateCollection(w)
         \/ MarkFailed(w) \/ Cleanup(w) \/ Crash(w) \/ Timeout(w)
  PROVE  Quiet
<1>1. UNCHANGED <<row, points, owner, preview, purge>>
  BY DEF Pick, StartJob, NoText, Unreadable, MissCollection, CreateCollection, MarkFailed, Cleanup, Crash, Timeout, stores
<1>2. \A v \in Runners : worker'[v] = worker[v] \/ worker'[v].pc \notin {"indexed", "recorded"}
  <2>1. worker \in [Runners -> WorkerState]
    BY WorkersInType DEF WorkersOK
  <2>2. CASE Pick(w) \/ StartJob(w) \/ NoText(w) \/ Unreadable(w)
    BY <2>1, <2>2 DEF WorkerState, Pick, StartJob, NoText, Unreadable, Idle
  <2>3. CASE MarkFailed(w) \/ Cleanup(w) \/ Crash(w)
    BY <2>1, <2>3 DEF WorkerState, MarkFailed, Cleanup, Crash, Idle
  <2>4. CASE Timeout(w)
    BY <2>1, <2>4 DEF WorkerState, Timeout, Idle
  <2>5. CASE MissCollection(w) \/ CreateCollection(w)
    BY <2>1, <2>5 DEF WorkerState, MissCollection, CreateCollection
  <2> QED
    BY <2>2, <2>3, <2>4, <2>5
<1>3. worker[w].pc # "idle" => worker[w].job \in Jobs
  BY WorkersInType DEF WorkersOK, WorkerState, Consistent
<1>4. \A i \in Jobs : job'[i] = job[i] \/ job'[i].status # "completed"
  <2>1. CASE StartJob(w)
    BY <1>3, <2>1, UpdateCompletesNothing DEF StartJob
  <2>2. CASE NoText(w)
    BY <1>3, <2>2, UpdateCompletesNothing DEF NoText
  <2>3. CASE MarkFailed(w)
    BY <1>3, <2>3, UpdateCompletesNothing DEF MarkFailed
  <2>4. CASE \/ Pick(w) \/ Unreadable(w) \/ MissCollection(w) \/ CreateCollection(w)
             \/ Cleanup(w) \/ Crash(w) \/ Timeout(w)
    BY <2>4 DEF Pick, Unreadable, MissCollection, CreateCollection, Cleanup, Crash, Timeout, uploads
  <2> QED
    BY <2>1, <2>2, <2>3, <2>4
<1> QED
  BY <1>1, <1>2, <1>4 DEF Quiet

\* The three steps that carry a document from the index to a completed job.
LEMMA IndexKeepsDocumented ==
  ASSUME TypeOK, Documented, NEW w \in Runners, Index(w)
  PROVE  Documented'
<1>1. PICK d \in Docs, o \in Outcomes("qdrant") :
          /\ worker[w].pc \in {"working", "ready"}
          /\ owner[d] = None
          /\ owner' = [owner EXCEPT ![d] = worker[w].job]
          /\ points' = points \cup {d}
          /\ worker' = [worker EXCEPT ![w] = IF Raised(o) THEN [@ EXCEPT !.pc = "failing"]
                                     ELSE [@ EXCEPT !.pc = "indexed", !.doc = d]]
          /\ UNCHANGED <<uploads, row, collection, preview, purge>>
  BY DEF Index, Ready
<1>2. worker \in [Runners -> WorkerState] /\ \A v \in Runners : Consistent(v, worker[v])
  BY WorkersInType DEF WorkersOK
<1>3. row[d] = "absent" /\ \A v \in Runners : worker[v].pc \in {"indexed", "recorded"} => worker[v].doc # d
  BY <1>1, <1>2, NoneAssumption DEF Documented, Owned, RowsOwned, Consistent, WorkerState
<1>4. worker[w].job \in Jobs /\ owner'[d] = worker[w].job
  BY <1>1, <1>2 DEF WorkerState, Consistent, TypeOK
<1>5. \A e \in Docs : e # d => owner'[e] = owner[e]
  BY <1>1 DEF TypeOK
<1>6. \A v \in Runners : v # w => worker'[v] = worker[v]
  BY <1>1, <1>2
<1>7. /\ worker'[w].pc \notin {"indexed", "recorded"} \/ (worker'[w].pc = "indexed" /\ worker'[w].doc = d)
      /\ worker'[w].job = worker[w].job
  BY <1>1, <1>2 DEF WorkerState
<1>8. Owned'
  BY <1>2, <1>3, <1>4, <1>5, <1>6, <1>7 DEF Owned, Documented, Consistent, WorkerState
<1>9. Recorded'
  BY <1>1, <1>6, <1>7 DEF Recorded, Documented
<1>10. RowsOwned'
  BY <1>1, <1>3, <1>5 DEF RowsOwned, Documented
<1>11. ChecksOwn'
  BY <1>1, <1>3, <1>5 DEF ChecksOwn, Documented, Tenant, TypeOK
<1>12. CompletedIsListed'
  BY <1>1, <1>3, <1>5 DEF CompletedIsListed, Documented, uploads, TypeOK
<1> QED
  BY <1>8, <1>9, <1>10, <1>11, <1>12 DEF Documented

LEMMA RecordKeepsDocumented ==
  ASSUME TypeOK, Documented, NEW w \in Runners, RecordDocument(w)
  PROVE  Documented'
<1>1. PICK copied \in BOOLEAN, o \in Outcomes("db") :
          /\ worker[w].pc = "indexed"
          /\ row' = IF o = "lost" THEN row ELSE [row EXCEPT ![worker[w].doc] = "active"]
          /\ worker' = [worker EXCEPT ![w].pc = IF Raised(o) THEN "failing" ELSE "recorded"]
          /\ UNCHANGED <<uploads, collection, points, owner, purge>>
  BY DEF RecordDocument
<1>2. worker \in [Runners -> WorkerState] /\ \A v \in Runners : Consistent(v, worker[v])
  BY WorkersInType DEF WorkersOK
<1>3. worker[w].doc \in Docs /\ worker[w].job \in Jobs /\ owner[worker[w].doc] = worker[w].job
  BY <1>1, <1>2 DEF WorkerState, Consistent, Documented, Owned
<1>4. \A d \in Docs : row'[d] = row[d] \/ (d = worker[w].doc /\ row'[d] = "active")
  BY <1>1 DEF TypeOK
<1>5. Raised(o) \/ row'[worker[w].doc] = "active"
  BY <1>1, <1>3 DEF Raised, TypeOK
<1>6. \A v \in Runners : v # w => worker'[v] = worker[v]
  BY <1>1, <1>2
<1>7. /\ worker'[w].doc = worker[w].doc /\ worker'[w].job = worker[w].job
      /\ worker'[w].pc = "recorded" => row'[worker[w].doc] = "active"
  BY <1>1, <1>2, <1>5 DEF WorkerState
<1>8. Owned'
  BY <1>1, <1>3, <1>6, <1>7 DEF Owned, Documented
<1>9. Recorded'
  BY <1>2, <1>4, <1>6, <1>7 DEF Recorded, Documented, WorkerState, Consistent
<1>10. RowsOwned'
  BY <1>1, <1>3, <1>4, NoneAssumption DEF RowsOwned, Documented
<1>11. ChecksOwn'
  BY <1>1, <1>4 DEF ChecksOwn, Documented, Tenant, TypeOK
<1>12. CompletedIsListed'
  BY <1>1, <1>4 DEF CompletedIsListed, Documented, uploads, TypeOK
<1> QED
  BY <1>8, <1>9, <1>10, <1>11, <1>12 DEF Documented

LEMMA CompleteKeepsDocumented ==
  ASSUME TypeOK, Documented, NEW w \in Runners, Complete(w)
  PROVE  Documented'
<1>1. PICK o :
          /\ worker[w].pc = "recorded"
          /\ UpdateJob(worker[w].job, "completed", worker[w].doc, o)
          /\ worker' = [worker EXCEPT ![w].pc = IF Raised(o) THEN "failing" ELSE "cleanup"]
          /\ UNCHANGED <<file, queue, request, purge, stores>>
  BY DEF Complete
<1>2. worker \in [Runners -> WorkerState] /\ \A v \in Runners : Consistent(v, worker[v])
  BY WorkersInType DEF WorkersOK
<1>3. /\ worker[w].job \in Jobs /\ worker[w].doc \in Docs
      /\ owner[worker[w].doc] = worker[w].job /\ row[worker[w].doc] # "absent"
  BY <1>1, <1>2 DEF WorkerState, Consistent, Documented, Owned, Recorded
<1>4. \A v \in Runners : worker'[v] = worker[v] \/ worker'[v].pc \notin {"indexed", "recorded"}
  BY <1>1, <1>2 DEF WorkerState
<1>5. \A j \in Jobs : \/ job'[j] = job[j]
                      \/ j = worker[w].job /\ job'[j].doc = worker[w].doc
  BY <1>1 DEF UpdateJob, TypeOK
<1>6. CompletedIsListed'
  BY <1>1, <1>3, <1>5, NoneAssumption DEF CompletedIsListed, Documented, stores, TypeOK
<1> QED
  BY <1>1, <1>4, <1>6 DEF Documented, Owned, Recorded, RowsOwned, ChecksOwn, Tenant, stores, TypeOK

\* Deletions mark rows of their own tenant and never remove one.
LEMMA DeleteMarksOwn ==
  ASSUME TypeOK, Documented, NEW a \in Admins, Delete(a)
  PROVE  \A d \in Docs : \/ row'[d] = row[d]
                         \/ row[d] # "absent" /\ row'[d] = "deleted" /\ Tenant(d) = TenantOf[a]
<1>1. CASE MarkDeleted(a)
  BY <1>1 DEF MarkDeleted, Documented, ChecksOwn, TypeOK
<1>2. ASSUME NEW ds \in SUBSET Docs, BulkDelete(a, ds)
      PROVE  \A d \in Docs : \/ row'[d] = row[d]
                             \/ row[d] # "absent" /\ row'[d] = "deleted" /\ Tenant(d) = TenantOf[a]
  BY <1>2 DEF BulkDelete, TypeOK
<1> QED
  BY <1>1, <1>2 DEF Delete, CheckDelete, PurgeChunks, FinishDelete, stores

\* So the steps of a delete request keep the ties.
LEMMA DeleteKeepsDocumented ==
  ASSUME TypeOK, Documented, NEW a \in Admins, Delete(a)
  PROVE  Documented'
<1>1. UNCHANGED <<uploads, owner, worker>>
  BY DEF Delete, CheckDelete, MarkDeleted, BulkDelete, PurgeChunks, FinishDelete, stores
<1>2. \A d \in Docs : \/ row'[d] = row[d]
                      \/ row[d] # "absent" /\ row'[d] = "deleted" /\ Tenant(d) = TenantOf[a]
  BY DeleteMarksOwn
<1>3. \A b \in Admins : purge'[b].pc = "checked" =>
        \/ purge'[b] = purge[b]
        \/ \A d \in purge'[b].todo : row[d] # "absent" /\ Tenant(d) = TenantOf[b]
  <2>1. ASSUME NEW d \in Docs, CheckDelete(a, d)
        PROVE  \A b \in Admins : \/ purge'[b] = purge[b]
                                 \/ \A e \in purge'[b].todo : row[e] # "absent" /\ Tenant(e) = TenantOf[b]
    BY <2>1 DEF CheckDelete, TypeOK
  <2>2. CASE MarkDeleted(a) \/ FinishDelete(a)
    BY <2>2 DEF MarkDeleted, FinishDelete, NoPurge, TypeOK
  <2>3. ASSUME NEW ds \in SUBSET Docs, BulkDelete(a, ds)
        PROVE  \A b \in Admins : purge'[b] = purge[b] \/ purge'[b].pc # "checked"
    BY <2>3 DEF BulkDelete, NoPurge, TypeOK
  <2>4. ASSUME NEW d \in Docs, PurgeChunks(a, d)
        PROVE  \A b \in Admins : purge'[b] = purge[b] \/ purge'[b].pc # "checked"
    BY <2>4 DEF PurgeChunks, NoPurge, TypeOK
  <2> QED
    BY <2>1, <2>2, <2>3, <2>4 DEF Delete
<1>4. Owned' /\ Recorded'
  BY <1>1, <1>2, WorkersInType DEF Owned, Recorded, Documented, WorkersOK, WorkerState, Consistent
<1>5. RowsOwned'
  BY <1>1, <1>2 DEF RowsOwned, Documented
<1>6. ChecksOwn'
  <2>1. purge' \in [Admins -> [pc : {"idle", "checked", "purging"}, todo : SUBSET Docs]]
    BY DeleteKeepsType DEF TypeOK
  <2> QED
    BY <1>1, <1>2, <1>3, <2>1 DEF ChecksOwn, Documented, Tenant
<1>7. CompletedIsListed'
  BY <1>1, <1>2 DEF CompletedIsListed, Documented, uploads, TypeOK
<1> QED
  BY <1>4, <1>5, <1>6, <1>7 DEF Documented

\* Together: the ties hold in every reachable state.
LEMMA DocumentedInit == Init => Documented
  BY DEF Init, Documented, Owned, Recorded, RowsOwned, ChecksOwn, CompletedIsListed, Idle, NoPurge

LEMMA DocumentedStep == TypeOK /\ Documented /\ [Next]_vars => Documented'
<1> SUFFICES ASSUME TypeOK, Documented, [Next]_vars PROVE Documented'
  OBVIOUS
<1>1. CASE UNCHANGED vars
  BY <1>1, QuietKeepsDocumented DEF vars, Quiet, stores
<1>2. ASSUME NEW j \in Jobs, Upload(j) PROVE Documented'
  BY <1>2, UploadIsQuiet, QuietKeepsDocumented
<1>3. ASSUME NEW w \in Runners, Work(w) \/ Crash(w) \/ Timeout(w) PROVE Documented'
  BY <1>3, WorkIsQuiet, QuietKeepsDocumented, IndexKeepsDocumented, RecordKeepsDocumented,
     CompleteKeepsDocumented DEF Work
<1>4. ASSUME NEW a \in Admins, Delete(a) PROVE Documented'
  BY <1>4, DeleteKeepsDocumented
<1>5. CASE CreateElsewhere
  BY <1>5, ElsewhereIsQuiet, QuietKeepsDocumented
<1> QED
  BY <1>1, <1>2, <1>3, <1>4, <1>5 DEF Next

LEMMA DocumentedAlways == Spec => [](TypeOK /\ Documented)
<1>1. Init => TypeOK /\ Documented
  BY TypeInit, DocumentedInit
<1>2. TypeOK /\ Documented /\ [Next]_vars => TypeOK' /\ Documented'
  BY TypeNext, DocumentedStep
<1> QED
  BY <1>1, <1>2, PTL DEF Spec

\* A completed job names a document that is listed and was made from its upload, though
\* the chunks, the row and the job are written by three calls of which any may fail
\* (process_ingest_job).
THEOREM CompletedAreListed == Spec => []CompletedIsListed
<1>1. Documented => CompletedIsListed
  BY DEF Documented
<1> QED
  BY <1>1, DocumentedAlways, PTL
-----------------------------------------------------------------------------
\* No step of an upload, of a worker or of a foreign admin takes anything from a
\* document.
LEMMA OwnTenantStep ==
  ASSUME TypeOK, Documented, OnlyOwnTenantDeletes, [Next]_vars
  PROVE  OnlyOwnTenantDeletes'
<1>1. CASE UNCHANGED vars
  BY <1>1 DEF vars, OnlyOwnTenantDeletes, Tenant
<1>2. CASE Quiet
  BY <1>2 DEF Quiet, stores, OnlyOwnTenantDeletes, Tenant
<1>3. ASSUME NEW w \in Runners, Index(w) PROVE OnlyOwnTenantDeletes'
  <2>1. PICK d \in Docs :
          /\ owner[d] = None /\ row' = row /\ points' = points \cup {d}
          /\ \E j : owner' = [owner EXCEPT ![d] = j]
    BY <1>3 DEF Index
  <2>2. row[d] = "absent"
    BY <2>1 DEF Documented, RowsOwned
  <2> QED
    BY <2>1, <2>2 DEF OnlyOwnTenantDeletes, Tenant, TypeOK
<1>4. ASSUME NEW w \in Runners, RecordDocument(w) PROVE OnlyOwnTenantDeletes'
  <2>1. owner' = owner /\ points' = points /\ \A d \in Docs : row'[d] = row[d] \/ row'[d] = "active"
    BY <1>4 DEF RecordDocument, TypeOK
  <2> QED
    BY <2>1 DEF OnlyOwnTenantDeletes, Tenant
<1>5. ASSUME NEW w \in Runners, Complete(w) PROVE OnlyOwnTenantDeletes'
  BY <1>5 DEF Complete, stores, OnlyOwnTenantDeletes, Tenant
<1>6. ASSUME NEW a \in Admins, Delete(a) PROVE OnlyOwnTenantDeletes'
  <2>1. owner' = owner
    BY <1>6 DEF Delete, CheckDelete, MarkDeleted, BulkDelete, PurgeChunks, FinishDelete, stores
  <2>2. \A d \in Docs : row'[d] = row[d] \/ Tenant(d) = TenantOf[a]
    BY <1>6, DeleteMarksOwn
  <2>3. \A d \in Docs : d \in points /\ d \notin points' => Tenant(d) = TenantOf[a]
    BY <1>6 DEF Delete, CheckDelete, MarkDeleted, BulkDelete, PurgeChunks, FinishDelete, stores
  <2> QED
    BY <2>1, <2>2, <2>3 DEF OnlyOwnTenantDeletes, Tenant
<1> QED
  BY <1>1, <1>2, <1>3, <1>4, <1>5, <1>6, UploadIsQuiet, WorkIsQuiet, ElsewhereIsQuiet DEF Next, Work

\* Whatever ids an admin sends, singly or in bulk, legacy ids included: documents of
\* other tenants keep row and chunks (remove_document, bulk_operation).
THEOREM DeletesOwnTenantOnly == Spec => []OnlyOwnTenantDeletes
<1>1. Init => OnlyOwnTenantDeletes
  BY DEF Init, OnlyOwnTenantDeletes
<1> QED
  BY <1>1, DocumentedAlways, OwnTenantStep, PTL DEF Spec
-----------------------------------------------------------------------------
\* What keeps an active document's chunks in place, when no one deletes by ids of the
\* legacy listing: a document is recorded by one worker only, before anyone can ask to
\* delete it, and what is purged is marked first.
Indexed == \A w \in Runners : worker[w].pc = "indexed" =>
             worker[w].doc \in points /\ row[worker[w].doc] = "absent"
IndexedOnce == \A v, w \in Runners :
                 worker[v].pc = "indexed" /\ worker[w].pc = "indexed" /\ worker[v].doc = worker[w].doc => v = w
PurgesListed == \A a \in Admins : \A d \in purge[a].todo : row[d] # "absent"
PurgesMarked == \A a \in Admins : purge[a].pc = "purging" =>
                  \A d \in purge[a].todo : Tenant(d) = TenantOf[a] => row[d] = "deleted"
Searchable == Indexed /\ IndexedOnce /\ PurgesListed /\ PurgesMarked /\ ActiveIsSearchable

LEMMA SearchableInit == Init => Searchable
  BY DEF Init, Searchable, Indexed, IndexedOnce, PurgesListed, PurgesMarked, ActiveIsSearchable, Idle, NoPurge

LEMMA QuietKeepsSearchable ==
  ASSUME TypeOK, Searchable, Quiet
  PROVE  Searchable'
  BY DEF Searchable, Indexed, IndexedOnce, PurgesListed, PurgesMarked, ActiveIsSearchable, Tenant, Quiet, stores, TypeOK

LEMMA IndexKeepsSearchable ==
  ASSUME TypeOK, Documented, Searchable, NEW w \in Runners, Index(w)
  PROVE  Searchable'
<1>1. PICK d \in Docs, o \in Outcomes("qdrant") :
          /\ worker[w].pc \in {"working", "ready"}
          /\ owner[d] = None
          /\ owner' = [owner EXCEPT ![d] = worker[w].job]
          /\ points' = points \cup {d}
          /\ worker' = [worker EXCEPT ![w] = IF Raised(o) THEN [@ EXCEPT !.pc = "failing"]
                                     ELSE [@ EXCEPT !.pc = "indexed", !.doc = d]]
          /\ UNCHANGED <<uploads, row, collection, preview, purge>>
  BY DEF Index, Ready
<1>2. worker \in [Runners -> WorkerState] /\ \A v \in Runners : Consistent(v, worker[v])
  BY WorkersInType DEF WorkersOK
<1>3. row[d] = "absent" /\ \A v \in Runners : worker[v].pc = "indexed" => worker[v].doc # d
  BY <1>1, <1>2, NoneAssumption DEF Documented, Owned, RowsOwned, Consistent, WorkerState
<1>4. \A e \in Docs : e # d => owner'[e] = owner[e]
  BY <1>1 DEF TypeOK
<1>5. \A v \in Runners : v # w => worker'[v] = worker[v]
  BY <1>1, <1>2
<1>6. worker'[w].pc # "indexed" \/ (worker'[w].pc = "indexed" /\ worker'[w].doc = d)
  BY <1>1, <1>2 DEF WorkerState
<1>7. Indexed'
  BY <1>1, <1>3, <1>5, <1>6 DEF Indexed, Searchable
<1>8. IndexedOnce'
  BY <1>3, <1>5, <1>6 DEF IndexedOnce, Searchable
<1>9. PurgesListed' /\ PurgesMarked'
  <2>1. \A a \in Admins : d \notin purge[a].todo
    BY <1>3 DEF Searchable, PurgesListed
  <2> QED
    BY <1>1, <1>4, <2>1 DEF PurgesListed, PurgesMarked, Searchable, Tenant, TypeOK
<1>10. ActiveIsSearchable'
  BY <1>1 DEF ActiveIsSearchable, Searchable
<1> QED
  BY <1>7, <1>8, <1>9, <1>10 DEF Searchable

LEMMA RecordKeepsSearchable ==
  ASSUME TypeOK, Searchable, NEW w \in Runners, RecordDocument(w)
  PROVE  Searchable'
<1>1. PICK copied \in BOOLEAN, o \in Outcomes("db") :
          /\ worker[w].pc = "indexed"
          /\ row' = IF o = "lost" THEN row ELSE [row EXCEPT ![worker[w].doc] = "active"]
          /\ worker' = [worker EXCEPT ![w].pc = IF Raised(o) THEN "failing" ELSE "recorded"]
          /\ UNCHANGED <<uploads, collection, points, owner, purge>>
  BY DEF RecordDocument
<1>2. worker \in [Runners -> WorkerState] /\ \A v \in Runners : Consistent(v, worker[v])
  BY WorkersInType DEF WorkersOK
<1>3. worker[w].doc \in Docs /\ worker[w].doc \in points /\ row[worker[w].doc] = "absent"
  BY <1>1, <1>2 DEF WorkerState, Consistent, Searchable, Indexed
<1>4. \A d \in Docs : row'[d] = row[d] \/ (d = worker[w].doc /\ row'[d] = "active")
  BY <1>1 DEF TypeOK
<1>5. \A v \in Runners : v # w => worker'[v] = worker[v]
  BY <1>1, <1>2
<1>6. worker'[w].pc # "indexed"
  BY <1>1, <1>2 DEF WorkerState
<1>7. Indexed' /\ IndexedOnce'
  BY <1>1, <1>2, <1>4, <1>5, <1>6 DEF Indexed, IndexedOnce, Searchable, WorkerState, Consistent
<1>8. PurgesListed' /\ PurgesMarked'
  <2>1. \A a \in Admins : worker[w].doc \notin purge[a].todo
    BY <1>3 DEF Searchable, PurgesListed
  <2> QED
    BY <1>1, <1>4, <2>1 DEF PurgesListed, PurgesMarked, Searchable, Tenant, TypeOK
<1>9. ActiveIsSearchable'
  BY <1>1, <1>3, <1>4 DEF ActiveIsSearchable, Searchable
<1> QED
  BY <1>7, <1>8, <1>9 DEF Searchable

LEMMA CompleteKeepsSearchable ==
  ASSUME TypeOK, Searchable, NEW w \in Runners, Complete(w)
  PROVE  Searchable'
<1>1. \A v \in Runners : worker'[v] = worker[v] \/ worker'[v].pc # "indexed"
  BY WorkersInType DEF WorkersOK, WorkerState, Complete
<1>2. UNCHANGED <<purge, stores>>
  BY DEF Complete
<1> QED
  BY <1>1, <1>2 DEF Searchable, Indexed, IndexedOnce, PurgesListed, PurgesMarked, ActiveIsSearchable, Tenant, stores, TypeOK

LEMMA DeleteKeepsSearchable ==
  ASSUME ~Legacy, TypeOK, Documented, Searchable, NEW a \in Admins, Delete(a)
  PROVE  Searchable'
<1>1. UNCHANGED <<owner, worker>>
  BY DEF Delete, CheckDelete, MarkDeleted, BulkDelete, PurgeChunks, FinishDelete, stores
<1>2. \A d \in Docs : row'[d] = row[d] \/ (row[d] # "absent" /\ row'[d] = "deleted")
  BY DeleteMarksOwn
<1>3. \A b \in Admins : b # a => purge'[b] = purge[b]
  BY DEF Delete, CheckDelete, MarkDeleted, BulkDelete, PurgeChunks, FinishDelete, TypeOK
<1>4. \A d \in purge'[a].todo : row[d] # "absent"
  <2>1. ASSUME NEW d \in Docs, CheckDelete(a, d) PROVE \A e \in purge'[a].todo : row[e] # "absent"
    BY <2>1 DEF CheckDelete, TypeOK
  <2>2. ASSUME NEW ds \in SUBSET Docs, BulkDelete(a, ds) PROVE \A e \in purge'[a].todo : row[e] # "absent"
    BY <2>2 DEF BulkDelete, Known, NoPurge, TypeOK
  <2>3. ASSUME NEW d \in Docs, PurgeChunks(a, d) PROVE \A e \in purge'[a].todo : row[e] # "absent"
    BY <2>3 DEF PurgeChunks, Searchable, PurgesListed, NoPurge, TypeOK
  <2>4. CASE MarkDeleted(a)
    BY <2>4 DEF MarkDeleted, Searchable, PurgesListed, NoPurge, TypeOK
  <2>5. CASE FinishDelete(a)
    BY <2>5 DEF FinishDelete, NoPurge, TypeOK
  <2> QED
    BY <2>1, <2>2, <2>3, <2>4, <2>5 DEF Delete
<1>5. purge'[a].pc = "purging" =>
        \A d \in purge'[a].todo : Tenant(d) = TenantOf[a] => row'[d] = "deleted"
  <2>1. ASSUME NEW d \in Docs, CheckDelete(a, d) PROVE purge'[a].pc # "purging"
    BY <2>1 DEF CheckDelete, TypeOK
  <2>2. ASSUME NEW ds \in SUBSET Docs, BulkDelete(a, ds), purge'[a].pc = "purging"
        PROVE  \A d \in purge'[a].todo : Tenant(d) = TenantOf[a] => row'[d] = "deleted"
    BY <2>2 DEF BulkDelete, Known, NoPurge, Raised, TypeOK
  <2>3. ASSUME NEW e \in Docs, PurgeChunks(a, e), purge'[a].pc = "purging"
        PROVE  \A d \in purge'[a].todo : Tenant(d) = TenantOf[a] => row'[d] = "deleted"
    BY <2>3 DEF PurgeChunks, Searchable, PurgesMarked, NoPurge, TypeOK
  <2>4. ASSUME MarkDeleted(a), purge'[a].pc = "purging"
        PROVE  \A d \in purge'[a].todo : Tenant(d) = TenantOf[a] => row'[d] = "deleted"
    BY <2>4 DEF MarkDeleted, NoPurge, Raised, TypeOK
  <2>5. ASSUME FinishDelete(a) PROVE purge'[a].pc # "purging"
    BY <2>5 DEF FinishDelete, NoPurge, TypeOK
  <2> QED
    BY <2>1, <2>2, <2>3, <2>4, <2>5 DEF Delete
<1>6. \A d \in Docs : d \in points /\ d \notin points' => row[d] = "deleted"
  BY DEF Delete, CheckDelete, MarkDeleted, BulkDelete, PurgeChunks, FinishDelete, stores, Searchable, PurgesMarked
<1>7. Indexed' /\ IndexedOnce'
  BY <1>1, <1>2, <1>6, WorkersInType
     DEF Indexed, IndexedOnce, Searchable, WorkersOK, WorkerState, Consistent
<1>8. purge' \in [Admins -> [pc : {"idle", "checked", "purging"}, todo : SUBSET Docs]]
  BY DeleteKeepsType DEF TypeOK
<1>9. PurgesListed'
  BY <1>2, <1>3, <1>4, <1>8 DEF PurgesListed, Searchable
<1>10. PurgesMarked'
  BY <1>1, <1>2, <1>3, <1>5, <1>8 DEF PurgesMarked, Searchable, Tenant
<1>11. ActiveIsSearchable'
  BY <1>2, <1>6 DEF ActiveIsSearchable, Searchable
<1> QED
  BY <1>7, <1>9, <1>10, <1>11 DEF Searchable

LEMMA SearchableStep == ~Legacy /\ TypeOK /\ Documented /\ Searchable /\ [Next]_vars => Searchable'
<1> SUFFICES ASSUME ~Legacy, TypeOK, Documented, Searchable, [Next]_vars PROVE Searchable'
  OBVIOUS
<1>1. CASE UNCHANGED vars
  BY <1>1, QuietKeepsSearchable DEF vars, Quiet, stores
<1>2. ASSUME NEW j \in Jobs, Upload(j) PROVE Searchable'
  BY <1>2, UploadIsQuiet, QuietKeepsSearchable
<1>3. ASSUME NEW w \in Runners, Work(w) \/ Crash(w) \/ Timeout(w) PROVE Searchable'
  BY <1>3, WorkIsQuiet, QuietKeepsSearchable, IndexKeepsSearchable, RecordKeepsSearchable,
     CompleteKeepsSearchable DEF Work
<1>4. ASSUME NEW a \in Admins, Delete(a) PROVE Searchable'
  BY <1>4, DeleteKeepsSearchable
<1>5. CASE CreateElsewhere
  BY <1>5, ElsewhereIsQuiet, QuietKeepsSearchable
<1> QED
  BY <1>1, <1>2, <1>3, <1>4, <1>5 DEF Next

\* Whatever fails, a document listed as active can be found - as long as nobody deletes
\* in bulk by an id of the legacy listing (kb_ghost shows why).
THEOREM ActiveAreSearchable == ASSUME ~Legacy PROVE Spec => []ActiveIsSearchable
<1>1. TypeOK /\ Documented /\ Searchable /\ [Next]_vars => Searchable'
  BY SearchableStep
<1>2. Searchable => ActiveIsSearchable
  BY DEF Searchable
<1> QED
  BY <1>1, <1>2, SearchableInit, DocumentedAlways, PTL DEF Spec
-----------------------------------------------------------------------------
\* A job is run at most once: it is in one place only, and indexed from there before it
\* is anywhere else.
Early == {"new", "saved", "created"}
Before == {"picked", "working", "creating", "ready"}
InQueue(j) == \E i \in DOMAIN queue : queue[i] = j
Held(j) == \E w \in Runners : worker[w].job = j
Stored(j) == \E d \in Docs : owner[d] = j

EarlyUntouched == \A j \in Jobs : request[j] \in Early => ~InQueue(j) /\ ~Held(j) /\ ~Stored(j)
QueuedUntouched == \A i \in DOMAIN queue : ~Held(queue[i]) /\ ~Stored(queue[i])
QueuedOnce == \A i, k \in DOMAIN queue : queue[i] = queue[k] => i = k
HeldOnce == \A v, w \in Runners : worker[v].job = worker[w].job /\ worker[v].job # None => v = w
BeforeStored == \A w \in Runners : worker[w].pc \in Before => ~Stored(worker[w].job)
Once == EarlyUntouched /\ QueuedUntouched /\ QueuedOnce /\ HeldOnce /\ BeforeStored /\ OneDocumentPerJob

LEMMA OnceInit == Init => Once
<1> SUFFICES ASSUME Init PROVE Once
  OBVIOUS
<1>1. \A j \in Jobs : ~InQueue(j) /\ ~Held(j) /\ ~Stored(j)
  <2>1. DOMAIN queue = {} /\ \A w \in Runners : worker[w].job = None
    BY DEF Init, Idle
  <2>2. \A d \in Docs : owner[d] = None
    BY DEF Init
  <2> QED
    BY <2>1, <2>2, NoneAssumption DEF InQueue, Held, Stored
<1> QED
  BY <1>1 DEF Init, Once, EarlyUntouched, QueuedUntouched, QueuedOnce, HeldOnce, BeforeStored,
              OneDocumentPerJob, Idle, Before

\* The steps that bring no job anywhere.
Passive ==
  /\ UNCHANGED <<queue, owner>>
  /\ \A j \in Jobs : request'[j] \in Early => request[j] \in Early
  /\ \A w \in Runners :
       /\ worker'[w].job \in {worker[w].job, None}
       /\ worker'[w].pc \in Before => worker[w].pc \in Before /\ worker'[w].job = worker[w].job

LEMMA PassiveKeepsOnce ==
  ASSUME TypeOK, Once, Passive
  PROVE  Once'
<1>1. \A j \in Jobs : Held(j)' => Held(j)
  BY NoneAssumption DEF Held, Passive
<1>2. \A j : Stored(j)' <=> Stored(j)
  BY DEF Stored, Passive
<1>3. \A j : InQueue(j)' <=> InQueue(j)
  BY DEF InQueue, Passive
<1>4. \A i \in DOMAIN queue : queue[i] \in Jobs
  BY DEF TypeOK
<1>5. EarlyUntouched'
  BY <1>1, <1>2, <1>3 DEF EarlyUntouched, Once, Passive
<1>6. QueuedUntouched' /\ QueuedOnce'
  BY <1>1, <1>2, <1>4 DEF QueuedUntouched, QueuedOnce, Once, Passive
<1>7. HeldOnce'
  BY DEF HeldOnce, Once, Passive
<1>8. BeforeStored'
  BY <1>2 DEF BeforeStored, Once, Passive
<1>9. OneDocumentPerJob'
  BY DEF OneDocumentPerJob, Once, Passive
<1> QED
  BY <1>5, <1>6, <1>7, <1>8, <1>9 DEF Once

\* They are all but four: the enqueue, the direct run, the pick and the indexing.
LEMMA UploadIsPassive ==
  ASSUME TypeOK, NEW j \in Jobs, SaveFile(j) \/ CreateJob(j) \/ Refuse(j) \/ Accept(j)
  PROVE  Passive
<1>1. UNCHANGED <<queue, owner, worker>>
  BY DEF SaveFile, CreateJob, Refuse, Accept, stores
<1>2. \A i \in Jobs : request'[i] \in Early => request[i] \in Early
  BY DEF SaveFile, CreateJob, Refuse, Accept, Early, TypeOK
<1> QED
  BY <1>1, <1>2 DEF Passive

LEMMA WorkIsPassive ==
  ASSUME TypeOK, NEW w \in Runners,
         \/ StartJob(w) \/ NoText(w) \/ Unreadable(w) \/ MissCollection(w) \/ CreateCollection(w)
         \/ RecordDocument(w) \/ Complete(w) \/ MarkFailed(w) \/ Cleanup(w) \/ Crash(w) \/ Timeout(w)
  PROVE  Passive
<1>1. worker \in [Runners -> WorkerState]
  BY WorkersInType DEF WorkersOK
<1>2. UNCHANGED <<queue, owner>>
  BY DEF StartJob, NoText, Unreadable, MissCollection, CreateCollection, RecordDocument, Complete,
         MarkFailed, Cleanup, Crash, Timeout, uploads, stores
<1>3. \A i \in Jobs : request'[i] \in Early => request[i] \in Early
  BY DEF StartJob, NoText, Unreadable, MissCollection, CreateCollection, RecordDocument, Complete,
         MarkFailed, Cleanup, Crash, Timeout, uploads, Reraise, Early, TypeOK
<1>4. \A v \in Runners :
        /\ worker'[v].job \in {worker[v].job, None}
        /\ worker'[v].pc \in Before => worker[v].pc \in Before /\ worker'[v].job = worker[v].job
  <2>1. CASE StartJob(w)
    BY <1>1, <2>1 DEF StartJob, Idle, Before, WorkerState
  <2>2. CASE NoText(w) \/ Unreadable(w) \/ MissCollection(w)
    BY <1>1, <2>2 DEF NoText, Unreadable, MissCollection, Before, WorkerState
  <2>3. CASE CreateCollection(w)
    BY <1>1, <2>3 DEF CreateCollection, Before, WorkerState
  <2>4. CASE RecordDocument(w) \/ Complete(w) \/ MarkFailed(w)
    BY <1>1, <2>4 DEF RecordDocument, Complete, MarkFailed, Before, WorkerState
  <2>5. CASE Cleanup(w) \/ Crash(w)
    BY <1>1, <2>5 DEF Cleanup, Crash, Idle, Before, WorkerState
  <2>6. CASE Timeout(w)
    BY <1>1, <2>6 DEF Timeout, Idle, Before, WorkerState
  <2> QED
    BY <2>1, <2>2, <2>3, <2>4, <2>5, <2>6
<1> QED
  BY <1>2, <1>3, <1>4 DEF Passive

LEMMA DeleteIsPassive ==
  ASSUME NEW a \in Admins, Delete(a)
  PROVE  Passive
  BY DEF Delete, CheckDelete, MarkDeleted, BulkDelete, PurgeChunks, FinishDelete, uploads, stores, Passive

LEMMA EnqueueKeepsOnce ==
  ASSUME TypeOK, Once, NEW j \in Jobs, Enqueue(j)
  PROVE  Once'
<1>1. PICK o \in Outcomes("redis") :
        /\ request[j] = "created"
        /\ queue' = IF o = "lost" THEN queue ELSE Append(queue, j)
        /\ request' = [request EXCEPT ![j] = IF Raised(o) THEN "refused" ELSE "handed"]
        /\ UNCHANGED <<job, file, worker, purge, stores>>
  BY DEF Enqueue
<1>2. /\ \A i \in Jobs : i # j => request'[i] = request[i]
      /\ request'[j] \notin Early
  BY <1>1 DEF Early, TypeOK
<1>3. ~InQueue(j) /\ ~Held(j) /\ ~Stored(j)
  BY <1>1 DEF Once, EarlyUntouched, Early
<1>4. \A i : (Held(i)' <=> Held(i)) /\ (Stored(i)' <=> Stored(i))
  BY <1>1 DEF Held, Stored, stores
<1>5. /\ \A i \in DOMAIN queue' : queue'[i] = j \/ (i \in DOMAIN queue /\ queue'[i] = queue[i])
      /\ \A i, k \in DOMAIN queue' : queue'[i] = j /\ queue'[k] = j => i = k
  <2>1. CASE queue' = queue
    BY <1>3, <2>1 DEF InQueue
  <2>2. CASE queue' = Append(queue, j)
    <3>1. /\ DOMAIN queue = 1 .. Len(queue) /\ DOMAIN queue' = 1 .. (Len(queue) + 1)
          /\ Len(queue) \in Nat /\ queue'[Len(queue) + 1] = j
          /\ \A i \in 1 .. Len(queue) : queue'[i] = queue[i]
      BY <2>2 DEF TypeOK
    <3>2. \A i \in 1 .. Len(queue) : queue[i] # j
      BY <1>3, <3>1 DEF InQueue
    <3> QED
      BY <3>1, <3>2
  <2> QED
    BY <1>1, <2>1, <2>2
<1>6. EarlyUntouched'
  BY <1>2, <1>4, <1>5 DEF EarlyUntouched, Once, InQueue
<1>7. QueuedUntouched'
  BY <1>3, <1>4, <1>5 DEF QueuedUntouched, Once
<1>8. QueuedOnce'
  BY <1>5 DEF QueuedOnce, Once
<1>9. HeldOnce' /\ BeforeStored' /\ OneDocumentPerJob'
  BY <1>1, <1>4 DEF HeldOnce, BeforeStored, OneDocumentPerJob, Once, stores
<1> QED
  BY <1>6, <1>7, <1>8, <1>9 DEF Once

\* A runner takes up a job that nobody holds and no document was made from.
LEMMA TakingKeepsOnce ==
  ASSUME TypeOK, Once, NEW w \in Runners, NEW j \in Jobs,
         worker[w].job = None, ~Held(j), ~Stored(j),
         worker' = [worker EXCEPT ![w] = [pc |-> "picked", job |-> j, doc |-> None]],
         owner' = owner,
         \A i \in Jobs : request'[i] \in Early => request[i] \in Early /\ i # j,
         \A i \in DOMAIN queue' : queue'[i] # j /\ InQueue(queue'[i]),
         \A i, k \in DOMAIN queue' : queue'[i] = queue'[k] => i = k
  PROVE  Once'
<1>1. \A v \in Runners : worker'[v] = IF v = w THEN [pc |-> "picked", job |-> j, doc |-> None] ELSE worker[v]
  BY DEF TypeOK
<1>2. \A i \in Jobs : i # j /\ Held(i)' => Held(i)
  BY <1>1 DEF Held
<1>3. \A i : Stored(i)' <=> Stored(i)
  BY DEF Stored
<1>4. \A i \in DOMAIN queue : queue[i] \in Jobs
  BY DEF TypeOK
<1>5. EarlyUntouched'
  BY <1>2, <1>3 DEF EarlyUntouched, Once, InQueue
<1>6. QueuedUntouched' /\ QueuedOnce'
  BY <1>2, <1>3, <1>4 DEF QueuedUntouched, QueuedOnce, Once, InQueue
<1>7. HeldOnce'
  BY <1>1 DEF HeldOnce, Once, Held
<1>8. BeforeStored'
  BY <1>1, <1>3 DEF BeforeStored, Once
<1>9. OneDocumentPerJob'
  BY DEF OneDocumentPerJob, Once
<1> QED
  BY <1>5, <1>6, <1>7, <1>8, <1>9 DEF Once

LEMMA RunHereKeepsOnce ==
  ASSUME TypeOK, Once, NEW j \in Jobs, RunHere(j)
  PROVE  Once'
<1>1. /\ request[j] = "created" /\ j \in Runners
      /\ request' = [request EXCEPT ![j] = "handed"]
      /\ worker' = [worker EXCEPT ![j] = [pc |-> "picked", job |-> j, doc |-> None]]
      /\ queue' = queue /\ owner' = owner
  BY DEF RunHere, Runners, stores
<1>2. ~InQueue(j) /\ ~Held(j) /\ ~Stored(j)
  BY <1>1 DEF Once, EarlyUntouched, Early
<1>3. worker[j].job = None
  BY <1>1, <1>2, WorkersInType DEF Held, WorkersOK, Consistent, RunHere
<1>4. \A i \in Jobs : request'[i] \in Early => request[i] \in Early /\ i # j
  BY <1>1 DEF Early, TypeOK
<1>5. /\ \A i \in DOMAIN queue' : queue'[i] # j /\ InQueue(queue'[i])
      /\ \A i, k \in DOMAIN queue' : queue'[i] = queue'[k] => i = k
  BY <1>1, <1>2 DEF InQueue, Once, QueuedOnce
<1> QED
  BY <1>1, <1>2, <1>3, <1>4, <1>5, TakingKeepsOnce

LEMMA PickKeepsOnce ==
  ASSUME TypeOK, Once, NEW w \in Runners, Pick(w)
  PROVE  Once'
<1> DEFINE j == Head(queue)
<1>1. /\ worker[w].pc = "idle" /\ queue # <<>> /\ queue' = Tail(queue)
      /\ worker' = [worker EXCEPT ![w] = [pc |-> "picked", job |-> j, doc |-> None]]
      /\ request' = request /\ owner' = owner
  BY DEF Pick, stores
<1>2. /\ Len(queue) \in Nat /\ DOMAIN queue = 1 .. Len(queue) /\ Len(queue) > 0
      /\ j = queue[1] /\ j \in Jobs
      /\ DOMAIN queue' = 1 .. (Len(queue) - 1)
      /\ \A i \in 1 .. (Len(queue) - 1) : queue'[i] = queue[i + 1]
  BY <1>1 DEF TypeOK
<1> HIDE DEF j
<1>3. InQueue(j) /\ ~Held(j) /\ ~Stored(j)
  BY <1>2 DEF InQueue, Once, QueuedUntouched
<1>4. worker[w].job = None
  BY <1>1, WorkersInType DEF WorkersOK, Consistent
<1>5. \A i \in Jobs : request'[i] \in Early => request[i] \in Early /\ i # j
  BY <1>1, <1>3 DEF Once, EarlyUntouched
<1>6. \A i \in DOMAIN queue' : queue'[i] # j /\ InQueue(queue'[i])
  <2> SUFFICES ASSUME NEW i \in 1 .. (Len(queue) - 1)
               PROVE  queue'[i] # j /\ InQueue(queue'[i])
    BY <1>2
  <2>1. i + 1 \in DOMAIN queue /\ 1 \in DOMAIN queue /\ i + 1 # 1 /\ queue'[i] = queue[i + 1]
    BY <1>2
  <2> QED
    BY <1>2, <2>1 DEF InQueue, Once, QueuedOnce
<1>7. \A i, k \in DOMAIN queue' : queue'[i] = queue'[k] => i = k
  <2> SUFFICES ASSUME NEW i \in 1 .. (Len(queue) - 1), NEW k \in 1 .. (Len(queue) - 1),
                      queue'[i] = queue'[k]
               PROVE  i = k
    BY <1>2
  <2>1. i + 1 \in DOMAIN queue /\ k + 1 \in DOMAIN queue /\ queue[i + 1] = queue[k + 1]
    BY <1>2
  <2>2. i + 1 = k + 1
    BY <2>1 DEF Once, QueuedOnce
  <2> QED
    BY <2>2
<1> QED
  BY <1>1, <1>2, <1>3, <1>4, <1>5, <1>6, <1>7, TakingKeepsOnce

LEMMA IndexKeepsOnce ==
  ASSUME TypeOK, Once, NEW w \in Runners, Index(w)
  PROVE  Once'
<1>1. PICK d \in Docs, o \in Outcomes("qdrant") :
          /\ worker[w].pc \in {"working", "ready"}
          /\ owner[d] = None
          /\ owner' = [owner EXCEPT ![d] = worker[w].job]
          /\ worker' = [worker EXCEPT ![w] = IF Raised(o) THEN [@ EXCEPT !.pc = "failing"]
                                     ELSE [@ EXCEPT !.pc = "indexed", !.doc = d]]
          /\ UNCHANGED <<uploads, row, collection, preview, purge>>
  BY DEF Index, Ready
<1> DEFINE j == worker[w].job
<1>2. worker \in [Runners -> WorkerState] /\ j \in Jobs
  BY <1>1, WorkersInType DEF WorkersOK, WorkerState, Consistent
<1>3. /\ \A v \in Runners : worker'[v].job = worker[v].job
      /\ \A v \in Runners : v # w => worker'[v] = worker[v]
      /\ worker'[w].pc \notin Before
  BY <1>1, <1>2 DEF WorkerState, Before
<1>4. /\ \A e \in Docs : owner'[e] = IF e = d THEN j ELSE owner[e]
  BY <1>1 DEF TypeOK
<1>5. \A i : (Held(i)' <=> Held(i)) /\ (InQueue(i)' <=> InQueue(i))
  BY <1>1, <1>3 DEF Held, InQueue, uploads
<1>6. \A i \in Jobs : i # j /\ Stored(i)' => Stored(i)
  BY <1>4 DEF Stored
<1>7. Held(j) /\ ~Stored(j)
  BY <1>1 DEF Held, Once, BeforeStored, Before
<1> HIDE DEF j
<1>8. EarlyUntouched'
  BY <1>1, <1>5, <1>6, <1>7 DEF EarlyUntouched, Once, uploads
<1>9. QueuedUntouched' /\ QueuedOnce'
  <2>1. queue' = queue /\ \A i \in DOMAIN queue : queue[i] \in Jobs
    BY <1>1 DEF TypeOK, uploads
  <2> QED
    BY <1>5, <1>6, <1>7, <2>1 DEF QueuedUntouched, QueuedOnce, Once
<1>10. HeldOnce'
  BY <1>3 DEF HeldOnce, Once
<1>11. BeforeStored'
  <2> SUFFICES ASSUME NEW v \in Runners, worker'[v].pc \in Before,
                      NEW e \in Docs, owner'[e] = worker'[v].job
               PROVE  FALSE
    BY DEF BeforeStored, Stored
  <2>1. v # w /\ worker'[v] = worker[v] /\ ~Stored(worker[v].job)
    BY <1>3 DEF Once, BeforeStored
  <2>2. worker[v].job \in Jobs
    BY <2>1, WorkersInType DEF WorkersOK, WorkerState, Consistent, Before
  <2>3. worker[v].job # j
    BY <1>2, <2>1, <2>2, NoneAssumption DEF Once, HeldOnce, j
  <2> QED
    BY <1>4, <2>1, <2>3 DEF Stored
<1>12. OneDocumentPerJob'
  BY <1>4, <1>7 DEF OneDocumentPerJob, Once, Stored
<1> QED
  BY <1>8, <1>9, <1>10, <1>11, <1>12 DEF Once

LEMMA OnceStep == TypeOK /\ Once /\ [Next]_vars => Once'
<1> SUFFICES ASSUME TypeOK, Once, [Next]_vars PROVE Once'
  OBVIOUS
<1>1. CASE UNCHANGED vars
  BY <1>1, PassiveKeepsOnce DEF vars, Passive
<1>2. ASSUME NEW j \in Jobs, Upload(j) PROVE Once'
  BY <1>2, UploadIsPassive, PassiveKeepsOnce, EnqueueKeepsOnce, RunHereKeepsOnce DEF Upload
<1>3. ASSUME NEW w \in Runners, Work(w) \/ Crash(w) \/ Timeout(w) PROVE Once'
  BY <1>3, WorkIsPassive, PassiveKeepsOnce, PickKeepsOnce, IndexKeepsOnce DEF Work
<1>4. ASSUME NEW a \in Admins, Delete(a) PROVE Once'
  BY <1>4, DeleteIsPassive, PassiveKeepsOnce
<1>5. CASE CreateElsewhere
  BY <1>5, PassiveKeepsOnce DEF CreateElsewhere, Passive, uploads
<1> QED
  BY <1>1, <1>2, <1>3, <1>4, <1>5 DEF Next

\* However calls, processes and time limits fail, an upload yields one document at most:
\* neither the refused enqueue that got through nor the direct run repeats a job.
THEOREM OnePerUpload == Spec => []OneDocumentPerJob
<1>1. Once => OneDocumentPerJob
  BY DEF Once
<1>2. Spec => []TypeOK
  BY TypeCorrect
<1> QED
  BY <1>1, <1>2, OnceInit, OnceStep, PTL DEF Spec
-----------------------------------------------------------------------------
\* The life of documents: every step is a step of DocumentLife, or touches no document.
Placed == \A d \in points : owner[d] # None
Living == TypeOK /\ Documented /\ Searchable /\ Once /\ Placed

LEMMA PlacedStep ==
  ASSUME TypeOK, Placed, [Next]_vars
  PROVE  Placed'
<1>1. ASSUME Quiet \/ UNCHANGED <<points, owner>> PROVE Placed'
  BY <1>1 DEF Quiet, Placed
<1>2. ASSUME NEW w \in Runners, Index(w) PROVE Placed'
  <2>1. PICK d \in Docs : /\ owner' = [owner EXCEPT ![d] = worker[w].job]
                          /\ points' = points \cup {d}
                          /\ worker[w].pc \in {"working", "ready"}
    BY <1>2 DEF Index, Ready
  <2>2. worker[w].job \in Jobs
    BY <2>1, WorkersInType DEF WorkersOK, WorkerState, Consistent
  <2> QED
    BY <2>1, <2>2, NoneAssumption DEF Placed, TypeOK
<1>3. ASSUME NEW a \in Admins, Delete(a) PROVE Placed'
  BY <1>3 DEF Delete, CheckDelete, MarkDeleted, BulkDelete, PurgeChunks, FinishDelete, stores, Placed
<1>4. ASSUME NEW w \in Runners, RecordDocument(w) \/ Complete(w) PROVE UNCHANGED <<points, owner>>
  BY <1>4 DEF RecordDocument, Complete, stores
<1> QED
  BY <1>1, <1>2, <1>3, <1>4, UploadIsQuiet, WorkIsQuiet, ElsewhereIsQuiet DEF Next, Work, vars

LEMMA LivingAlways == ASSUME ~Legacy PROVE Spec => []Living
<1>1. Init => Living
  BY TypeInit, DocumentedInit, SearchableInit, OnceInit DEF Living, Init, Placed
<1>2. Living /\ [Next]_vars => Living'
  BY TypeNext, DocumentedStep, SearchableStep, OnceStep, PlacedStep DEF Living
<1> QED
  BY <1>1, <1>2, PTL DEF Spec

\* How the stages change, from how the rows and the chunks do.
LEMMA StageChange ==
  ASSUME TypeOK, NEW D \in SUBSET Docs, NEW to,
         \A d \in Docs \ D : row'[d] = row[d] /\ (d \in points' <=> d \in points),
         \A d \in D : Stage'[d] = to
  PROVE  Stage' = [d \in Docs |-> IF d \in D THEN to ELSE Stage[d]]
<1>1. \A d \in Docs \ D : StageOf(row'[d], d \in points') = StageOf(row[d], d \in points)
  OBVIOUS
<1>2. \A d \in Docs : Stage[d] = StageOf(row[d], d \in points)
  BY DEF Stage
<1>3. \A d \in Docs : Stage'[d] = StageOf(row'[d], d \in points')
  BY DEF Stage
<1>4. Stage' = [d \in Docs |-> StageOf(row'[d], d \in points')]
  BY DEF Stage
<1> QED
  BY <1>1, <1>2, <1>3, <1>4

\* The same for a single document.
LEMMA StageOfOne ==
  ASSUME NEW e \in Docs, NEW to,
         \A d \in Docs \ {e} : row'[d] = row[d] /\ (d \in points' <=> d \in points),
         Stage'[e] = to
  PROVE  Stage' = [Stage EXCEPT ![e] = to]
<1>1. \A d \in Docs \ {e} : StageOf(row'[d], d \in points') = StageOf(row[d], d \in points)
  OBVIOUS
<1>2. StageOf(row'[e], e \in points') = to
  BY DEF Stage
<1> QED
  BY <1>1, <1>2 DEF Stage

LEMMA LifeStutters ==
  ASSUME TypeOK, UNCHANGED <<row, points, owner>>
  PROVE  UNCHANGED Life!life
  BY DEF Life!life, Stage

LEMMA IndexIsStore ==
  ASSUME Living, NEW w \in Runners, Index(w)
  PROVE  Life!Next
<1>1. PICK d \in Docs :
          /\ worker[w].pc \in {"working", "ready"}
          /\ owner[d] = None
          /\ owner' = [owner EXCEPT ![d] = worker[w].job]
          /\ points' = points \cup {d} /\ row' = row
  BY DEF Index, Ready
<1>2. worker[w].job \in Jobs /\ ~Stored(worker[w].job)
  BY <1>1, WorkersInType DEF WorkersOK, WorkerState, Consistent, Living, Once, BeforeStored, Before
<1>3. row[d] = "absent" /\ d \notin points
  BY <1>1 DEF Living, Documented, RowsOwned, Placed
<1>4. Stage[d] = "unborn" /\ Stage'[d] = "stored"
  BY <1>1, <1>3 DEF Stage, StageOf
<1>6. Stage' = [Stage EXCEPT ![d] = "stored"]
  BY <1>1, <1>4, StageOfOne DEF Living
<1>7. Life!Store(d, worker[w].job)
  BY <1>1, <1>2, <1>4, <1>6 DEF Life!Store, Stored
<1> QED
  BY <1>2, <1>7 DEF Life!Next

LEMMA RecordIsList ==
  ASSUME Living, NEW w \in Runners, RecordDocument(w)
  PROVE  [Life!Next]_(Life!life)
<1> DEFINE d == worker[w].doc
<1>1. /\ worker[w].pc = "indexed"
      /\ row' = row \/ row' = [row EXCEPT ![d] = "active"]
      /\ points' = points /\ owner' = owner
  BY DEF RecordDocument
<1>2. d \in Docs /\ d \in points /\ row[d] = "absent"
  BY <1>1, WorkersInType DEF WorkersOK, WorkerState, Consistent, Living, Searchable, Indexed
<1> HIDE DEF d
<1>3. CASE row' = row
  BY <1>1, <1>3, LifeStutters DEF Living
<1>4. CASE row' = [row EXCEPT ![d] = "active"]
  <2>1. row'[d] = "active" /\ \A e \in Docs \ {d} : row'[e] = row[e]
    BY <1>2, <1>4 DEF Living, TypeOK
  <2>2. Stage[d] = "stored" /\ Stage'[d] = "listed"
    BY <1>1, <1>2, <2>1 DEF Stage, StageOf
  <2>4. Stage' = [Stage EXCEPT ![d] = "listed"]
    BY <1>1, <1>2, <2>1, <2>2, StageOfOne DEF Living
  <2>5. Life!List(d)
    BY <1>1, <2>2, <2>4 DEF Life!List
  <2> QED
    BY <1>2, <2>5 DEF Life!Next
<1> QED
  BY <1>1, <1>3, <1>4

\* An UPDATE that marks rows withdraws the documents that were listed.
LEMMA MarkingIsWithdraw ==
  ASSUME Living, NEW a \in Admins, points' = points, owner' = owner,
         \A d \in Docs : \/ row'[d] = row[d]
                         \/ row[d] # "absent" /\ row'[d] = "deleted" /\ Tenant(d) = TenantOf[a]
  PROVE  Life!Next
<1> DEFINE D == {d \in Docs : row[d] = "active" /\ row'[d] = "deleted"}
<1>1. \A d \in D : /\ Stage[d] = "listed" /\ Stage'[d] = "withdrawn"
                    /\ TenantOf[owner[d]] = TenantOf[a]
  BY DEF Stage, StageOf, Living, Searchable, ActiveIsSearchable, Tenant
<1>2. \A d \in Docs \ D : row'[d] = row[d]
  BY DEF Living, TypeOK
<1>3. D \in SUBSET Docs
  OBVIOUS
<1> HIDE DEF D
<1>4. Stage' = [d \in Docs |-> IF d \in D THEN "withdrawn" ELSE Stage[d]]
  BY <1>1, <1>2, <1>3, StageChange DEF Living
<1>5. Life!Withdraw(a, D)
  BY <1>1, <1>4 DEF Life!Withdraw
<1> QED
  BY <1>3, <1>5 DEF Life!Next

LEMMA PurgeIsErase ==
  ASSUME Living, NEW a \in Admins, NEW d \in Docs, PurgeChunks(a, d)
  PROVE  [Life!Next]_(Life!life)
<1>1. /\ purge[a].pc = "purging" /\ d \in purge[a].todo
      /\ row' = row /\ owner' = owner
      /\ points' = points \/ (Tenant(d) = TenantOf[a] /\ points' = points \ {d})
  BY DEF PurgeChunks
<1>2. CASE points' = points
  BY <1>1, <1>2, LifeStutters DEF Living
<1>3. CASE Tenant(d) = TenantOf[a] /\ points' = points \ {d} /\ d \in points
  <2>1. row[d] = "deleted"
    BY <1>1, <1>3 DEF Living, Searchable, PurgesMarked
  <2>2. Stage[d] = "withdrawn" /\ Stage'[d] = "erased"
    BY <1>1, <1>3, <2>1 DEF Stage, StageOf
  <2>4. Stage' = [Stage EXCEPT ![d] = "erased"]
    BY <1>1, <1>3, <2>2, StageOfOne DEF Living
  <2>5. Life!Erase(d)
    BY <1>1, <2>2, <2>4 DEF Life!Erase
  <2> QED
    BY <2>5 DEF Life!Next
<1>4. CASE points' = points \ {d} /\ d \notin points
  <2>1. points' = points
    BY <1>4
  <2> QED
    BY <1>1, <2>1, LifeStutters DEF Living
<1> QED
  BY <1>1, <1>2, <1>3, <1>4

LEMMA LifeInit == Init => Life!Init
<1> SUFFICES ASSUME Init PROVE Life!Init
  OBVIOUS
<1>1. \A d \in Docs : row[d] = "absent" /\ d \notin points
  BY DEF Init
<1>2. Stage = [d \in Docs |-> "unborn"]
  BY <1>1 DEF Stage, StageOf
<1>3. owner = [d \in Docs |-> None]
  BY DEF Init
<1> QED
  BY <1>2, <1>3 DEF Life!Init

LEMMA LifeStep == Living /\ [Next]_vars => [Life!Next]_(Life!life)
<1> SUFFICES ASSUME Living, [Next]_vars PROVE [Life!Next]_(Life!life)
  OBVIOUS
<1>1. ASSUME Quiet \/ UNCHANGED vars PROVE UNCHANGED Life!life
  BY <1>1, LifeStutters DEF Quiet, vars, Living
<1>2. ASSUME NEW w \in Runners, Complete(w) PROVE UNCHANGED Life!life
  BY <1>2, LifeStutters DEF Complete, stores, Living
<1>3. ASSUME NEW a \in Admins, Delete(a) PROVE [Life!Next]_(Life!life)
  <2>1. ASSUME NEW d \in Docs, CheckDelete(a, d) PROVE UNCHANGED Life!life
    BY <2>1, LifeStutters DEF CheckDelete, stores, Living
  <2>2. CASE FinishDelete(a)
    BY <2>2, LifeStutters DEF FinishDelete, stores, Living
  <2>3. CASE MarkDeleted(a)
    BY <1>3, <2>3, DeleteMarksOwn, MarkingIsWithdraw DEF MarkDeleted, Living
  <2>4. ASSUME NEW ds \in SUBSET Docs, BulkDelete(a, ds) PROVE Life!Next
    BY <1>3, <2>4, DeleteMarksOwn, MarkingIsWithdraw DEF BulkDelete, Living
  <2> QED
    BY <1>3, <2>1, <2>2, <2>3, <2>4, PurgeIsErase DEF Delete
<1> QED
  BY <1>1, <1>2, <1>3, IndexIsStore, RecordIsList, UploadIsQuiet, WorkIsQuiet, ElsewhereIsQuiet
     DEF Next, Work, Living

\* The rows and the chunks of a document live the life of DocumentLife, whatever fails:
\* upsert_chunks stores, create_document_record lists, the UPDATEs of the deletions
\* withdraw for an admin of the tenant, delete_document erases (no legacy ids).
THEOREM LifeIsFollowed == ASSUME ~Legacy PROVE Spec => FollowsLife
<1>1. Spec => []Living
  BY LivingAlways
<1> QED
  BY <1>1, LifeInit, LifeStep, PTL DEF Spec, FollowsLife, Life!Spec
-----------------------------------------------------------------------------
\* When SQL answers and no worker is stopped: an upload whose caller has not been told of a
\* failure is on its way to a runner's finally clause, or is through it, settled and without
\* its file. (Redis and Qdrant may fail.)
Excused == Early \cup {"refused", "error"}
Settled(j) == job[j].status \in {"completed", "failed"}
Tracked(j) == request[j] \in Excused \/ InQueue(j) \/ Held(j) \/ (Settled(j) /\ j \notin file)
CleanupSettled == \A w \in Runners : worker[w].pc = "cleanup" =>
                    job[worker[w].job].status \in {"completed", "failed"}
AllTracked == (\A j \in Jobs : Tracked(j)) /\ CleanupSettled

LEMMA CalmOutcomes == ASSUME NEW s, s \notin Faults PROVE Outcomes(s) = {"ok"}
  BY DEF Outcomes

\* A runner keeps its job until the job is settled and the file removed.
LEMMA RunnerKeepsTrack ==
  ASSUME TypeOK, Once, AllTracked, NEW w \in Runners, worker[w].pc # "idle",
         NEW wk \in WorkerState, worker' = [worker EXCEPT ![w] = wk],
         UNCHANGED <<queue, request>>,
         \A j \in Jobs : j # worker[w].job => job'[j] = job[j],
         \/ wk.job = worker[w].job /\ file' = file
         \/ /\ file' = file \ {worker[w].job} /\ wk.pc # "cleanup"
            /\ job'[worker[w].job].status \in {"completed", "failed"},
         wk.pc = "cleanup" => job'[worker[w].job].status \in {"completed", "failed"}
  PROVE  AllTracked'
<1> DEFINE j == worker[w].job
<1>1. j \in Jobs /\ j # None
  BY WorkersInType, NoneAssumption DEF WorkersOK, WorkerState, Consistent
<1>2. \A v \in Runners : worker'[v] = IF v = w THEN wk ELSE worker[v]
  BY DEF TypeOK
<1>3. ASSUME NEW i \in Jobs PROVE Tracked(i)'
  <2>1. CASE request[i] \in Excused \/ InQueue(i)
    BY <2>1 DEF Tracked, InQueue
  <2>2. CASE i = j
    BY <1>2, <2>2 DEF Tracked, Held, Settled
  <2>3. CASE i # j
    <3>1. ASSUME NEW v \in Runners, worker[v].job = i PROVE Held(i)'
      BY <1>2, <2>3, <3>1 DEF Held
    <3>2. Settled(i) /\ i \notin file => Settled(i)' /\ i \notin file'
      BY <2>3 DEF Settled
    <3> QED
      BY <2>1, <3>1, <3>2 DEF AllTracked, Tracked, Held
  <2> QED
    BY <2>2, <2>3
<1>4. CleanupSettled'
  <2> SUFFICES ASSUME NEW v \in Runners, worker'[v].pc = "cleanup"
               PROVE  job'[worker'[v].job].status \in {"completed", "failed"}
    BY DEF CleanupSettled
  <2>1. CASE v = w
    BY <1>2, <2>1
  <2>2. CASE v # w
    <3>1. worker'[v] = worker[v] /\ worker[v].job \in Jobs /\ worker[v].job # j
      BY <1>1, <1>2, <2>2, WorkersInType DEF WorkersOK, WorkerState, Consistent, Once, HeldOnce
    <3> QED
      BY <3>1 DEF AllTracked, CleanupSettled
  <2> QED
    BY <2>1, <2>2
<1> QED
  BY <1>3, <1>4 DEF AllTracked

\* The upload's steps: one is accepted only when it is queued, or was run.
LEMMA UploadKeepsTrack ==
  ASSUME Faults \subseteq {"qdrant", "redis"}, TypeOK, Once, AllTracked, NEW j \in Jobs, Upload(j)
  PROVE  AllTracked'
<1>1. \A w \in Runners : worker[w].pc = "cleanup" => worker[w].job \in Jobs
  BY WorkersInType DEF WorkersOK, WorkerState, Consistent
<1>2. CASE SaveFile(j) \/ CreateJob(j) \/ Refuse(j) \/ Accept(j)
  <2>1. /\ UNCHANGED <<queue, worker>> /\ file' \subseteq file \cup {j}
        /\ \A i \in Jobs : i # j => request'[i] = request[i] /\ job'[i] = job[i]
        /\ \/ request'[j] \in Excused
           \/ request[j] = "handed" /\ file' = file /\ job' = job
    BY <1>2 DEF SaveFile, CreateJob, Refuse, Accept, UpdateJob, TypeOK, Excused, Early
  <2>2. "handed" \notin Excused
    BY DEF Excused, Early
  <2>3. ASSUME NEW i \in Jobs PROVE Tracked(i)'
    <3>1. (InQueue(i)' <=> InQueue(i)) /\ (Held(i)' <=> Held(i))
      BY <2>1 DEF InQueue, Held
    <3> QED
      BY <2>1, <2>2, <3>1 DEF AllTracked, Tracked, Settled
  <2>4. CASE CreateJob(j)
    <3>1. \A w \in Runners : worker[w].job # j
      BY <2>4 DEF CreateJob, Once, EarlyUntouched, Early, Held
    <3>2. CleanupSettled'
      BY <1>1, <2>1, <3>1 DEF AllTracked, CleanupSettled
    <3> QED
      BY <2>3, <3>2 DEF AllTracked
  <2>5. CASE Refuse(j)
    <3>1. job'[j].status = "failed"
      BY <2>5, CalmOutcomes DEF Refuse, UpdateJob, TypeOK
    <3>2. CleanupSettled'
      BY <1>1, <2>1, <3>1 DEF AllTracked, CleanupSettled
    <3> QED
      BY <2>3, <3>2 DEF AllTracked
  <2>6. CASE SaveFile(j) \/ Accept(j)
    BY <2>1, <2>3, <2>6 DEF SaveFile, Accept, AllTracked, CleanupSettled
  <2> QED
    BY <1>2, <2>4, <2>5, <2>6
<1>3. CASE Enqueue(j)
  <2>1. PICK o \in Outcomes("redis") :
          /\ queue' = IF o = "lost" THEN queue ELSE Append(queue, j)
          /\ request' = [request EXCEPT ![j] = IF Raised(o) THEN "refused" ELSE "handed"]
          /\ UNCHANGED <<job, file, worker>>
    BY <1>3 DEF Enqueue
  <2>2. \A i : InQueue(i) => InQueue(i)'
    <3>1. /\ DOMAIN queue = 1 .. Len(queue) /\ DOMAIN Append(queue, j) = 1 .. (Len(queue) + 1)
          /\ Len(queue) \in Nat
          /\ \A i \in 1 .. Len(queue) : Append(queue, j)[i] = queue[i]
      BY DEF TypeOK
    <3> QED
      BY <2>1, <3>1 DEF InQueue
  <2>3. request'[j] \in Excused \/ InQueue(j)'
    <3>1. CASE o = "ok"
      <4>1. queue' = Append(queue, j) /\ queue \in Seq(Jobs)
        BY <2>1, <3>1 DEF TypeOK
      <4>2. Len(queue) + 1 \in DOMAIN queue' /\ queue'[Len(queue) + 1] = j
        BY <4>1
      <4> QED
        BY <4>2 DEF InQueue
    <3>2. CASE o # "ok"
      BY <2>1, <3>2 DEF Raised, Excused, TypeOK
    <3> QED
      BY <3>1, <3>2
  <2>4. ASSUME NEW i \in Jobs PROVE Tracked(i)'
    <3>1. i # j => request'[i] = request[i]
      BY <2>1 DEF TypeOK
    <3>2. (Held(i) => Held(i)') /\ (Settled(i) /\ i \notin file => Settled(i)' /\ i \notin file')
      BY <2>1 DEF Held, Settled
    <3> QED
      BY <2>2, <2>3, <3>1, <3>2 DEF AllTracked, Tracked
  <2>5. CleanupSettled'
    BY <2>1 DEF AllTracked, CleanupSettled
  <2> QED
    BY <2>4, <2>5 DEF AllTracked
<1>4. CASE RunHere(j)
  <2>1. /\ request' = [request EXCEPT ![j] = "handed"] /\ j \in Runners
        /\ worker' = [worker EXCEPT ![j] = [pc |-> "picked", job |-> j, doc |-> None]]
        /\ UNCHANGED <<job, file, queue>>
    BY <1>4 DEF RunHere, Runners
  <2>2. /\ \A i \in Jobs : i # j => request'[i] = request[i]
        /\ \A v \in Runners : worker'[v] = IF v = j THEN [pc |-> "picked", job |-> j, doc |-> None]
                                                    ELSE worker[v]
    BY <2>1 DEF TypeOK
  <2>3. worker[j].job \in {j, None}
    BY <1>4, <2>1, WorkersInType DEF WorkersOK, Consistent, RunHere
  <2>4. ASSUME NEW i \in Jobs PROVE Tracked(i)'
    <3>1. CASE i = j
      BY <2>1, <2>2, <3>1 DEF Tracked, Held
    <3>2. CASE i # j
      <4>1. ASSUME NEW v \in Runners, worker[v].job = i PROVE Held(i)'
        <5>1. i # None /\ v # j
          BY <2>3, <3>2, <4>1, NoneAssumption
        <5> QED
          BY <2>2, <4>1, <5>1 DEF Held
      <4>2. /\ InQueue(i) => InQueue(i)'
            /\ Settled(i) /\ i \notin file => Settled(i)' /\ i \notin file'
        BY <2>1 DEF InQueue, Settled
      <4> QED
        BY <2>2, <3>2, <4>1, <4>2 DEF AllTracked, Tracked, Held
    <3> QED
      BY <3>1, <3>2
  <2>5. CleanupSettled'
    BY <2>1, <2>2 DEF AllTracked, CleanupSettled
  <2> QED
    BY <2>4, <2>5 DEF AllTracked
<1> QED
  BY <1>2, <1>3, <1>4 DEF Upload

LEMMA PickKeepsTrack ==
  ASSUME TypeOK, AllTracked, NEW w \in Runners, Pick(w)
  PROVE  AllTracked'
<1> DEFINE j == Head(queue)
<1>1. /\ worker[w].pc = "idle" /\ queue # <<>> /\ queue' = Tail(queue)
      /\ worker' = [worker EXCEPT ![w] = [pc |-> "picked", job |-> j, doc |-> None]]
      /\ UNCHANGED <<job, file, request>>
  BY DEF Pick
<1>2. /\ DOMAIN queue = 1 .. Len(queue) /\ Len(queue) \in Nat /\ j = queue[1]
      /\ DOMAIN queue' = 1 .. (Len(queue) - 1)
      /\ \A i \in 1 .. (Len(queue) - 1) : queue'[i] = queue[i + 1]
  BY <1>1 DEF TypeOK
<1>3. \A v \in Runners : worker'[v] = IF v = w THEN [pc |-> "picked", job |-> j, doc |-> None] ELSE worker[v]
  BY <1>1 DEF TypeOK
<1>4. worker[w].job = None
  BY <1>1, WorkersInType DEF WorkersOK, Consistent
<1> HIDE DEF j
<1>5. ASSUME NEW i \in Jobs PROVE Tracked(i)'
  <2>1. Held(i) => Held(i)'
    BY <1>3, <1>4, NoneAssumption DEF Held
  <2>2. ASSUME NEW k \in 1 .. Len(queue), queue[k] = i, k # 1 PROVE InQueue(i)'
    <3>1. k - 1 \in 1 .. (Len(queue) - 1) /\ (k - 1) + 1 = k
      BY <1>2, <2>2
    <3>2. queue'[k - 1] = i
      BY <1>2, <2>2, <3>1
    <3> QED
      BY <1>2, <3>1, <3>2 DEF InQueue
  <2>3. i = j => Held(i)'
    BY <1>3 DEF Held
  <2>4. InQueue(i) => InQueue(i)' \/ i = j
    BY <1>2, <2>2 DEF InQueue
  <2>5. Settled(i) /\ i \notin file => Settled(i)' /\ i \notin file'
    BY <1>1 DEF Settled
  <2> QED
    BY <1>1, <2>1, <2>3, <2>4, <2>5 DEF AllTracked, Tracked
<1>6. CleanupSettled'
  BY <1>1, <1>3 DEF AllTracked, CleanupSettled
<1> QED
  BY <1>5, <1>6 DEF AllTracked

\* Without a database error or a time limit, every way out of a job settles it and leads
\* to its finally.
LEMMA WorkKeepsTrack ==
  ASSUME Faults \subseteq {"qdrant", "redis"}, TypeOK, Once, AllTracked, NEW w \in Runners, Work(w)
  PROVE  AllTracked'
<1> DEFINE j == worker[w].job
           At(p) == [worker[w] EXCEPT !.pc = p]
<1>1. worker[w] \in WorkerState /\ Idle \in WorkerState
  BY WorkersInType DEF WorkersOK, WorkerState, WorkerPlaces, Idle
<1>2. \A p \in WorkerPlaces : At(p) \in WorkerState /\ At(p).job = j /\ At(p).pc = p
  BY <1>1 DEF WorkerState
<1>3. Outcomes("db") = {"ok"}
  BY CalmOutcomes
<1>4. worker[w].pc # "idle" => j \in Jobs
  BY WorkersInType DEF WorkersOK, WorkerState, Consistent
<1>5. ASSUME j \in Jobs, NEW st \in JobStatus, NEW d, job' = [job EXCEPT ![j] = [status |-> st, doc |-> d]]
      PROVE  job'[j].status = st /\ \A i \in Jobs : i # j => job'[i] = job[i]
  BY <1>5 DEF TypeOK
<1>6. CASE Pick(w)
  BY <1>6, PickKeepsTrack
<1>7. CASE Cleanup(w)
  <2>1. /\ worker[w].pc = "cleanup" /\ file' = file \ {j} /\ worker' = [worker EXCEPT ![w] = Idle]
        /\ UNCHANGED <<job, queue, request>>
    BY <1>7 DEF Cleanup
  <2>2. job[j].status \in {"completed", "failed"}
    BY <2>1 DEF AllTracked, CleanupSettled
  <2>3. Idle.pc # "cleanup"
    BY DEF Idle
  <2> QED
    BY <1>1, <2>1, <2>2, <2>3, RunnerKeepsTrack
<1>8. CASE StartJob(w)
  <2>1. /\ worker[w].pc = "picked" /\ worker' = [worker EXCEPT ![w] = At("working")]
        /\ job' = [job EXCEPT ![j] = [status |-> "processing", doc |-> None]]
        /\ UNCHANGED <<queue, request, file>>
    BY <1>3, <1>8 DEF StartJob, UpdateJob, Raised, Reraise
  <2> HIDE DEF At, j
  <2>2. j \in Jobs
    BY <1>4, <2>1
  <2>3. \A i \in Jobs : i # j => job'[i] = job[i]
    BY <1>5, <2>1, <2>2 DEF JobStatus
  <2>4. At("working") \in WorkerState /\ At("working").pc = "working" /\ At("working").job = j
    BY <1>2 DEF WorkerPlaces
  <2> QED
    BY <2>1, <2>3, <2>4, RunnerKeepsTrack DEF j
<1>9. CASE NoText(w) \/ Complete(w) \/ MarkFailed(w)
  <2>1. /\ worker[w].pc # "idle" /\ worker' = [worker EXCEPT ![w] = At("cleanup")]
        /\ \E st \in {"failed", "completed"} : \E d : job' = [job EXCEPT ![j] = [status |-> st, doc |-> d]]
        /\ UNCHANGED <<queue, request, file>>
    <3>1. CASE NoText(w)
      BY <1>3, <3>1 DEF NoText, UpdateJob, Raised
    <3>2. CASE Complete(w)
      BY <1>3, <3>2 DEF Complete, UpdateJob, Raised
    <3>3. CASE MarkFailed(w)
      BY <1>3, <3>3 DEF MarkFailed, UpdateJob, Raised, Reraise
    <3> QED
      BY <1>9, <3>1, <3>2, <3>3
  <2> HIDE DEF At, j
  <2>2. j \in Jobs
    BY <1>4, <2>1
  <2>3. job'[j].status \in {"failed", "completed"} /\ \A i \in Jobs : i # j => job'[i] = job[i]
    BY <1>5, <2>1, <2>2 DEF JobStatus
  <2>4. At("cleanup") \in WorkerState /\ At("cleanup").pc = "cleanup" /\ At("cleanup").job = j
    BY <1>2 DEF WorkerPlaces
  <2> QED
    BY <2>1, <2>3, <2>4, RunnerKeepsTrack DEF j
<1>10. CASE Unreadable(w) \/ MissCollection(w) \/ CreateCollection(w) \/ Index(w) \/ RecordDocument(w)
  <2>1. /\ worker[w].pc # "idle"
        /\ \E wk \in WorkerState : wk.pc # "cleanup" /\ wk.job = j /\ worker' = [worker EXCEPT ![w] = wk]
        /\ UNCHANGED uploads
    <3>1. CASE Unreadable(w)
      BY <1>2, <3>1 DEF Unreadable, WorkerPlaces
    <3>2. CASE MissCollection(w)
      BY <1>2, <3>2 DEF MissCollection, WorkerPlaces
    <3>3. CASE CreateCollection(w)
      BY <1>2, <3>3 DEF CreateCollection, WorkerPlaces
    <3>4. CASE Index(w)
      <4>1. PICK d \in Docs : \/ worker' = [worker EXCEPT ![w] = At("failing")]
                              \/ worker' = [worker EXCEPT ![w] = [@ EXCEPT !.pc = "indexed", !.doc = d]]
        BY <3>4 DEF Index
      <4>2. LET wk == [worker[w] EXCEPT !.pc = "indexed", !.doc = d] IN
              wk \in WorkerState /\ wk.pc = "indexed" /\ wk.job = j
        BY <1>1 DEF WorkerState, WorkerPlaces
      <4> QED
        BY <1>2, <3>4, <4>1, <4>2 DEF Index, Ready, WorkerPlaces
    <3>5. CASE RecordDocument(w)
      BY <1>2, <3>5 DEF RecordDocument, WorkerPlaces
    <3> QED
      BY <1>10, <3>1, <3>2, <3>3, <3>4, <3>5
  <2> QED
    BY <2>1, RunnerKeepsTrack DEF uploads
<1> QED
  BY <1>6, <1>7, <1>8, <1>9, <1>10 DEF Work

LEMMA TrackedAlways ==
  ASSUME Faults \subseteq {"qdrant", "redis"} PROVE Spec => [](TypeOK /\ AllTracked)
<1>1. Init => AllTracked
  BY DEF Init, AllTracked, Tracked, CleanupSettled, Excused, Early, Idle
<1>2. ASSUME TypeOK, Once, AllTracked, [Next]_vars PROVE AllTracked'
  <2>1. ASSUME UNCHANGED <<uploads, worker>> PROVE AllTracked'
    BY <1>2, <2>1 DEF AllTracked, CleanupSettled, Tracked, InQueue, Held, Settled, uploads
  <2>2. ASSUME NEW a \in Admins, Delete(a) PROVE UNCHANGED <<uploads, worker>>
    BY <2>2 DEF Delete, CheckDelete, MarkDeleted, BulkDelete, PurgeChunks, FinishDelete
  <2>3. CreateElsewhere \/ UNCHANGED vars => UNCHANGED <<uploads, worker>>
    BY DEF CreateElsewhere, vars, uploads
  <2>4. ASSUME NEW w \in Runners PROVE ~Crash(w) /\ ~Timeout(w)
    BY DEF Crash, Timeout
  <2> QED
    BY <1>2, <2>1, <2>2, <2>3, <2>4, UploadKeepsTrack, WorkKeepsTrack DEF Next
<1>3. Init => TypeOK /\ Once
  BY TypeInit, OnceInit
<1>4. TypeOK /\ Once /\ [Next]_vars => (TypeOK /\ Once)'
  BY TypeNext, OnceStep
<1> QED
  BY <1>1, <1>2, <1>3, <1>4, PTL DEF Spec

\* Where SQL answers and no worker is killed or stopped, an accepted upload leaves no
\* temporary file when its job is done (process_ingest_job's finally), for any number of
\* them and whatever Qdrant and Redis do. TLC breaks it with any other fault.
THEOREM FilesAreReclaimed ==
  ASSUME Faults \subseteq {"qdrant", "redis"} PROVE Spec => []FilesReclaimed
<1>1. TypeOK /\ AllTracked => FilesReclaimed
  BY DEF TypeOK, AllTracked, Tracked, FilesReclaimed, Excused, Early, InQueue, Held
<1> QED
  BY <1>1, TrackedAlways, PTL

\* ... nor is it ever lost: until its status is completed or failed it is on the list or
\* with a runner (submit_ingest, rq, process_ingest_job). With RunsWindDown below, all of
\* JobSettles that does not need fairness.
AcceptedIsKept ==
  \A j \in Jobs : request[j] = "accepted" => InQueue(j) \/ Held(j) \/ Settled(j)

THEOREM AcceptedAreKept ==
  ASSUME Faults \subseteq {"qdrant", "redis"} PROVE Spec => []AcceptedIsKept
<1>1. AllTracked => AcceptedIsKept
  BY DEF AllTracked, Tracked, AcceptedIsKept, Excused, Early
<1> QED
  BY <1>1, TrackedAlways, PTL
-----------------------------------------------------------------------------
\* How many steps the run of a job takes at most from each of its places.
Left == [idle |-> 0, cleanup |-> 1, failing |-> 2, recorded |-> 3, indexed |-> 4, ready |-> 5,
         creating |-> 6, working |-> 7, picked |-> 8]

\* A runner only ever goes forward through process_ingest_job, whatever fails, dies or
\* times out: nothing in it is repeated, and a job once taken is dropped within eight steps.
\* A runner that is idle takes up a job; no runner ever swaps the job it holds.
RunnersGoOn ==
  [][\A w \in Runners : worker'[w] # worker[w] =>
       \/ worker[w].pc = "idle" /\ worker'[w].pc = "picked"
       \/ /\ Left[worker'[w].pc] < Left[worker[w].pc]
          /\ worker'[w].job \in {worker[w].job, None}]_vars

THEOREM RunsWindDown == Spec => RunnersGoOn
<1>1. ASSUME TypeOK, Once, NEW v \in Runners, NEW w \in Runners, Work(v) \/ Crash(v) \/ Timeout(v),
             worker'[w] # worker[w]
      PROVE  \/ worker[w].pc = "idle" /\ worker'[w].pc = "picked"
             \/ /\ Left[worker'[w].pc] < Left[worker[w].pc]
                /\ worker'[w].job \in {worker[w].job, None}
  <2>1. worker \in [Runners -> WorkerState]
    BY <1>1, WorkersInType DEF WorkersOK
  <2>2. v = w
    BY <1>1, <2>1 DEF Work, Pick, StartJob, NoText, Unreadable, MissCollection, CreateCollection,
                      Index, RecordDocument, Complete, MarkFailed, Cleanup, Crash, Timeout
  <2>3. worker[w] \in WorkerState
    BY <2>1
  <2>4. CASE Pick(w)
    BY <2>1, <2>4 DEF Pick
  <2>5. CASE StartJob(w) \/ NoText(w) \/ Unreadable(w) \/ MissCollection(w) \/ CreateCollection(w)
    BY <2>1, <2>5 DEF StartJob, NoText, Unreadable, MissCollection, CreateCollection, Left,
                      Idle, WorkerState
  <2>6. CASE Index(w)
    BY <2>1, <2>6 DEF Index, Ready, Left, WorkerState
  <2>7. CASE RecordDocument(w) \/ Complete(w) \/ MarkFailed(w) \/ Cleanup(w)
    BY <2>1, <2>7 DEF RecordDocument, Complete, MarkFailed, Cleanup, Left, Idle, WorkerState
  <2>8. CASE Crash(w)
    BY <2>1, <2>8 DEF Crash, Left, Idle, WorkerState, WorkerPlaces
  <2>9. CASE Timeout(w)
    BY <2>1, <2>9 DEF Timeout, Left, Idle, WorkerState, WorkerPlaces
  <2> QED
    BY <1>1, <2>2, <2>4, <2>5, <2>6, <2>7, <2>8, <2>9 DEF Work
<1>2. ASSUME TypeOK, Once, NEW j \in Jobs, NEW w \in Runners, Upload(j), worker'[w] # worker[w]
      PROVE  worker[w].pc = "idle" /\ worker'[w].pc = "picked"
  <2>1. RunHere(j)
    BY <1>2 DEF Upload, SaveFile, CreateJob, Enqueue, Refuse, Accept
  <2>2. /\ request[j] = "created" /\ j \in Runners
        /\ worker' = [worker EXCEPT ![j] = [pc |-> "picked", job |-> j, doc |-> None]]
    BY <2>1 DEF RunHere, Runners
  <2>3. w = j /\ worker'[w].pc = "picked"
    BY <1>2, <2>2 DEF TypeOK
  <2>4. worker[j].pc = "idle"
    BY <1>2, <2>1, <2>2, WorkersInType DEF RunHere, WorkersOK, Consistent, Once, EarlyUntouched, Early, Held
  <2> QED
    BY <2>3, <2>4
<1>3. ASSUME NEW a \in Admins, Delete(a) PROVE worker' = worker
  BY <1>3 DEF Delete, CheckDelete, MarkDeleted, BulkDelete, PurgeChunks, FinishDelete
<1>4. CreateElsewhere \/ UNCHANGED vars => worker' = worker
  BY DEF CreateElsewhere, vars
<1>5. TypeOK /\ Once /\ [Next]_vars =>
        [\A w \in Runners : worker'[w] # worker[w] =>
           \/ worker[w].pc = "idle" /\ worker'[w].pc = "picked"
           \/ /\ Left[worker'[w].pc] < Left[worker[w].pc]
              /\ worker'[w].job \in {worker[w].job, None}]_vars
  BY <1>1, <1>2, <1>3, <1>4 DEF Next
<1>6. Spec => [](TypeOK /\ Once)
  <2>1. Init => TypeOK /\ Once
    BY TypeInit, OnceInit
  <2>2. TypeOK /\ Once /\ [Next]_vars => (TypeOK /\ Once)'
    BY TypeNext, OnceStep
  <2> QED
    BY <2>1, <2>2, PTL DEF Spec
<1> QED
  BY <1>5, <1>6, PTL DEF Spec, RunnersGoOn
-----------------------------------------------------------------------------
\* When SQL and Redis answer and no time limit expires, the job row says where its job is.
\* (Qdrant may fail and workers may be killed.)
Running == {"working", "creating", "ready", "indexed", "recorded", "failing"}
NotRefused == \A j \in Jobs : request[j] # "refused"
EarlyStatus == \A j \in Jobs : /\ request[j] \in {"new", "saved"} => job[j].status = "absent"
                               /\ request[j] = "created" => job[j].status = "queued"
QueuedStatus == \A i \in DOMAIN queue : job[queue[i]].status = "queued"
RunStatus == \A w \in Runners : /\ worker[w].pc = "picked" => job[worker[w].job].status = "queued"
                                /\ worker[w].pc \in Running => job[worker[w].job].status = "processing"
Steady == NotRefused /\ EarlyStatus /\ QueuedStatus /\ RunStatus

\* What a poll sees of each job in a step.
Forward == \A j \in Jobs : job'[j] = job[j] \/ Phase[job[j].status] < Phase[job'[j].status]

LEMMA PhaseOrder ==
  /\ Phase["absent"] < Phase["queued"] /\ Phase["queued"] < Phase["processing"]
  /\ Phase["processing"] < Phase["completed"] /\ Phase["processing"] < Phase["failed"]
  BY DEF Phase

LEMMA SteadyInit == Init => Steady
  BY DEF Init, Steady, NotRefused, EarlyStatus, QueuedStatus, RunStatus, Running, Idle

\* A runner at work writes the row of the job it holds, which nobody else has.
LEMMA RunnerStaysSteady ==
  ASSUME TypeOK, Once, Steady, NEW w \in Runners, worker[w].pc # "idle",
         NEW wk \in WorkerState, worker' = [worker EXCEPT ![w] = wk],
         UNCHANGED queue,
         \A j \in Jobs : request'[j] = request[j] \/ request'[j] = "error",
         \A j \in Jobs : j # worker[w].job => job'[j] = job[j],
         wk.pc # "picked",
         wk.pc \in Running => job'[wk.job].status = "processing"
  PROVE  Steady'
<1> DEFINE j == worker[w].job
<1>1. j \in Jobs /\ j # None
  BY WorkersInType, NoneAssumption DEF WorkersOK, WorkerState, Consistent
<1>2. \A v \in Runners : worker'[v] = IF v = w THEN wk ELSE worker[v]
  BY DEF TypeOK
<1>3. Held(j)
  BY DEF Held
<1> HIDE DEF j
<1>4. NotRefused'
  BY DEF Steady, NotRefused
<1>5. EarlyStatus'
  BY <1>3 DEF Steady, EarlyStatus, Once, EarlyUntouched, Early, j
<1>6. QueuedStatus'
  <2>1. \A i \in DOMAIN queue : queue[i] \in Jobs /\ queue[i] # j
    BY <1>3 DEF Once, QueuedUntouched, TypeOK
  <2> QED
    BY <2>1 DEF Steady, QueuedStatus, j
<1>7. RunStatus'
  <2> SUFFICES ASSUME NEW v \in Runners
               PROVE  /\ worker'[v].pc = "picked" => job'[worker'[v].job].status = "queued"
                      /\ worker'[v].pc \in Running => job'[worker'[v].job].status = "processing"
    BY DEF RunStatus
  <2>1. CASE v = w
    BY <1>2, <2>1
  <2>2. CASE v # w /\ worker[v].pc \in Running \cup {"picked"}
    <3>1. worker'[v] = worker[v] /\ worker[v].job \in Jobs
      BY <1>2, <2>2, WorkersInType DEF WorkersOK, WorkerState, Consistent, Running
    <3>2. worker[v].job # j
      BY <1>1, <2>2 DEF Once, HeldOnce, j
    <3> QED
      BY <3>1, <3>2 DEF Steady, RunStatus, j
  <2> QED
    BY <1>2, <2>1, <2>2
<1> QED
  BY <1>4, <1>5, <1>6, <1>7 DEF Steady

\* The steps that touch neither jobs nor who has them.
LEMMA IdleStaysSteady ==
  ASSUME Steady, UNCHANGED <<job, queue, request, worker>>
  PROVE  Steady' /\ Forward
  BY DEF Steady, NotRefused, EarlyStatus, QueuedStatus, RunStatus, Forward

\* An upload runs through its handler: the row comes before the enqueue.
LEMMA UploadStaysSteady ==
  ASSUME Faults \subseteq {"qdrant", "crash"}, TypeOK, Once, Steady, NEW j \in Jobs, Upload(j)
  PROVE  Steady' /\ Forward
<1>0. Outcomes("db") = {"ok"} /\ Outcomes("redis") = {"ok"}
  BY CalmOutcomes
<1>1. \A i \in DOMAIN queue : queue[i] \in Jobs
  BY DEF TypeOK
<1>2. \A w \in Runners : worker[w].pc # "idle" => worker[w].job \in Jobs
  BY WorkersInType DEF WorkersOK, WorkerState, Consistent
<1>3. CASE SaveFile(j) \/ Accept(j)
  <2>1. /\ UNCHANGED <<job, queue, worker>>
        /\ \/ request[j] = "new" /\ request' = [request EXCEPT ![j] = "saved"]
           \/ request[j] = "handed" /\ request' = [request EXCEPT ![j] = "accepted"]
    BY <1>0, <1>3 DEF SaveFile, Accept, Raised
  <2>2. /\ \A i \in Jobs : i # j => request'[i] = request[i]
        /\ \/ request[j] = "new" /\ request'[j] = "saved"
           \/ request[j] = "handed" /\ request'[j] = "accepted"
    BY <2>1 DEF TypeOK
  <2> QED
    BY <2>1, <2>2 DEF Steady, NotRefused, EarlyStatus, QueuedStatus, RunStatus, Forward
<1>4. CASE CreateJob(j)
  <2>1. /\ request[j] = "saved" /\ request' = [request EXCEPT ![j] = "created"]
        /\ job' = [job EXCEPT ![j] = [status |-> "queued", doc |-> None]]
        /\ UNCHANGED <<queue, worker>>
    BY <1>0, <1>4 DEF CreateJob, UpdateJob, Raised
  <2>2. /\ \A i \in Jobs : i # j => request'[i] = request[i] /\ job'[i] = job[i]
        /\ request'[j] = "created" /\ job'[j].status = "queued" /\ job[j].status = "absent"
    BY <2>1 DEF TypeOK, Steady, EarlyStatus
  <2>3. ~InQueue(j) /\ ~Held(j)
    BY <2>1 DEF Once, EarlyUntouched, Early
  <2>4. NotRefused' /\ EarlyStatus' /\ Forward
    BY <2>2, PhaseOrder DEF Steady, NotRefused, EarlyStatus, Forward
  <2>5. QueuedStatus'
    BY <1>1, <2>1, <2>2, <2>3 DEF Steady, QueuedStatus, InQueue
  <2>6. RunStatus'
    BY <1>2, <2>1, <2>2, <2>3 DEF Steady, RunStatus, Running, Held
  <2> QED
    BY <2>4, <2>5, <2>6 DEF Steady
<1>5. CASE Enqueue(j)
  <2>1. /\ request[j] = "created" /\ request' = [request EXCEPT ![j] = "handed"]
        /\ queue' = Append(queue, j) /\ UNCHANGED <<job, worker>>
    BY <1>0, <1>5 DEF Enqueue, Raised
  <2>2. /\ \A i \in Jobs : i # j => request'[i] = request[i]
        /\ request'[j] = "handed" /\ job[j].status = "queued"
    BY <2>1 DEF TypeOK, Steady, EarlyStatus
  <2>3. /\ DOMAIN queue = 1 .. Len(queue) /\ DOMAIN queue' = 1 .. (Len(queue) + 1)
        /\ Len(queue) \in Nat /\ queue'[Len(queue) + 1] = j
        /\ \A i \in 1 .. Len(queue) : queue'[i] = queue[i]
    BY <2>1 DEF TypeOK
  <2>4. NotRefused' /\ EarlyStatus' /\ RunStatus' /\ Forward
    BY <2>1, <2>2 DEF Steady, NotRefused, EarlyStatus, RunStatus, Forward
  <2>5. QueuedStatus'
    BY <2>1, <2>2, <2>3 DEF Steady, QueuedStatus
  <2> QED
    BY <2>4, <2>5 DEF Steady
<1>6. CASE RunHere(j)
  <2>1. /\ request[j] = "created" /\ request' = [request EXCEPT ![j] = "handed"] /\ j \in Runners
        /\ worker' = [worker EXCEPT ![j] = [pc |-> "picked", job |-> j, doc |-> None]]
        /\ UNCHANGED <<job, queue>>
    BY <1>6 DEF RunHere, Runners
  <2>2. /\ \A i \in Jobs : i # j => request'[i] = request[i]
        /\ request'[j] = "handed" /\ job[j].status = "queued"
        /\ \A v \in Runners : worker'[v] = IF v = j THEN [pc |-> "picked", job |-> j, doc |-> None]
                                                    ELSE worker[v]
    BY <2>1 DEF TypeOK, Steady, EarlyStatus
  <2>3. NotRefused' /\ EarlyStatus' /\ QueuedStatus' /\ Forward
    BY <2>1, <2>2 DEF Steady, NotRefused, EarlyStatus, QueuedStatus, Forward
  <2>4. RunStatus'
    BY <2>1, <2>2 DEF Steady, RunStatus, Running
  <2> QED
    BY <2>3, <2>4 DEF Steady
<1>7. ~Refuse(j)
  BY DEF Refuse, Steady, NotRefused
<1> QED
  BY <1>3, <1>4, <1>5, <1>6, <1>7 DEF Upload

LEMMA PickStaysSteady ==
  ASSUME TypeOK, Once, Steady, NEW w \in Runners, Pick(w)
  PROVE  Steady' /\ Forward
<1> DEFINE j == Head(queue)
<1>1. /\ worker[w].pc = "idle" /\ queue # <<>> /\ queue' = Tail(queue)
      /\ worker' = [worker EXCEPT ![w] = [pc |-> "picked", job |-> j, doc |-> None]]
      /\ UNCHANGED <<job, request>>
  BY DEF Pick
<1>2. /\ DOMAIN queue = 1 .. Len(queue) /\ Len(queue) \in Nat /\ Len(queue) > 0
      /\ j = queue[1] /\ j \in Jobs
      /\ DOMAIN queue' = 1 .. (Len(queue) - 1)
      /\ \A i \in 1 .. (Len(queue) - 1) : queue'[i] = queue[i + 1]
  BY <1>1 DEF TypeOK
<1>3. \A v \in Runners : worker'[v] = IF v = w THEN [pc |-> "picked", job |-> j, doc |-> None] ELSE worker[v]
  BY <1>1 DEF TypeOK
<1>4. job[j].status = "queued"
  BY <1>2 DEF Steady, QueuedStatus
<1> HIDE DEF j
<1>5. QueuedStatus'
  <2> SUFFICES ASSUME NEW i \in 1 .. (Len(queue) - 1) PROVE job[queue'[i]].status = "queued"
    BY <1>1, <1>2 DEF QueuedStatus
  <2>1. i + 1 \in DOMAIN queue /\ queue'[i] = queue[i + 1]
    BY <1>2
  <2> QED
    BY <2>1 DEF Steady, QueuedStatus
<1>6. NotRefused' /\ EarlyStatus' /\ Forward
  BY <1>1 DEF Steady, NotRefused, EarlyStatus, Forward
<1>7. RunStatus'
  BY <1>1, <1>3, <1>4 DEF Steady, RunStatus, Running
<1> QED
  BY <1>5, <1>6, <1>7 DEF Steady

\* A runner's own steps: the row is processing from the start to the end of the job.
LEMMA WorkStaysSteady ==
  ASSUME Faults \subseteq {"qdrant", "crash"}, TypeOK, Once, Steady, NEW w \in Runners, Work(w)
  PROVE  Steady' /\ Forward
<1>0. Outcomes("db") = {"ok"}
  BY CalmOutcomes
<1> DEFINE j == worker[w].job
           At(p) == [worker[w] EXCEPT !.pc = p]
<1>1. worker[w] \in WorkerState /\ worker \in [Runners -> WorkerState] /\ Idle \in WorkerState
  BY WorkersInType DEF WorkersOK, WorkerState, WorkerPlaces, Idle
<1>2. worker[w].pc # "idle" => j \in Jobs
  BY WorkersInType DEF WorkersOK, WorkerState, Consistent
<1>3. \A p \in WorkerPlaces : At(p) \in WorkerState /\ At(p).pc = p /\ At(p).job = j
  BY <1>1 DEF WorkerState
<1>4. /\ worker[w].pc = "picked" => job[j].status = "queued"
      /\ worker[w].pc \in Running => job[j].status = "processing"
  BY DEF Steady, RunStatus
<1>5. ASSUME NEW st \in {"processing", "failed", "completed"}, NEW d, j \in Jobs,
             job' = [job EXCEPT ![j] = [status |-> st, doc |-> d]]
      PROVE  /\ \A i \in Jobs : i # j => job'[i] = job[i]
             /\ job'[j].status = st
  BY <1>5 DEF TypeOK
<1>6. CASE Pick(w)
  BY <1>6, PickStaysSteady
<1>7. CASE StartJob(w)
  <2>1. /\ worker[w].pc = "picked" /\ worker' = [worker EXCEPT ![w] = At("working")]
        /\ job' = [job EXCEPT ![j] = [status |-> "processing", doc |-> None]]
        /\ UNCHANGED <<queue, request>>
    BY <1>0, <1>7 DEF StartJob, UpdateJob, Raised, Reraise
  <2> HIDE DEF At, j
  <2>2. j \in Jobs
    BY <1>2, <2>1
  <2>3. job'[j].status = "processing" /\ \A i \in Jobs : i # j => job'[i] = job[i]
    BY <1>5, <2>1, <2>2
  <2>4. At("working") \in WorkerState /\ At("working").pc = "working" /\ At("working").job = j
    BY <1>3 DEF WorkerPlaces
  <2>5. Steady'
    BY <2>1, <2>3, <2>4, RunnerStaysSteady DEF j
  <2>6. Forward
    BY <1>4, <2>1, <2>3, PhaseOrder DEF Forward
  <2> QED
    BY <2>5, <2>6
<1>8. CASE NoText(w) \/ Complete(w) \/ MarkFailed(w)
  <2>1. /\ worker[w].pc \in Running /\ worker' = [worker EXCEPT ![w] = At("cleanup")]
        /\ \E st \in {"failed", "completed"} : \E d : job' = [job EXCEPT ![j] = [status |-> st, doc |-> d]]
        /\ UNCHANGED <<queue, request>>
    <3>1. CASE NoText(w)
      BY <1>0, <3>1 DEF NoText, UpdateJob, Raised, Running
    <3>2. CASE Complete(w)
      BY <1>0, <3>2 DEF Complete, UpdateJob, Raised, Running
    <3>3. CASE MarkFailed(w)
      BY <1>0, <3>3 DEF MarkFailed, UpdateJob, Raised, Reraise, Running
    <3> QED
      BY <1>8, <3>1, <3>2, <3>3
  <2> HIDE DEF At, j
  <2>2. j \in Jobs /\ worker[w].pc # "idle"
    BY <1>2, <2>1 DEF Running
  <2>3. job'[j].status \in {"failed", "completed"} /\ \A i \in Jobs : i # j => job'[i] = job[i]
    BY <1>5, <2>1, <2>2
  <2>4. At("cleanup") \in WorkerState /\ At("cleanup").pc = "cleanup" /\ At("cleanup").job = j
    BY <1>3 DEF WorkerPlaces
  <2>5. Steady'
    BY <2>1, <2>2, <2>3, <2>4, RunnerStaysSteady DEF j, Running
  <2>6. Forward
    BY <1>4, <2>1, <2>3, PhaseOrder DEF Forward
  <2> QED
    BY <2>5, <2>6
<1>9. CASE Unreadable(w) \/ MissCollection(w) \/ CreateCollection(w) \/ Index(w) \/ RecordDocument(w)
  <2>1. /\ worker[w].pc \in Running
        /\ \E wk \in WorkerState : wk.pc \in Running /\ wk.job = j /\ worker' = [worker EXCEPT ![w] = wk]
        /\ UNCHANGED uploads
    <3>1. CASE Unreadable(w)
      BY <1>3, <3>1 DEF Unreadable, Running, WorkerPlaces
    <3>2. CASE MissCollection(w)
      BY <1>3, <3>2 DEF MissCollection, Running, WorkerPlaces
    <3>3. CASE CreateCollection(w)
      BY <1>3, <3>3 DEF CreateCollection, Running, WorkerPlaces
    <3>4. CASE Index(w)
      <4>1. PICK d \in Docs : \/ worker' = [worker EXCEPT ![w] = At("failing")]
                              \/ worker' = [worker EXCEPT ![w] = [@ EXCEPT !.pc = "indexed", !.doc = d]]
        BY <3>4 DEF Index
      <4>2. LET wk == [worker[w] EXCEPT !.pc = "indexed", !.doc = d] IN
              wk \in WorkerState /\ wk.pc = "indexed" /\ wk.job = j
        BY <1>1 DEF WorkerState, WorkerPlaces
      <4> QED
        BY <1>3, <3>4, <4>1, <4>2 DEF Index, Ready, Running, WorkerPlaces
    <3>5. CASE RecordDocument(w)
      BY <1>3, <3>5 DEF RecordDocument, Running, WorkerPlaces
    <3> QED
      BY <1>9, <3>1, <3>2, <3>3, <3>4, <3>5
  <2>2. PICK wk \in WorkerState : wk.pc \in Running /\ wk.job = j /\ worker' = [worker EXCEPT ![w] = wk]
    BY <2>1
  <2>3. worker[w].pc # "idle" /\ wk.pc # "picked" /\ job[wk.job].status = "processing"
    BY <1>4, <2>1, <2>2 DEF Running
  <2>4. Steady'
    BY <2>1, <2>2, <2>3, RunnerStaysSteady DEF uploads
  <2> QED
    BY <2>1, <2>4 DEF Forward, uploads
<1>10. CASE Cleanup(w)
  <2>1. /\ worker[w].pc # "idle"
        /\ worker' = [worker EXCEPT ![w] = Idle]
        /\ UNCHANGED <<job, queue, request>>
    BY <1>10 DEF Cleanup
  <2>2. Idle.pc # "picked" /\ Idle.pc \notin Running
    BY DEF Idle, Running
  <2>3. Steady'
    BY <1>1, <2>1, <2>2, RunnerStaysSteady
  <2> QED
    BY <2>1, <2>3 DEF Forward
<1> QED
  BY <1>6, <1>7, <1>8, <1>9, <1>10 DEF Work

\* A process dies: its job's row stays where it is.
LEMMA CrashStaysSteady ==
  ASSUME TypeOK, Once, Steady, NEW w \in Runners, Crash(w)
  PROVE  Steady' /\ Forward
<1>1. /\ worker[w].pc # "idle" /\ worker' = [worker EXCEPT ![w] = Idle]
      /\ UNCHANGED <<job, queue>>
      /\ \A j \in Jobs : request'[j] = request[j] \/ request'[j] = "error"
  BY DEF Crash, TypeOK
<1>2. Idle \in WorkerState /\ Idle.pc # "picked" /\ Idle.pc \notin Running
  BY DEF Idle, Running, WorkerState, WorkerPlaces
<1>3. Steady'
  BY <1>1, <1>2, RunnerStaysSteady
<1> QED
  BY <1>1, <1>3 DEF Forward

LEMMA SteadyStep ==
  ASSUME Faults \subseteq {"qdrant", "crash"}, TypeOK, Once, Steady, [Next]_vars
  PROVE  Steady' /\ Forward
<1>1. CASE UNCHANGED vars
  BY <1>1, IdleStaysSteady DEF vars
<1>2. ASSUME NEW a \in Admins, Delete(a) PROVE UNCHANGED <<job, queue, request, worker>>
  BY <1>2 DEF Delete, CheckDelete, MarkDeleted, BulkDelete, PurgeChunks, FinishDelete, uploads
<1>3. CreateElsewhere => UNCHANGED <<job, queue, request, worker>>
  BY DEF CreateElsewhere, uploads
<1>4. ASSUME NEW w \in Runners PROVE ~Timeout(w)
  BY DEF Timeout
<1> QED
  BY <1>1, <1>2, <1>3, <1>4, IdleStaysSteady, UploadStaysSteady, WorkStaysSteady,
     CrashStaysSteady DEF Next

\* Where SQL and Redis answer and no time limit expires, a poll never sees a job's status go
\* back (update_ingest_job writes whatever it is told to), though Qdrant fails and workers
\* are killed. TLC breaks it with any other fault.
THEOREM JobsMoveForward ==
  ASSUME Faults \subseteq {"qdrant", "crash"} PROVE Spec => JobMovesForward
<1>1. Init => TypeOK /\ Once /\ Steady
  BY TypeInit, OnceInit, SteadyInit
<1>2. TypeOK /\ Once /\ Steady /\ [Next]_vars => (TypeOK /\ Once /\ Steady)'
  BY TypeNext, OnceStep, SteadyStep
<1>3. TypeOK /\ Once /\ Steady /\ [Next]_vars =>
        [\A j \in Jobs : \/ job'[j] = job[j]
                         \/ Phase[job[j].status] < Phase[job'[j].status]]_job
  BY SteadyStep DEF Forward
<1> QED
  BY <1>1, <1>2, <1>3, PTL DEF Spec, JobMovesForward
-----------------------------------------------------------------------------
\* When SQL and Qdrant answer and no worker is stopped: chunks of a document that is not
\* listed belong to someone who is about to list it, or to remove them.
Attended == \A d \in points :
  \/ row[d] = "active"
  \/ \E w \in Runners : worker[w].pc = "indexed" /\ worker[w].doc = d
  \/ \E a \in Admins : purge[a].pc = "purging" /\ d \in purge[a].todo /\ Tenant(d) = TenantOf[a]

LEMMA RunnerStaysAttended ==
  ASSUME TypeOK, Attended, NEW w \in Runners, worker[w].pc # "indexed",
         \A v \in Runners : v # w => worker'[v] = worker[v],
         UNCHANGED <<row, points, owner, purge>>
  PROVE  Attended'
  BY DEF Attended, Tenant

LEMMA AttendedStep ==
  ASSUME Faults \subseteq {"redis"}, TypeOK, Documented, Once, Attended, [Next]_vars
  PROVE  Attended'
<1>0. /\ worker \in [Runners -> WorkerState]
      /\ Outcomes("db") = {"ok"} /\ Outcomes("qdrant") = {"ok"}
  BY CalmOutcomes, WorkersInType DEF WorkersOK
<1>1. ASSUME UNCHANGED <<row, points, owner, purge, worker>> PROVE Attended'
  BY <1>1 DEF Attended, Tenant
<1>2. ASSUME NEW j \in Jobs, Upload(j) PROVE Attended'
  <2>1. CASE RunHere(j)
    <3>1. /\ j \in Runners /\ request[j] = "created" /\ j \in Direct
          /\ UNCHANGED <<row, points, owner, purge>>
          /\ \A v \in Runners : v # j => worker'[v] = worker[v]
      BY <1>0, <2>1 DEF RunHere, Runners, stores
    <3>2. worker[j].pc = "idle"
      BY <3>1, WorkersInType DEF WorkersOK, Consistent, Once, EarlyUntouched, Early, Held
    <3> QED
      BY <3>1, <3>2, RunnerStaysAttended
  <2>2. CASE SaveFile(j) \/ CreateJob(j) \/ Enqueue(j) \/ Refuse(j) \/ Accept(j)
    BY <1>1, <2>2 DEF SaveFile, CreateJob, Enqueue, Refuse, Accept, stores
  <2> QED
    BY <1>2, <2>1, <2>2 DEF Upload
<1>3. ASSUME NEW w \in Runners, Work(w) PROVE Attended'
  <2>1. CASE Index(w)
    <3>1. PICK d \in Docs : /\ worker[w].pc \in {"working", "ready"}
                            /\ owner[d] = None /\ owner' = [owner EXCEPT ![d] = worker[w].job]
                            /\ points' = points \cup {d}
                            /\ worker' = [worker EXCEPT ![w] = [@ EXCEPT !.pc = "indexed", !.doc = d]]
                            /\ UNCHANGED <<row, purge>>
      <4>1. PICK d \in Docs, o \in Outcomes("qdrant") :
              /\ worker[w].pc \in {"working", "ready"}
              /\ owner[d] = None /\ owner' = [owner EXCEPT ![d] = worker[w].job]
              /\ points' = points \cup {d}
              /\ worker' = [worker EXCEPT ![w] = IF Raised(o) THEN [@ EXCEPT !.pc = "failing"]
                                                 ELSE [@ EXCEPT !.pc = "indexed", !.doc = d]]
              /\ UNCHANGED <<row, purge>>
        BY <2>1 DEF Index, Ready
      <4>2. ~Raised(o)
        BY <1>0 DEF Raised
      <4> QED
        BY <4>1, <4>2
    <3>2. /\ worker'[w].pc = "indexed" /\ worker'[w].doc = d
          /\ \A v \in Runners : v # w => worker'[v] = worker[v]
      BY <1>0, <3>1 DEF WorkerState
    <3>3. \A e \in Docs : e # d => owner'[e] = owner[e]
      BY <3>1 DEF TypeOK
    <3> SUFFICES ASSUME NEW e \in points, e # d
                 PROVE  \/ row[e] = "active"
                        \/ \E v \in Runners : worker'[v].pc = "indexed" /\ worker'[v].doc = e
                        \/ \E a \in Admins : /\ purge[a].pc = "purging" /\ e \in purge[a].todo
                                             /\ Tenant(e)' = TenantOf[a]
      BY <3>1, <3>2 DEF Attended
    <3>4. Tenant(e)' = Tenant(e)
      BY <3>3 DEF Tenant, TypeOK
    <3> QED
      BY <3>1, <3>2, <3>4 DEF Attended
  <2>2. CASE RecordDocument(w)
    <3>1. /\ worker[w].pc = "indexed" /\ row' = [row EXCEPT ![worker[w].doc] = "active"]
          /\ \A v \in Runners : v # w => worker'[v] = worker[v]
          /\ UNCHANGED <<points, owner, purge>>
      BY <1>0, <2>2 DEF RecordDocument
    <3>2. \A e \in Docs : row'[e] = IF e = worker[w].doc THEN "active" ELSE row[e]
      BY <3>1 DEF TypeOK
    <3> SUFFICES ASSUME NEW e \in points, row[e] # "active", e # worker[w].doc
                 PROVE  \/ \E v \in Runners : worker'[v].pc = "indexed" /\ worker'[v].doc = e
                        \/ \E a \in Admins : /\ purge[a].pc = "purging" /\ e \in purge[a].todo
                                             /\ Tenant(e) = TenantOf[a]
      BY <3>1, <3>2 DEF Attended, Tenant, TypeOK
    <3> QED
      BY <3>1 DEF Attended
  <2>3. CASE \/ Pick(w) \/ StartJob(w) \/ NoText(w) \/ Unreadable(w) \/ MissCollection(w)
             \/ CreateCollection(w) \/ Complete(w) \/ MarkFailed(w) \/ Cleanup(w)
    <3>1. /\ worker[w].pc # "indexed" /\ UNCHANGED <<row, points, owner, purge>>
          /\ \A v \in Runners : v # w => worker'[v] = worker[v]
      BY <1>0, <2>3 DEF Pick, StartJob, NoText, Unreadable, MissCollection, CreateCollection,
                        Complete, MarkFailed, Cleanup, stores
    <3> QED
      BY <3>1, RunnerStaysAttended
  <2> QED
    BY <1>3, <2>1, <2>2, <2>3 DEF Work
<1>4. ASSUME NEW a \in Admins, Delete(a) PROVE Attended'
  <2>1. UNCHANGED <<owner, worker>> /\ \A b \in Admins : b # a => purge'[b] = purge[b]
    BY <1>4 DEF Delete, CheckDelete, MarkDeleted, BulkDelete, PurgeChunks, FinishDelete, stores, TypeOK
  <2>2. ASSUME points' = points, purge[a].pc # "purging" \/ purge[a].todo = {},
               \A d \in Docs : row'[d] = row[d] \/
                 (purge'[a].pc = "purging" /\ d \in purge'[a].todo /\ Tenant(d) = TenantOf[a])
        PROVE  Attended'
    <3> SUFFICES ASSUME NEW e \in points, row'[e] = row[e], row[e] # "active"
                 PROVE  \/ \E w \in Runners : worker[w].pc = "indexed" /\ worker[w].doc = e
                        \/ \E b \in Admins : /\ purge'[b].pc = "purging" /\ e \in purge'[b].todo
                                             /\ Tenant(e) = TenantOf[b]
      BY <2>1, <2>2 DEF Attended, Tenant, TypeOK
    <3> QED
      BY <2>1, <2>2 DEF Attended
  <2>3. ASSUME NEW d \in Docs, CheckDelete(a, d) PROVE Attended'
    BY <2>2, <2>3 DEF CheckDelete, stores
  <2>4. CASE MarkDeleted(a)
    <3>1. /\ purge[a].pc = "checked" /\ points' = points
          /\ row' = [d \in Docs |-> IF d \in purge[a].todo THEN "deleted" ELSE row[d]]
          /\ purge' = [purge EXCEPT ![a] = [@ EXCEPT !.pc = "purging"]]
      BY <1>0, <2>4 DEF MarkDeleted, Raised
    <3>2. purge'[a].pc = "purging" /\ purge'[a].todo = purge[a].todo
      BY <3>1 DEF TypeOK
    <3>3. \A d \in purge[a].todo : Tenant(d) = TenantOf[a]
      BY <3>1 DEF Documented, ChecksOwn
    <3> QED
      BY <2>2, <3>1, <3>2, <3>3
  <2>5. ASSUME NEW ds \in SUBSET Docs, BulkDelete(a, ds) PROVE Attended'
    <3>1. /\ purge[a].pc = "idle" /\ points' = points
          /\ row' = [d \in Docs |-> IF d \in ds /\ row[d] # "absent" /\ Tenant(d) = TenantOf[a]
                                    THEN "deleted" ELSE row[d]]
          /\ purge' = [purge EXCEPT ![a] = [pc |-> "purging", todo |-> ds]]
      BY <1>0, <2>5 DEF BulkDelete, Raised
    <3>2. purge'[a].pc = "purging" /\ purge'[a].todo = ds
      BY <3>1 DEF TypeOK
    <3> QED
      BY <2>2, <3>1, <3>2
  <2>6. ASSUME NEW d \in Docs, PurgeChunks(a, d) PROVE Attended'
    <3>1. /\ points' = IF Tenant(d) = TenantOf[a] THEN points \ {d} ELSE points
          /\ purge' = [purge EXCEPT ![a] = [@ EXCEPT !.todo = purge[a].todo \ {d}]]
          /\ purge[a].pc = "purging" /\ row' = row
      BY <1>0, <2>6 DEF PurgeChunks, Raised
    <3>2. purge'[a].pc = "purging" /\ purge'[a].todo = purge[a].todo \ {d}
      BY <3>1 DEF TypeOK
    <3> SUFFICES ASSUME NEW e \in points, e \in points'
                 PROVE  \/ row[e] = "active"
                        \/ \E w \in Runners : worker[w].pc = "indexed" /\ worker[w].doc = e
                        \/ \E b \in Admins : /\ purge'[b].pc = "purging" /\ e \in purge'[b].todo
                                             /\ Tenant(e) = TenantOf[b]
      BY <2>1, <3>1 DEF Attended, Tenant
    <3>3. e = d => Tenant(e) # TenantOf[a]
      BY <3>1
    <3> QED
      BY <2>1, <3>2, <3>3 DEF Attended
  <2>7. CASE FinishDelete(a)
    BY <2>2, <2>7 DEF FinishDelete, stores
  <2> QED
    BY <1>4, <2>3, <2>4, <2>5, <2>6, <2>7 DEF Delete
<1>5. CreateElsewhere \/ UNCHANGED vars => UNCHANGED <<row, points, owner, purge, worker>>
  BY DEF CreateElsewhere, vars
<1>6. ASSUME NEW w \in Runners PROVE ~Crash(w) /\ ~Timeout(w)
  BY DEF Crash, Timeout
<1> QED
  BY <1>1, <1>2, <1>3, <1>4, <1>5, <1>6 DEF Next

\* Once nobody is at work on a document, its chunks are found just when it is listed: where
\* SQL and Qdrant answer and no worker is stopped, the order of the two stores' writes in
\* upload and deletion leaves no remainder (process_ingest_job, remove_document,
\* bulk_operation). TLC breaks it with any other fault, and with the legacy listing.
THEOREM StoresComeToAgree ==
  ASSUME Faults \subseteq {"redis"}, ~Legacy PROVE Spec => []StoresAgree
<1>1. Init => Attended
  BY DEF Init, Attended
<1>2. TypeOK /\ Attended /\ ActiveIsSearchable => StoresAgree
  BY DEF TypeOK, Attended, ActiveIsSearchable, StoresAgree, InProgress
<1>3. Spec => [](TypeOK /\ Documented /\ Once /\ ActiveIsSearchable)
  <2>1. Living => TypeOK /\ Documented /\ Once /\ ActiveIsSearchable
    BY DEF Living, Searchable
  <2> QED
    BY <2>1, LivingAlways, PTL
<1>4. TypeOK /\ Documented /\ Once /\ Attended /\ [Next]_vars => Attended'
  BY AttendedStep
<1> QED
  BY <1>1, <1>2, <1>3, <1>4, PTL DEF Spec
=============================================================================
