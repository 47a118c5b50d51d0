# Complyra in TLA+

Complyra is a multi-tenant question-answering service over a company's documents:
uploads are chunked and embedded by background workers, questions are answered by
an LLM from the chunks found, an output policy scans the answers, a policy chain
decides which of them a human must approve first, and everything is logged. This
directory models the parts where processes, stores and people interact, checks them
with TLC on small instances and proves theorems about them with TLAPS.

Paths below are relative to the repository; line numbers of every definition are in
`PROJECT.json` under `map`.

## 1. The system

| Component | Code | State | Operations | Talks to |
|---|---|---|---|---|
| Approval review | `app/api/routes/approvals.py`, `app/services/approvals.py`, `app/db/audit_db.py` | table `approvals`; `audit_logs` | create (from the chat), list, poll, decide | SQL, one transaction per helper |
| Document ingestion | `app/api/routes/ingest.py`, `app/workers/ingest_worker.py`, `app/services/{queue,ingest,retrieval}.py` | `ingest_jobs`, RQ list in Redis, temporary files, chunks in Qdrant, `documents`, preview files | upload, enqueue, run the job, poll | SQL, Redis, Qdrant, disk |
| Document administration | `app/api/routes/documents.py`, `app/services/documents.py` | `documents`, Qdrant chunks | delete, bulk delete, sensitivity and override updates, list (SQL and legacy Qdrant listing), preview | SQL, Qdrant, disk |
| Approval policy | `app/services/approval_policy.py`, `app/api/routes/tenants.py` | `tenant_policies` | set and read a tenant's mode, decide for a set of documents | SQL |
| Chat workflow | `app/services/workflow.py`, `app/api/routes/chat.py` (`POST /chat`), `query_rewrite.py`, `relevance_judge.py`, `policy.py` | the LangGraph state of a call | rewrite, retrieve, judge (loop), draft, approve or finish, respond, log | Qdrant, LLM, SQL |
| Streaming chat | `app/api/routes/chat.py` (`POST /chat/stream`) | the generator's locals, the events sent | the same pipeline written out again, event by event | Qdrant, LLM, SQL, the client |
| Accounts, tenants, authentication | `app/services/users.py`, `app/api/deps.py`, `app/api/routes/{users,auth,tenants}.py`, `app/main.py` | `users`, `tenants`, `user_tenants`, `tenant_policies`, JWT | seed at the start, create, assign, set a policy, log in, resolve the tenant of a request | SQL |
| Chunking and extraction | `app/services/ingest.py` | the loops' locals | extract, window or split and merge, upsert | Qdrant, libraries |
| Embeddings and search, LLM providers | `app/services/{embeddings,sparse_embed,retrieval,llm}.py` | the Qdrant collection | embed, create the collection, search, generate | Qdrant, services |
| Log buffer, metrics, request ids | `app/core/*` | an in-memory ring, counters | append, query | nobody's state |
| Web client | `web/src/App.tsx` | React state | polling of jobs and approvals, reading the event stream | the API |

Every SQL helper in `audit_db.py` opens a session, commits and closes it: there is no
transaction across two helpers, and none across SQL, Qdrant, Redis and the disk.
Request handlers run concurrently in a thread pool, workers in processes of their
own. So the hard behaviours are:

* two reviewers, or one reviewer twice, deciding the same request between each other's
  transactions, with SQLAlchemy writing only the columns that differ from what was loaded;
* a thread, a worker or a service failing between two of the calls that belong
  together (chunks, row, job status; status, chunks; decision, audit entry), a reply
  lost after the effect, and the job timeout striking anywhere;
* a document deleted while it is being ingested, by ids of any tenant;
* the documents' settings and the tenant's policy read one after the other while
  admins change them;
* the retrieval loop that a judge drives, and the order of policy check, approval,
  events and audit in two copies of the pipeline;
* a streaming client that leaves;
* several API processes seeding an empty database, and admins whose requests look,
  insert and log in separate transactions with only the database's keys between them;
* two workers creating the same Qdrant collection;
* the boundaries of two chunkers: an overlap as large as the size, segments longer than a
  chunk, text that is carried over with its pages.

What makes each component correct is stated with its module below; the full list of
hazards, at their lines and with the properties that would catch them, is in
`PROJECT.json`.

## 2. Modules

| Module | Models | Builds on |
|---|---|---|
| `SingleDecision` | abstract: every request gets one verdict, its release and a matching audit entry | |
| `ApprovalReview` | the decision endpoint, transaction by transaction | instantiates `SingleDecision` |
| `AnswerPath` | abstract: an answer is settled, filed or not, told and logged, once and consistently; the promise both chat endpoints share | |
| `ChatStream` | `POST /chat/stream` | instantiates `AnswerPath` |
| `ReviewedStream` | a stream that files a request, the reviewers who decide it, the user who polls the result | extends `ApprovalReview`, instantiates `ChatStream` |
| `DocumentLife` | abstract: stored, listed, withdrawn by the own tenant, erased, once and in this order | |
| `KnowledgeBase` | a document from upload to deletion, across disk, Redis, SQL and Qdrant | instantiates `DocumentLife` |
| `Chunking` | `ingest_document` and its two chunkers, iteration by iteration | |
| `ApprovalPolicy` | `should_require_approval` and the documented chain, as operators | |
| `ChatWorkflow` | `POST /chat` and the administration of what it is decided by | extends `ApprovalPolicy`, instantiates `AnswerPath` |
| `Accounts` | the seed, tenants, users, memberships and policies | |
| `MCChatOneKind` | `ChatWorkflow` in which admins change one of the two inputs per behaviour | extends `MCChatWorkflow` |
| `MC*` | instances for TLC: small sets of model values and the constants' values | the module named |
| `*_proofs` | theorems and their proofs | the module named |

Definitions named in a comment as a "mutant" are plausible bugs of the definition that
follows or precedes them. They are not part of any specification; each property is
shown to fail when one of them is put in place of the original.

### ApprovalReview

`row` is the approvals table (status, whether `final_answer` is set, `decision_by`),
`audit` the `approval_decision` entries. A call of `decide()` is `Check` (the row
exists, its tenant is accessible, it is pending), `Load`, `Commit`, `Refresh`
(`update_approval`: the ORM load, the UPDATE, `db.refresh`) and `LogDecision`. `Sessions`
are the server's request threads: each serves one call after the other, of any reviewer
(`caller`), and one reviewer may have calls on several of them at once. A thread in `Mortal`
may stop in between (`Abort`). `Flush` is what makes the model faithful to SQLAlchemy: the
UPDATE names only the columns whose assigned value differs from the loaded one.
`CanReview` stands for the tenants of each reviewer. `Arrive` is the callers: they may call
at any time, except that on requests of `OneAtATime` (a choice of the instance, possibly
empty) they wait for each other's calls to end. `commits` is an observer.

*Properties.* A pending row carries neither reviewer nor answer, and a row on which nobody
disagreed is decided as a whole: status, answer and reviewer of one decision
(`DecidedTogether`); a final answer exists only where a reviewer with access committed an approval
(`ReleaseJustified`); the trail reports only committed decisions and chosen outcomes
(`AuditTruthful`); a decided request accepts no further call, of the same reviewer or another,
and its row changes only by calls that had passed the check before, each of them once
(`OnlyRacersOverride`): what is true of "once approved or rejected, it cannot change";
decisions of threads that live on are logged (`NoDecisionUnlogged`); requests whose calls
do not overlap (`OneAtATime`) implement `SingleDecision`, whatever races on the others
(`KeepsPromise`).

*Disagreement.* `FinalOnlyWhenApproved`, the promise of `decide()`'s docstring, fails
(`review_torn`): an approval and a rejection race, the rejection assigns `None` to a
column it had loaded as `NULL`, so the column is not written, and the row ends rejected
with the approved answer in it. The comment "once approved or rejected, it cannot
change" (`approvals.py:89`) fails in the same way, by a plain later UPDATE of a call that
had passed the check. Nothing tells two calls of one reviewer from those of two: a second
click that overtakes the first decides twice, and is logged twice.

### ReviewedStream

The stream of `ChatStream` and the review of `ApprovalReview`, joined where the code joins
them: the request a stream files is inserted in the same step as the row that is decided
(`Filing`), requests of `POST /chat` appear beside it (`Review`), and `Poll` is
`GET /approvals/{id}/result`, which hands out the row as it is to the user who was told of
the request: status, draft and final answer. `told` is what that user was last told.

*Properties.* Those of the two parts, and: a poll shows the very draft that was filed,
never blocked text, and as the final answer nothing but this draft, after a reviewer with
access committed an approval (`ToldIsBacked`); a user told of a decision is never told
"pending" again, although decisions may override each other (`NeverPendingAgain`); and the
stream keeps to `AnswerPath` while its request is reviewed (`KeepsToPath`). `StreamTypeOK`
types the composition, both parts included.

*Seen while modelling, without a run.* `approval_result` returns `_to_response(row)`, and
with it `draft_answer` (`approvals.py:34`, `schemas.py:72`) at any status: the owner reads
the text while it is pending and after it was rejected. `docs/api-reference.md:332` says that
the answer is withheld until a reviewer approves the request, and lines 777-787 show a
pending result with `"answer": null` as its only text. In the model `Poll` does what the
code does, which is why `ToldIsBacked` promises a review for the final answer only.

### KnowledgeBase

One step per call to a store. `SaveFile`, `CreateJob`, `Enqueue`, `Refuse` and `Accept`
are `POST /ingest/file` with its 503 branch. Where the queue is off (`Direct`) the request
runs the job itself (`RunHere`), under the job's own name, and goes on when it has
returned; so the `Runners` of `process_ingest_job` are the workers and these requests.
`Pick`, `StartJob`, `NoText`, `Unreadable`, `MissCollection`, `CreateCollection`, `Index`,
`RecordDocument`, `Complete`, `MarkFailed` and `Cleanup` are the job, with the `try`,
`except` and `finally` of `process_ingest_job`; `Crash` and `Timeout` are what RQ, or the
operating system, adds. `ensure_collection` looks first and creates then, so two runners
may both create the collection; the second is refused, and its job fails.
`CheckDelete`, `MarkDeleted`, `PurgeChunks` and `FinishDelete` are the single
delete; `BulkDelete` marks in one UPDATE and is followed by the same purge. `Outcomes`
gives each call its ends: "ok", "lost" (raises, nothing done) and, e.g. when the refresh
after a commit raises, "late" (raises, effect done); `Faults` says which services may
fail. `upsert_chunks` generates the document id, so chunks may exist for an id nobody
learnt (`Index` with "late"). `row` never returns to "absent": documents are
soft-deleted. `Stage` reads off row and chunks how far a document has come, and maps
the states to those of `DocumentLife`.

*Properties.* A completed job names a listed document made from its own upload
(`CompletedIsListed`); one document per upload (`OneDocumentPerJob`); what is listed as
active has its chunks (`ActiveIsSearchable`); admins only delete in their tenant
(`OnlyOwnTenantDeletes`); once nobody is at work SQL and Qdrant agree (`StoresAgree`); no
temporary file is left (`FilesReclaimed`); a polled status only advances
(`JobMovesForward`) and settles (`JobSettles`); rows and chunks together live the life of
`DocumentLife`, although they are two services written one after the other (`FollowsLife`).

*Disagreement.* `ActiveIsSearchable` fails where ids of `GET /documents/legacy` may be
deleted in bulk (`kb_ghost`): that listing shows a document as soon as its chunks exist,
bulk deletion purges them although there is no row yet, and the worker then inserts the
row as active.

`update_ingest_job` loads the row and writes the columns that differ, as `update_approval`
does. The only updates of one job that can overlap are a worker's and the 503 branch's. The
latter assigns NULL to `document_id`, which is not written if it was NULL when loaded, so
`Refuse` leaves the failed job without a document or with the one the worker has just
committed.

*Seen while modelling, without a run.* A Qdrant failure after `MarkDeleted` leaves a
deleted document searchable (no retry, no status filter in `search_chunks`), though
`models.py:321` says deleted documents are excluded from search. The first status
update of the worker stands before the `try`, so a database error there leaves the
temporary file, which `ingest_worker.py:84` says is always deleted; so does a refused
enqueue. If the update in the `except` clause fails too, the job stays in "processing"
for ever. Redis may accept a job and lose the reply: the upload answers 503 and marks
the job failed, and the worker completes it. A timeout right after the commit of
"completed" turns it into "failed". Preview and details of a soft-deleted document are
still served. A valid upload fails when its worker loses the race to create the
collection, and nothing tries it again.

### Chunking

`Extract` is `ingest_document` up to the choice of a chunker, with its two early returns;
`Window` is one iteration of `chunk_text`; `Split`, `Merge` and `Flush` are steps 1 to 3 of
`smart_chunk_text`, one paragraph or segment at a time; `Upsert` stores the chunks or
raises, and the call is counted once. Text is abstracted to where it is from: a window is a
range of offsets, a chunk of a PDF a run of segments, plus the number of characters carried
over from the chunk before. `strip()` removes an unknown number of blanks from what is
carried, so that number is any from one to `chunk_overlap`; that is more than the code
does, never less. The overlap may be as large as the size or larger: `config.py` does not
compare them.

*Properties.* Every stretch of up to `chunk_overlap` + 1 characters stands whole in one
window, wherever it starts (`SpansKept`); merging loses, repeats and reorders no segment
(`SegmentsKept`); a chunk names the pages of all its text, of its own segments and of those
before it that the carried characters reach back into (`SourcesNamed`); a chunk longer than
`chunk_size` has one segment only (`OversizedIsOneSegment`); a chunk ends only where the
next segment would not have fitted (`CutsAreNeeded`).

*Disagreement.* `PagesAreSources` fails (`chunk_pages`): a chunk inherits the whole page
list of its predecessor along with the text carried over, so from the second chunk on the
list grows from the first page to the current one, though `ingest.py:204` says that it
records which pages the content came from. The theorem `PagesAreInherited` states exactly
what the list holds, and `NoOverlapNamesSourcesOnly` that the comment is true where
`chunk_overlap` is 0.

*Seen while modelling, without a run.* A chunk may exceed `chunk_size`, by the carried text
and the separator before a long segment.

### ApprovalPolicy and ChatWorkflow

`ShouldRequireApproval(rows, policy)` is `should_require_approval` on the set of rows
found for the source ids; a missing row (chunks without a document record) is no row.
`ChatWorkflow` has one action per LangGraph node; the routing after the draft is two
actions, `ReadDocuments` and `ReadPolicy`, because the code reads them in two
transactions. `Respond` is the construction of the response, `LogAnswer` the audit entry
and the reply, `Fail` an exception of any external call. Contexts are sets of documents,
texts are "plain" or "secret" (a pattern matches), "withheld" is the block message.
`SetPolicy`, `UpdateDocument`, `BulkUpdateSensitivity` and `RecordDocument` change what is
decided by; `Changes` says which of the two inputs they touch. `possible` is an observer:
the verdicts of the policy in force at every instant between the two reads.

*Properties.* The verdict is one that was in force while it was read
(`DecisionInForce`); each source of an answer has its say in the decision
(`SourcesHaveTheirSay`); replies, filed requests and audit entries agree
(`RepliesAreBacked`); the call keeps to `AnswerPath` (`KeepsToPath`): the text is settled
once, by the output policy, and filed as it is before anything is told of it, one entry at
most goes to the trail, and nothing follows the end; calls end (`CallsEnd`). That blocked
text reaches nobody (`SecretsWithheld`) follows from `KeepsToPath` and `RepliesAreBacked`, and
is a theorem of its own.

*Disagreements.* `AlwaysIsHonoured` fails when both inputs change (`chat_mixed`): a
document becomes "always" after it was read and the mode is loosened before that is read;
the answer skips a review required throughout. `AnsweredUnlessFailing` fails
(`chat_unpack`): `search_chunks` appends five components, `chat()` unpacks four
(`chat.py:55`). The models keep this: every call that finds chunks ends in an error
after the workflow ran, so `RepliesAreBacked` is about calls without chunks, and an
approval request filed by a failed call is not in the audit trail, contrary to
`README.md:22`. The theorem `ChainButForNever` states the one difference between code and
documented chain: a document marked "never" is reviewed where the mode is "all", contrary
to `docs/configuration.md:184`.

### ChatStream

The generator: `Rewrite`, the loop of `Retrieve` and `Judge`, `Token` and `EndOfTokens`,
`CheckOutput`, `Approve`, `Log`. `events` is what the client has been sent. `Stop` is an
exception or the client leaving; the approval insert runs in another thread and may
be committed all the same. The generator's locals end with it (`End`).

*Properties*, checked in `stream_review`. What is announced as pending is filed, and logged
accordingly (`AnnouncedIsFiled`); the stream keeps to `AnswerPath` (`KeepsToPath`), as
`POST /chat` does: what `done` or `approval_required` told the client is what is filed and logged.
`SecretsNotKept`, that blocked text is neither filed nor logged, follows and is a theorem;
streams end (`StreamsEnd`).

*Disagreement.* `ReviewedBeforeShown` fails (`stream_unreviewed`): all tokens are sent
before approval is requested. For the same reason a blocked answer has been sent by
the time it is blocked (`policy.py:3`). The stream also looks at the global setting only,
never at documents or tenant policy (`chat.py:216`), breaks on the five-component tuples
(`chat.py:161`), and logs after its last event, so a client that leaves has been shown an
answer that is not logged.

### Accounts

`tenants`, `user` (by the unique username: role and default tenant), `links`
(`user_tenants`), `policy` (the mode) and the admins' entries in `audit` are the tables;
`process` is where each API process is in its start and what it has read, `request` the
same of each admin request. `ReadTenant`, `ReadUser` and `Seed` are `ensure_default_seed`:
two reads and one commit, which a unique or primary key refuses if another process was
faster (`Twice`); the exception ends the start and the container is started again.
`Submit` is `require_roles(["admin"])`, with the role from the user's row.
`InsertTenant`, `InsertUser`, `CheckLink`, `InsertLink`, `LoadPolicy`, `WritePolicy` and
`LogChange` are the transactions of the four endpoints, shared where the code shares them
(`assign_user_tenant` serves the creation of a user and the grant). `Commits` gives the
ends of a commit: refused, done, or done although the call raises; `Raise` is a call that
raises and does nothing, `Crash` the death of a process with its requests. `Refusal` says
who answers 400 and who 500. `enforced` is whether the database checks foreign keys:
PostgreSQL does, SQLite as `session.py` opens it does not. A grant names a user by the id
of the users list, so only existing users are named.

Log-in and the check of a token read only. `get_current_user` re-reads role and
memberships from the database and nothing removes a user, so an old token admits exactly
what a new one does; tokens are no state of the model. `LetIn` is `get_tenant_id`.

*Properties.* As soon as one process serves, the demo admin is let into the default
tenant (`OpenForBusiness`); a user whose creation or grant was confirmed is let in
(`ConfirmedIsLetIn`); where no call failed nobody is kept out of the own default tenant
(`NobodyIsStranded`); every tenant, user and policy is in the audit trail unless its
request is under way or was answered with an error (`ChangesAccounted`); every process
serves in the end (`ProcessesStart`).

*Seen while modelling, without a run.* A failure between the user and the membership
answers 400 "User creation failed" and leaves a user whose default tenant refuses them;
the retry is refused because the name is taken. A concurrent grant of the same
membership makes one of the two requests answer 400 although what it asked for is done.
Two first policies at once end in one 500. A policy's mode and its `updated_by` are
written as separate columns, so two updates that loaded the same row may leave the mode
of one beside the name of the other; the model keeps the mode only.

## 3. Runs

| Run | Instance | Result |
|---|---|---|
| `stream_review` | 1 stream with 2 searches, failures, a client that leaves; 2 threads, of which 1 may die, serve any calls of 2 reviewers on its request, and calls of 1 of them, one at a time, on another | 742 240 states, 12 properties hold |
| `stream_unreviewed` | 1 stream, no failure | counterexample |
| `review_torn` | 2 sessions, 1 request, nobody dies | counterexample |
| `kb_faults` | 2 uploads of 2 tenants, one through the queue, one run by its request, 2 document ids, 1 worker, 1 admin, every fault | 298 477 states, 6 properties hold |
| `kb_calm` | 2 uploads through the queue, 2 ids, 2 workers, 2 admins, no service fails | 148 674 states, 4 properties hold |
| `kb_ghost` | 1 upload, 1 admin with legacy ids, no fault | counterexample |
| `chunking` | size 7, overlap 4; every PDF of up to 3 paragraphs of 5 shapes on 3 pages, every text and image of up to 12 characters | 157 382 states, 6 properties hold |
| `chunk_pages` | the same with overlap 2 | counterexample |
| `chat_review` | 1 call, 2 documents in all settings, 2 searches, failures, the policy or the documents change | 376 164 states, 6 properties hold |
| `chat_mixed`, `chat_unpack` | 1 call, 1 document | counterexamples |
| `accounts` | 2 processes, 2 requests, 2 names, 2 tenants, 2 roles, 2 modes, 1 fault, both kinds of database | 969 610 states, 6 properties hold |

*Why the bounds are enough.* A decision race needs two threads on one request, whose calls
may be of one reviewer or of two; a call that comes later, or a third decision, is served
by the thread that is through first. The promise of `SingleDecision` is checked on a
request of its own while the other thread serves the shared one. Streams share no state but
the table of requests, in which each has its own row, so one stream is enough; the theorems
cover any number. A job runs at most once, so two uploads, two ids and two workers (or one
worker, one direct run and every fault) give every pairing of pipelines; `Index` is
disabled when the ids run out, which only cuts behaviours that repeat shorter ones. Two
admins suffice for a deletion to overtake another on both documents. `MaxAttempts` = 2 lets
the loop run, repeat and stop. Calls share no state but the settings, so one call is
enough. In `Accounts` every race is one of two: two processes, or two requests, of which
the second may also follow the first. `MaxFaults` bounds failed calls and deaths in all;
one is enough to interrupt any request or start, and a second one has nothing left to add
to what one interrupted request leaves. In `Chunking` the size, the separator and the
shapes are such that a segment fits exactly, fits but for the separator, and is longer than
a chunk; twelve characters give texts shorter than, as long as, and longer than one and two
windows. An overlap at least as large as the size is covered by the theorems, which hold
for any numbers, as they do for any number of everything above. Texts, names and scores are
abstracted to what the properties distinguish.

*Deadlock* is not checked: requests and uploads are finite sets and the systems may come
to rest.

*Fairness.* `KnowledgeBase!FairSpec` has weak fairness of each runner's own steps: RQ
workers poll their list, and whoever runs a job runs it to its end. Deletions and uploads
are owed by nobody. `ChatWorkflow!FairSpec` and `ReviewedStream!SpecAll` have weak fairness
of each call's steps (`Advance` for streams): the thread (or the event loop) goes on,
external calls return or raise, and the LLM's answer ends; tokens, failures, clients that
leave, reviewers and polls are owed by nobody. `Accounts!FairSpec` has weak fairness of
each process's start:
`docker-compose.yml` restarts every container. Failures and deaths are never fair.

## 4. Theorems

All for arbitrary sets of requests, reviewers, threads, uploads, documents, workers, admins, calls,
processes, users and tenants, from the named assumptions on the constants (their types,
that the demo user and the default tenant are among the names, and that `None` is none of
the values it stands beside).

* `ApprovalReview_proofs`: `TypeCorrect`; `ReleasesAreJustified`, `AuditIsTruthful`,
  `DecisionsBecomeFinal` and `RowsAreDecidedWhole` from one inductive invariant `Safe`,
  which adds what a thread that has loaded, committed or refreshed knows of the row, of
  `commits` and of its own verdict; the invariants themselves say nothing of threads under
  way and are not inductive. `DecisionsAreLogged` follows from `Safe` step by step: only a
  thread that dies leaves a committed decision without its entry. `CallsKeepPromise`, the
  refinement, additionally needs that of a request of `OneAtATime` only one call is under
  way, so that what it loaded is still what the row holds. `DecisionsBecomeFinal` needs
  that a committed decision has left the row decided, which lets no call in. That an
  undisputed row is whole (`RowsAreDecidedWhole`) needs `Whole`: a thread in progress has
  loaded a blank row or, if nobody has disagreed on it, one decided as a whole; a commit
  that changes only some of the columns is then a disagreement. So `TornRowsAreDisputed`:
  the torn rows of `review_torn` have no cause but two calls on different threads, perhaps
  of one reviewer, that committed opposite verdicts.
* `ChatStream_proofs`: `StreamTypeCorrect`, `AnnouncedAreFiled`, `BlockedTextIsNotKept`, from
  an invariant on what a stream has filed and announced by the time it is at each place.
  `NoStreamCircles`: every step of a stream but a token lowers a measure bounded by twice
  the attempts plus six. `StreamsKeepToPath`, the refinement of `AnswerPath`, goes step by
  step; it needs, beside what has been filed, that a stream has no answer before its policy
  check and tells nothing of the outcome before the decision (`AllUnheard`).
* `ReviewedStream_proofs` composes the two. `ReviewIsKept` and `StreamsAreKept` show that the
  composition implements each part (every step is a step of the part or leaves its
  variables alone), so that the theorems of the parts hold in it: `AnnouncedStayFiled` and
  `BlockedTextStaysOut` and `StreamsStayOnPath` are the streams', and
  `ReviewersKeepTheirWord`, which gathers those of `ApprovalReview_proofs`, the review's, by
  this argument alone. `TypesAreKept` joins the types of both. `PollsAreBacked` joins
  facts of both: a final answer has a justified release (review), what is filed stays as it
  is and is not secret (stream). `PollsDoNotGoBack` needs that a decided row stays decided, by
  whichever verdict, even when torn.
* `KnowledgeBase_proofs`: `TypeCorrect`, for any faults; `CompletedAreListed` and
  `DeletesOwnTenantOnly` from `Documented` (a worker past indexing owns its document; past
  recording, the row exists; every row has an owner; a checked deletion is of the admin's
  own tenant); `ActiveAreSearchable` adds `Searchable` (an indexed document has chunks, no
  row yet, and one worker; whatever is to be purged is listed, and if it is the admin's
  own, marked deleted) and assumes that no legacy ids are deleted - the assumption
  `kb_ghost` shows to be needed. `OnePerUpload` rests on a job being in one place only (the
  request, the list, or one runner) and owning no document before it is indexed there;
  `LifeIsFollowed`, the refinement of `DocumentLife`, on all of these. Most steps are
  `Quiet`: they touch neither stores nor deletions. `AllTracked` and
  `Steady` say of each job's file and status what they are while the job is at each of its
  places, which gives `FilesAreReclaimed` and `JobsMoveForward`; `Attended`, that a document
  on which the stores differ has a runner or an admin at work on it, gives
  `StoresComeToAgree`. Each assumes as little of `Faults` as it can: files are reclaimed
  whatever Qdrant and Redis do, statuses advance though Qdrant fails and workers are killed,
  the stores agree whatever Redis does; with any one fault more TLC finds a counterexample.
  `AcceptedAreKept` (no accepted job is lost before it is settled) and `RunsWindDown` (a
  runner only goes forward, at most eight steps per job, whatever fails) are what `JobSettles`
  says but for the fairness.
* `Chunking_proofs`: one inductive invariant with a part for each loop (`WindowInv`,
  `SplitInv`, `MergeInv`) gives `TypeCorrect`, `WindowsKeepSpans`, `MergeKeepsSegments`,
  `PagesNameSources`, `PagesAreInherited`, `NoOverlapNamesSourcesOnly`, `OversizedAlone` and
  `NoNeedlessCut`, for uploads of any length and
  any sizes, also where the overlap is not smaller than the chunk.
* `ApprovalPolicy_proofs`: the verdict for several sources is the union of the verdicts
  for each (`SourcesAddUp`); stricter modes and stricter documents never lift a review
  (`TighterModeKeepsReview`, `TighterDocumentsKeepReview`); `ChainButForNever`, and, for any
  number of sources, `ChainOverSources`: an answer is reviewed just if the mode is "all" or the
  documented chain asks for it for one of them.
* `ChatWorkflow_proofs`: `TypeCorrect`, with the count of searches strengthened by "a call
  that is to search has attempts left"; `SecretsNeverLeave`; `DecisionsAreInForce`, from an
  invariant that relates what a call has read to `possible`, for one kind of change at a
  time; `RepliesHaveBacking`, from what a call has filed when it comes to respond and to log.
  `SourcesAreHeard` lifts `ChainOverSources` to every step that decides. `NoCallCircles`
  bounds a call by twice the attempts plus eight steps. `CallsKeepToPath`, the refinement of
  `AnswerPath`, rests on the invariant of `RepliesHaveBacking` and on `Unsettled`: there is no
  answer before the draft.
* `Accounts_proofs`: `TypeCorrect` and `OpensForBusiness` from one inductive invariant,
  `IInv`. To the types it adds that the demo user comes with its tenant and its membership,
  and that a process which serves, or saw one of the rows, is right about it (`Seeded`);
  and that a request under way asks for something, comes after the seed, and inserts
  memberships only for users there are (`Fits`). `ConfirmedAreLetIn` adds `Kept`, what a
  request past one of its transactions has done already; rows of users and memberships are
  never removed (`RowsStay`), so it stays true whatever others do. `NobodyStaysStranded`
  adds `Hosted`: a membership that is still missing is being inserted by the very request
  that inserted the user (a request that merely tries to does not count), and its tenant is
  there, because the user's own foreign key has been checked. `ChangesAreAccounted` follows from
  two facts: what is asked for stays asked for until it is in the trail (`TracedStays`),
  and whoever writes has asked for what it writes (`WriterTraced`).
  `NobodyLosesAccess` is what justifies the constants `CanReview` and `TenantOf` of the other
  modules: no step takes anybody's role, default tenant or access away. `StartsAreFew`: a
  process's seed is refused twice at most, since a refusal uses up a row that others may
  insert, or what this start has missed.

Every invariant and action property that a run checks is thereby a theorem, some of them
under the assumption their run makes, or a weaker one (which services do not fail, no legacy
ids, one kind of change).

*Only model-checked:* the liveness properties (`JobSettles`, `CallsEnd`, `StreamsEnd`,
`ProcessesStart`): liveness under fairness and ENABLED are beyond the installed provers, as
is induction over data. What of them is safety is proved: that nothing waits in vain
for a place to be (`AcceptedAreKept`), and the bounded measures that every step lowers
(`RunsWindDown`, `NoCallCircles`, `NoStreamCircles`, `StartsAreFew`). What TLC alone
shows is that a fair step is enabled until the end. No module uses RECURSIVE operators.

## 5. Not modelled

* *Data.* Passwords, the signature and expiry of tokens (the tenants a reviewer may access
  are the constants `CanReview` and `TenantOf` of the reviews and deletions, which
  `NobodyLosesAccess` shows not to shrink); what OCR, the
  PDF library and image description return (an input of `Chunking`); vectors, ranking,
  prompts and HTTP payloads of the providers (a search returns any documents, the LLM any
  text).
* *Audit queries and export, health checks* only read. So do log-in and listings.
* *Log buffer, metrics, request ids* only observe: nothing of the system reads them back, so
  no property of the modelled parts depends on them. The ring keeps the latest records
  behind one lock, and there is no second step to interleave with.
* *Web client.* What it does to the server is in the models above. Its own state is what one
  page displays.
* *Configuration* does not change at run time; settings are constants. *Migrations and
  infrastructure* run before the system.

`_move_to_preview_storage` is part of `RecordDocument`; that deletion leaves the preview
copy is visible in `preview`, which no delete action changes.

*Seen on the way, in parts that have no model.* The dashboard's counters always read zero:
`prometheus_client` drops the suffix `_total` from a metric's name, which `monitoring.py`
compares with. An exception out of `call_next` is not counted by `MetricsMiddleware`, and
`RequestLoggingMiddleware` runs outside of `RequestIDMiddleware`, so the lines
"request completed" carry no request id. Worker processes count in registries of their own,
which nobody scrapes. A stream the client abandons is in neither the duration nor the errors
of `llm.py`. A record of the log buffer takes its time before the lock, so "most recent
first" may fail between threads, and the counts per level are a second snapshot. On the
page, `busyAction` is one slot for all buttons: another action ends the "busy" of a question
under way, a second question may be asked, and the answer that comes last stays; an answer
may also arrive after signing out; and a stream that breaks off without a last event leaves
the button disabled until another action is run.

## 6. Plan

Done: the six parts of the first plan but for the web client's page and the log buffer. What
is left, in this order:

1. `WebClient`: the answer panel of `App.tsx` against late answers of questions, polls and
   streams (the observations above), composed with `ReviewedStream`.
2. The life of `DocumentLife` for the legacy listing too: which step of it bulk deletion by
   legacy ids skips, as a weaker abstract specification that `KnowledgeBase` then implements
   without the assumption of `LifeIsFollowed`.
3. A reviewer who gains access while reviews are under way (`Accounts` lets access grow):
   `CanReview` as a variable that only grows, and the proofs of the review for it.
