# Verification of the course assistant's backend

This directory holds TLA+ models of the parts of the system that are hard to
test: the document pipeline (teachers, workers and readers on the rows and files
of a document), the questions of students (chat requests, the agents that answer
them, conversations and token quota), the reading of documents piece by piece,
who may see what, and what teachers and admins change and count. TLC checks the
models on small instances, and TLAPS checks proofs of the properties that
readers rely on for instances of every size.

All paths in this file are relative to `src/`. `app/` stands for `backend/app/`
and `worker/` for `backend/worker/`.

1. [The system](#1-the-system)
2. [The modules](#2-the-modules)
3. [What the runs check](#3-what-the-runs-check)
4. [What is proved](#4-what-is-proved)
5. [Where the code and its documentation disagree](#5-where-the-code-and-its-documentation-disagree)
6. [What is not modelled](#6-what-is-not-modelled)
7. [Plan](#7-plan)

## 1. The system

A FastAPI backend serves students and teachers, one or more worker processes
read uploaded PDFs, and PostgreSQL is all they share. Nothing is kept in memory
between requests except the local variables of a request or of a worker's job.
Concurrency is therefore the interleaving of transactions, and what breaks is
what a process has read in one transaction and believes in a later one.

### Components

| Component | State | Operations | Correct when |
|---|---|---|---|
| Document versions (`app/services/document_versions.py`, `routers/document_versions.py`, `structured_upload.py`) | `documents`: lifecycle, generation, current revision; `document_revisions`; `ingestion_jobs` | upload or replace, publish, archive, restore, delete | one revision is read; a snapshot that was seen does not change; an old one does not come back |
| Teacher edits (`document_edits.py`) | drafts and their index jobs; blocks, native texts, reviews | edit a block in place or in a copy, exclude, confirm or ignore a review, read again | an edit never reaches a published revision nor a text it was not made for; each draft that waits has a job |
| Ingestion queue and parse jobs (`worker/queue.py`, `structured_ingest.py`) | lock token, lease and attempts of a job; the claim in the worker's memory | claim, read, store, fail, give back | a stale result writes nothing; a result is stored once; a job ends |
| Index jobs (`worker/structured_index.py`) | as above, and the blocks it has read | snapshot, cut into chunks, embed, store and publish, retry | the index covers the stored blocks; publication accepts it |
| Worker loop, load gates (`worker/main.py`, `gpu_gate.py`) | a window of load samples, open or closed; clients | tick, observe, reload | ingestion neither starves nor disturbs students |
| Files, deletion and cleanup (`document_cleanup.py`, `scripts/cleanup_document_snapshots.py`, `document_storage.py`) | staged objects, cleanup jobs, files | stage, link, commit, discard, mark deleted, clean up, sweep | no file without a row, no row without its file |
| Research runs (`app/services/research_runs.py`) | `agent_runs`, `messages`, `message_citations` | begin, cancel, close, finish a run; load the history | one run per request id, one active per session, an answer once and after its question |
| Token quota (`research_usage.py`, `quota_service.py`, `billing.py`) | `usage_reservations`, `model_call_usage`, `usage_stats`, `quota_grants` | reserve, settle, refill | the limit holds with calls in flight; the books agree |
| Chat requests (`routers/chat.py`, `research_service.py`) | one asyncio task per request | gates, run, answer, resend, disconnect | every run is closed, every call is recorded |
| Runners (`app/agent/runner.py`, `search.py`, `direct.py`) | messages, rounds, deadlines of one turn | call the model, call tools, correct, end | a turn ends with an answer within its budgets that cites what was read |
| Course tools, evidence, reading (`app/agent/course_tools.py`, `tools.py`, `evidence.py`, `document_reader.py`) | trace, budgets, evidence list, handles and cursors | open, search, read, look at a picture | budgets hold; an ID names one source; reading in pieces loses nothing |
| Access rights (`document_access.py`, `auth.py`, `routers/student.py`, `teacher.py`, `admin.py`) | roles, memberships, classes, labs, exam mode | join, leave, promote, transfer, lock, delete | nothing is read, answered or stored after access ended |
| Accounts (`auth.py`, `routers/auth.py`, `admin.py`) | users | sign up, log in, passwords, roles, import | one account per name; what an admin decided stays |
| Settings and model servers (`model_routing.py`, `model_servers.py`, `research_service.py`) | `system_config` | save, probe, pick an endpoint, limits | saves keep to their keys; a run keeps time for its answer |
| Rules and presets (`rule_service.py`, `skill_preset_service.py`) | `rules`, `skill_presets` | save, apply, edit | a prompt holds what was saved for its class, lab and student |
| Sessions and titles (`session_service.py`, `session_titles.py`) | sessions | generate, rename, hide | the title is the student's, or about the first exchange |
| Teaching reports (`teaching_reports.py`, `frontend/.../TeachingReport.jsx`) | one row per report; a page that polls | start, fill, expire, show | a report ends; one runs at a time; the latest is shown |
| Analytics (`analytics_service.py`, `citation_report.py`, `teaching_reports.py`) | the rows above | count | the reports agree with each other and with the runs |
| PDF readers, retrieval, page images, scripts, monitoring, most of the frontend | none, or data | | outside the models, see section 6 |

### How the components interact

- A teacher's request and a worker never call each other. They meet on the
  rows of a document. Each of them names the `generation` it saw: a change
  locks the document, compares, and raises the generation, and whoever comes
  second is refused. Workers also compare the lock token, the lease and the
  states of job and revision (`_locked`, `_snapshot`, `_commit`).
- A parse job turns into the index job of the same revision in the transaction
  that stores the reading, and the index job publishes in a savepoint of the
  transaction that stores the index.
- A chat request creates a run and hands it to a runner. The runner's model
  calls go through `ResearchUsage` (reserve, call, settle), its tools through
  `_RunningTools`, which stops when the run was closed by somebody else. The
  request streams from a task of its own, which is cancelled when the student
  closes the stream.
- Runs of all sessions of a student meet on the quota. Requests of one session
  meet on the run row (`uq_agent_run_active_session`,
  `uq_agent_run_user_request`).

### What is hard about it

- A worker reads and embeds for minutes outside any transaction; teachers edit,
  publish, archive and delete meanwhile; leases run out under it; it dies.
- An edit may go into the very draft whose index job is about to be claimed.
- Publication happens from both sides and in any order of the drafts.
- A chat task can be cancelled at every `await`, also while it closes its run,
  and its process can die; a run may be closed as stale while its task works.
- Calls are settled before or after their run is closed, and on another day
  than they were reserved.
- Reads that precede the lock or the write: `last_answer_asked`, the quota gate
  of the request, the usage that a refill grants, the rule that a save looks
  for, the name of a new account, the title that a model writes for 20 seconds,
  the row a password is stored in after two hashes.
- Files are written outside the transaction that owns them.
- Rights and switches change while an answer waits for its models.
- The model may reply anything, at any turn, with several calls in one reply.
- A draft changes under a reader who continues at a cursor; a source is read
  again under the teacher's edits; documents are withdrawn under the history of
  a conversation.
- Transactions take the same row locks in different orders.

Each of these is listed, at its line, under `hazards` in `PROJECT.json`, with
the properties that would notice it going wrong.

## 2. The modules

    DocumentVersions    rows of a document, the teacher's transactions
      |-- DocumentEdits       edits and new readings
      |-- IngestionWorker     claims, parse jobs, index jobs, crashes
      |
    Ingestion           all of them together; properties and fairness
      |-- PublishedDocument   abstract: what readers are promised  (INSTANCE)
      |-- MCIngestion         symmetry for TLC
      |-- IngestionProofs

    ResearchRuns        runs, messages, citations
      |-- ResearchUsage       reservations, daily quota, refill
            |-- Research      the tasks of chat requests; properties, fairness
                  |-- Conversation   abstract: what the chat promises  (INSTANCE)
                  |-- MCResearch     symmetry for TLC
                  |-- ResearchProofs -> SumProofs

The other modules look at one part of the system each, with the rest of it
reduced to what may happen around it. Four more `MC` modules put them together for
TLC: each instantiates some of them with the values of its instances, and the
variable `part` says which machine moves. The others stay in an initial state, so
that a run explores the machines one after another and not their product, and a
property reads "if this machine moves, then what its module states". Fairness is
asked of the machine that moves.

| Module | Part of the system | Checked by |
|---|---|---|
| `StagedFiles` | ledger, files and rows of one document: uploads, parse attempts, cleanup, sweep | `MCDocuments`, `MCPlatform` |
| `CarryForward` | blocks, native texts, edits, reviews; what a new reading does to them | `MCDocuments`, itself |
| `Chunking` | how text becomes chunks, and the check of them before a publication | `MCDocuments` |
| `Reading` | open, read, grep; cursors and handles | `MCDocuments` |
| `RowLocks` | the row locks of twenty-three transactions, in the order they take them | `MCDocuments` |
| `Course` | class, lab, roles, membership, exam mode around an answer under way | `MCCourse` |
| `Rules` | rules of classes, labs and students, and presets | `MCCourse` |
| `Accounts` | sign-up, login, passwords, import, what an admin decides | `MCCourse` |
| `ChatHistory` | what a new question is told of the conversation | `MCCourse` |
| `ResearchLoop` | one run of the research agent against a model that replies anything | `MCCourse`, `MCAnswers` |
| `SearchMode` | one run of the search and of the direct runner | `MCCourse`, `MCAnswers` |
| `Settings` | saved settings, routing, the admin's page, limits of runs | `MCPlatform` |
| `Analytics` | four reports as operators over the rows of conversations | `MCPlatform` |
| `Reports` | a teaching report, its task and the page that polls | `MCPlatform` |
| `WorkerLoop` | the worker's tick, load gates and settings | `MCPlatform` |
| `Titles` | the title of a conversation | `MCPlatform` |

### The document pipeline

`document`, `revision` and `job` are the rows of one document. Documents share
nothing but the queue, so one is enough: a worker that is busy with another
document is a worker that takes no step here.

- *Generations.* A teacher's transaction starts with `_cas`, which locks the
  document row. So a transaction is one step, and a request that names an old
  generation changes nothing and is no step. Worker transactions are one step
  too: their re-checks and their writes hold the row locks together.
- *Content.* `revision[r].content` numbers the states of the stored blocks, and
  `index` is the number the chunks were cut from. `validate_publishable`, which
  compares blocks, chunks, hashes and page states, becomes "the draft has a
  reading and an index" (`Publishable`); that the index belongs to the stored
  content is then a property to be checked and not an assumption.
- *Tokens.* `owner` is the worker of the last claim. A worker has one claim at a
  time, so the job's token is the worker's own exactly when it is the last to
  have claimed it since its claim began.
- *Claims.* The generation that a claim carries is read by a second statement of
  the claiming transaction and taken with it here. A worker asks for parse jobs
  first, but in a transaction of its own, so either kind may be claimed at any
  time. `SKIP LOCKED` makes a claim pass over a row another transaction holds;
  that order is left out, and only choosing a later row is lost by it.
- *Edits.* `edit_block`, `set_excluded` and a confirmed review all go through
  `_new_edit_revision` or edit the waiting draft in place, so they are one
  operation each.
- *Exceptions.* An exception from within an exception handler leaves the rows
  as they were and the claim lost, like `Crash`.
- *The reading.* `_stage` and MinerU are one choice: read, read with a missing
  page, rejected, broken, or stopped before the lease ends.

### The research runs

Each method of `ResearchRuns` and `ResearchUsage` is a transaction that locks
its user or its run first, hence one step; `refill` takes no lock and is two
steps. `Research` puts them in the order of `chat_stream`,
`run_persisted_research`, the runners' `wait_for` and `wrap_model`.

- *Ids.* A client makes a new id for each message. The same id with another
  payload is refused without a change, so an id belongs to a session. Ids are
  interchangeable, and a session's are numbered in the order of their first use.
- *The runner* is left open: after a run has begun it may call the model, fail,
  answer or ask back at any time, one model call at a time. So what is checked
  here holds for all three runners.
- *Cancellation.* `Disconnect` cancels a task at its open `await`. What is under
  `asyncio.shield` goes on as a step of its own (`detached`), what is not is
  rolled back. A cancellation that meets a commit either finds it done or not;
  both are behaviours of the model. `begin_run` lies outside the `try` that closes
  a run: when its commit has been done as the cancellation arrives, the run stays
  at work without a task (`CutBegin`).
- *lost* remembers the requests whose task ended without closing its run: by a
  crash, or because it was cancelled while it began or closed the run.
- *Duplicates* wait for the end of their run and give up after a deadline. The
  time is left out: they may return at any time.
- *Time.* `aged` says that a run is older than `stale_after`, at least twice the
  total time a run may take. A run that ages under a working task is a fault.

### Files, chunks and edits

- *Files* (`StagedFiles`). A key belongs to one writing attempt, so keys and
  attempts are one set. A request is cut wherever the code leaves a transaction
  or touches the disk: ledger entry, write, link, commit, discard. A commit whose
  answer is lost, a disk that fails, a crash between any two steps, a lease that
  passes and a cleanup that removes half of its files are actions of their own.
- *Chunks* (`Chunking`). A character is its width in UTF-8 and whether it is a
  space; each step cuts one slice, so the loop of `split_block` is the behaviour
  and the two budgets are chosen with the text in the initial state.
- *Edits* (`CarryForward`). A revision holds its blocks and its open reviews. A
  block is its native text (what the reader found), the text it has now, and the
  columns from which `native_text` tells later what the native text was. Whether
  the reader fills `source_text` depends on the kind of the block (`Quoted`).

### Answers

- *The research loop* (`ResearchLoop`) follows `ResearchRunner.run` turn by turn:
  the model's reply is any text (empty, markup, `DONE`, with any IDs) with any
  calls, each of which may fail or not be readable. The flags that make a turn be
  sent once are variables. `Room` counts the turns until the input is too long,
  the two deadlines may pass at any call.
- *Search and direct* (`SearchMode`): hits with scores, reads that return in any
  order and number their pages as they return, the greedy prompt, the two replies.
- *Reading* is deterministic: `Answered` maps a request to an answer, and the
  steps are the reader's (ask, continue, send a cursor into another request) and
  the teacher's edits of a draft. What a whole reading must return is defined
  from the text alone and compared with what the pieces add up to.
- *History* (`ChatHistory`). Each answer remembers all that it may repeat: what its
  run had read and been told, whether it cites that or not, as nothing forces the
  model to cite. So the property can look through any number of turns, while the
  code may only look at citations, the snapshots of the runs and the scope of the
  moment.

### People and settings

- Every endpoint of `Course` is one step, an answer is many. `MayRead` is
  defined from the rows, while the guards of the steps are those of the
  endpoints and of `ResearchTools`. A prompt has the history of the conversation in
  every mode: whether earlier answers may hold course content is in `chat.holds`,
  and whether the prompt repeats it in `run.told`.
- In `Accounts`, `Rules`, `Settings` and `Titles` a request is two or three
  steps: what it reads, what it waits for (a hash, a probe, a model) and what it
  writes. SQLAlchemy writes only the columns that differ from what it loaded, and
  so do these steps. A class may be given to another teacher in between
  (`Rules.TransferClass`), and a URL of a model server may be saved that is none
  (`WebUrls` are those with an http(s) scheme and a host).
- `RowLocks` has a transaction as the sequence of its locks, with the modes of
  PostgreSQL (update, no-key update, key share) and a foreign key as a key share
  of the row it names. It is read off the code by hand; its value is that all
  orders are in one place.
- `Analytics` has no process of its own. Its actions make the rows (questions,
  answers, ratings, departures) and its properties compare the reports.

### Actions and code

`PROJECT.json` maps every definition to its lines. In short: an action bears
the name of the function it stands for where it has one (`PublishRevision`,
`MarkProcessing`, `CommitParsed`, `Snapshot`, `Retry`, `MarkTerminal`,
`Reserve`, `Settle`...), and a name of what happens where one function ends in
several ways (`IndexAndPublish` and `IndexForReview` for the ends of `_commit`,
`DropParsed` for a `StaleClaim`). Operators marked `Mutant:` are wrong versions
of the definition below them. They are used only to test that a property
notices them.

## 3. What the runs check

| Run | Instance | Properties |
|---|---|---|
| `ingestion` | 2 workers, 2 revisions, 1 fault | `TypeOK`, `OnePublished`, `NoSilentDraft`, `IndexCoversContent`, `SnapshotsFrozen`, `StaleResultsWriteNothing`, `ResultsAreStoredOnce`, `ReadersPromise` |
| `publication` | 1 worker, 3 revisions, teachers act up to generation 9 | `ReadersPromise` |
| `settling` | 2 workers, 2 revisions, 1 fault, fairness | `JobsSettle` |
| `research` | 1 session, 2 requests, 2 tasks, 1 call, 2 faults | `TypeOK`, `SettledMeansSettled`, `LabelsNameOneSource`, `ChatPromise` |
| `quota` | 2 sessions, 2 tasks, 2 calls, 2 days, 1 teacher | `QuotaHeld`, `BooksBalance` |
| `documents` | files, edits, chunks, reading and locks (`MCDocuments`) | `FilesMatchRows`, `TextsFitTheirBlocks`, `ChunksServe`, `ReadingsTellWhatIsLeft`, `LocksFlow`, `StepsLoseNothing` |
| `course` | rights, rules, accounts, history, the research loop and a search (`MCCourse`) | `ExamAnswersAddNothing`, `RulesAreTheirTeachers`, `AccountsAreDecided`, `HistoryIsWholeAndReadable`, `AnswersStandOnEvidence`, `SearchKeepsItsPages`, `AnswersNeedAccess`, `StepsKeepTheirWord` |
| `desk` | settings, figures and reports (`MCPlatform`) | `SettingsHold`, `StatusAgreesWithUse`, `FiguresAgree`, `ReportsExplain` |
| `upkeep` | files of a deleted document, worker loop, reports, titles, fairness (`MCPlatform`) | `GatesAndTitlesHold`, `StepsKeepTheirWord`, `WorkArrives`, `WaitsEnd` |
| `run_ends` | a request, the research loop and the search, fairness (`MCAnswers`) | `RunsEnd`, `RunnersEnd` |
| `call_settled`, `lost_review` | the smallest instance that shows it | one sentence of the documentation each, violated (section 5) |

Every part of a property of the `MC` modules, types apart, has a mutant of its own in
`PROJECT.json`: a wrong version of one definition with which TLC finds the
property violated.

What they show:

- **`OnePublished`, `ReadersPromise`.** In whatever order the worker and the
  teachers publish, students read one revision, a replaced one never returns,
  an archived document does not change and a deleted one stays deleted.
  `ReadersPromise` is the refinement of `PublishedDocument`.
- **`SnapshotsFrozen`.** What students saw is never written again.
- **`IndexCoversContent`.** Search finds what the page shows. It holds because
  every change raises the generation and `_commit` compares it; the embedding
  itself runs on blocks that may be old.
- **`NoSilentDraft`.** A draft that waits always has a job that goes on, or one
  that has failed visibly.
- **`StaleResultsWriteNothing`, `ResultsAreStoredOnce`.** A worker that has lost
  its claim leaves every row alone; one that saw an old generation leaves the
  document and its revisions alone (it gives the job back); two workers on one
  job never both store a result.
- **`JobsSettle`.** Without any teacher, every job ends.
- **`ChatPromise`.** A message is stored once for each request id, a session
  works on one question at a time, an answer comes at most once and follows its
  own question, also when a run was closed as stale under a working task. It is
  the refinement of `Conversation`.
- **`LabelsNameOneSource`.** A citation label of a session never names two
  sources, although labels are numbered from the citations only.
- **`SettledMeansSettled`, `QuotaHeld`, `BooksBalance`.** Whichever of the close
  of a run and the settlement of its last call comes last sets the settlement;
  calls in flight are counted; usage goes to the day of the reservation and an
  answer carries the cost of its run's calls.
- **`RunsEnd`.** A run ends, however its calls go and whenever the student
  leaves, unless it is `lost`.

What the `MC` modules say of their machines:

- **`FilesMatchRows`, `WorkArrives`** (files). A file that a row of a living
  document owns exists and is whole, nothing lies on disk that neither a row nor
  the ledger knows, and a deleted document ends without rows, ledger entries and
  files, however writers, sweeps and cleanups are cut.
- **`TextsFitTheirBlocks`, `StepsLoseNothing`.** A teacher's text stands over the
  native text it was written over; a new reading of a file carries each change or
  makes a review of it, and each answer of a reader goes on from a later place.
- **`ChunksServe`.** Slices fit the hard limit, fill their target, cover the text;
  publication accepts what the worker stored; an excluded block is not found.
- **`ReadingsTellWhatIsLeft`.** An answer without a cursor is the end of a
  complete reading; a read keeps to its budget; a search names each document that
  has matches it does not show.
- **`LocksFlow`.** Of twenty-three transactions only the named ones can close a
  circle of waits (an edit of a waiting draft or a review among those of the
  documents, a purge or a question over a lost run among those of the chats; the
  first two can occur, see the hazards), and claims and sweeps wait for nobody.
- **`ExamAnswersAddNothing`, `AnswersNeedAccess`.** Course content reaches an
  answer only while the asker may read it; an answer is stored only while its
  owner may still ask there. An answer taken in exam mode adds no course content
  to its conversation. It may repeat what is there already, because the direct
  prompt has the history in it; a conversation that was always in exam mode holds
  none.
- **`RulesAreTheirTeachers`, `AccountsAreDecided`, `StepsKeepTheirWord`.** Rules
  hold what was saved for their target, by somebody who could save there when the
  save was asked for (not necessarily its teacher of today); a name has one account and what an admin
  decided stays, whatever else is saved at the same time; an import saves all of
  its rows or none.
- **`HistoryIsWholeAndReadable`, `AnswersStandOnEvidence`.** A prompt repeats whole
  turns. Whatever it cites is still readable, and so is all else it may repeat, but
  for what an answer with other citations passed on without naming it (section 5);
  a run keeps to its budgets and an
  answer cites what was read, or earlier sources.
- **`SettingsHold`, `StatusAgreesWithUse`.** A save touches its keys; a run keeps
  time for its answer; the page calls off what a chat does without, and what has a
  URL that cannot be asked.
- **`FiguresAgree`, `ReportsExplain`.** Four reports count the same answers; a
  finished report has its text or the reason why it has none.
- **`GatesAndTitlesHold`, `WorkArrives`, `WaitsEnd`** (worker, titles, pages). The
  gates follow their window and keep between the watermarks; jobs are run and
  settings arrive when the load stays low; no page waits for ever.
- **`SearchKeepsItsPages`.** The prompt of a search holds no page twice and no more
  than its characters, leaves out only pages that do not fit beside those before
  them, and holds the best page if that one fits; the answer cites pages that were
  read, or earlier sources.
- **`RunnersEnd`.** The loops end whatever the model replies.

### Bounds

- *Workers:* 2. Two are enough for one to take over what another still works
  on. A third one would have to take over from the taker, which is the same
  relation again.
- *Revisions:* 2 with two workers, 3 with one. Two drafts that compete need two;
  three are needed for a draft that replaces a revision that had replaced
  another one, and for an old draft that comes late.
- *Generations* (`MaxGeneration`): bounds only what teachers may still begin;
  workers and deletion are never cut off. At 5, with two workers and a fault, a
  document is uploaded to, edited, read again and archived while a job is under
  way. At 9, with one worker and no fault, teachers still act after two
  revisions have taken each other's place (one reading that is published
  costs three generations), so they could publish a superseded one again.
- *Edits:* 2 states of a draft's content, so that an index may be out of date.
- *Attempts:* 1 or 2 in place of 3. What matters is a claim below the limit, at
  it and over it.
- *Faults:* 1 or 2 crashes or overrun leases. With fairness every one of them
  costs a whole takeover.
- *Research:* 2 tasks (a request and its resend, or two requests), 2 ids in a
  session, 2 pieces of evidence, so that an answer can cite the second without
  the first. Two calls of an estimated 2 tokens against a quota of 3 fit one
  after another but not at once, bills of 1 and 3 lie below and above the
  estimate, and two days are enough for a settlement after midnight.
- *One machine at a time* (`MC` modules): two writers of each kind for the files,
  so that a file can be shared and left; texts of up to 6 characters over three
  kinds of characters; readings of three blocks; one block at a time for the edits;
  three transactions at once for
  the locks; two requests at once for accounts, rules, titles and settings; two
  pieces of evidence, two calls in one reply and three tool calls for the research
  loop; three pages for the search. The comments of the modules name each bound.
- *Symmetry:* workers and tasks, sessions and teachers, transactions and parsers
  are interchangeable. The symmetry is used for safety only; the runs with
  fairness do without it.

`CHECK_DEADLOCK FALSE` is set because a system in which nobody asks, uploads or
edits any more may stop, and because the bounds stop it.

### Fairness

- *Workers.* A step of a job ends by its own timeouts (page timeout, read budget,
  HTTP timeouts), so parse and index steps of a worker are weakly fair, and so is
  claiming by some worker. `run_forever` catches nothing: an error of a tick ends
  the process, and the container starts it again (`restart: unless-stopped`), which
  `WorkerLoop` models. `settling` assumes that the load gates open: while students
  keep them closed no job moves, and that is intended.
- *Time.* `not_before` comes, and the lease of a worker that is gone runs out.
  The lease of a live worker need not.
- *Tasks.* The steps of a chat task are weakly fair: model calls, tools and the
  whole run have timeouts.
- *The loops* (`ResearchLoop`, `SearchMode`). A step is weakly fair for the same
  reason; the clock is not obliged to move.
- *Files.* A writer that has begun goes on or dies, leases pass, the worker sweeps
  and the cleanup script is scheduled, and no disk fails for ever.
- *Reports and titles.* A request is answered or fails, time passes, and an open
  page keeps polling (strongly fair, since it polls only between answers).
- *Nobody else.* Teachers, students, admins, crashes and midnight are never
  obliged.

## 4. What is proved

Eight modules hold the proofs. Each extends the module whose properties it
proves, and what TLC checks on an instance of two workers, two uploads or two
requests is proved there for any number of them. Every safety property of the runs
is proved but those that [Only model-checked](#only-model-checked) names.

    SumProofs         sums over finite sets, folds over sequences, ordered lists
    IngestionProofs   documents and readers; claims, indexes, drafts
    ResearchProofs    runs, labels, talk, books  (uses SumProofs)
    StagedProofs      files      \
    LockProofs        row locks  -> DocumentsProofs   MCDocuments, with edits, chunks, readers
    CourseProofs      MCCourse: rights, rules, accounts, history, research loop, search
    PlatformProofs    MCPlatform: settings, reports, worker loop, titles  (uses StagedProofs)

| Module | Theorem | Statement | Run |
|---|---|---|---|
| `IngestionProofs` | `TypeCorrect` | `Spec => []TypeOK` | `ingestion` |
| | `OneRevisionIsRead` | `Spec => []OnePublished` | `ingestion` |
| | `SnapshotsNeverChange` | `Spec => SnapshotsFrozen` | `ingestion` |
| | `PipelineKeepsThePromise` | `Spec => ReadersPromise` | `ingestion`, `publication` |
| | `OnlyHeldClaimsWrite` | `Spec => StaleResultsWriteNothing` | `ingestion` |
| | `StoredOnce` | `Spec => ResultsAreStoredOnce` | `ingestion` |
| | `IndexIsCurrent` | `Spec => []IndexCoversContent` | `ingestion` |
| | `DraftsAreServed` | `Spec => []NoSilentDraft` | `ingestion` |
| `ResearchProofs` | `TypeCorrect` | `Spec => []TypeOK` | `research` |
| | `RunsAreSettled` | `Spec => []SettledMeansSettled` | `research` |
| | `LabelsAreUnique` | `Spec => []LabelsNameOneSource` | `research` |
| | `ChatIsAsPromised` | `Spec => ChatPromise` | `research` |
| | `QuotaIsHeld` | `Spec => []QuotaHeld` | `quota` |
| | `BooksAreBalanced` | `Spec => []BooksBalance` | `quota` |
| `StagedProofs` | `RowsHaveFiles` | `Spec => [](overruns = 0 => OwnedFilesExist /\ NoLostFiles)` | |
| `LockProofs` | `DocumentCirclesHoldAnEdit`, `ChatCirclesHoldAPurge`, `ClaimsNeverWaitForAnyone` | what every circle of waits has in it | |
| `DocumentsProofs` | `FilesAreKept` | `Spec => []FilesMatchRows` | `documents` |
| | `EditsAreNoGuess` | `Spec => []TextsFitTheirBlocks` | `documents` |
| | `CirclesHoldTheNamed` | `Spec => []LocksFlow` | `documents` |
| | `ChunksAreServed` | `Spec => []ChunksServe` | `documents` |
| | `NothingIsLost` | `Spec => StepsLoseNothing` | `documents` |
| `CourseProofs` | `ExamsAddNothing` | `Spec => []ExamAnswersAddNothing` | `course` |
| | `AccessIsKept` | `Spec => AnswersNeedAccess` | `course` |
| | `RulesAreKept` | `Spec => []RulesAreTheirTeachers` | `course` |
| | `AccountsAreKept` | `Spec => []AccountsAreDecided` | `course` |
| | `AnswersHaveSources` | `Spec => []AnswersStandOnEvidence` | `course` |
| | `HistoryIsKept` | `Spec => []HistoryIsWholeAndReadable` | `course` |
| | `SearchIsKept` | `Spec => []SearchKeepsItsPages` | `course` |
| | `WordsAreKept` | `Spec => StepsKeepTheirWord` | `course` |
| `PlatformProofs` | `SettingsAreSound` | `Spec => []SettingsHold` | `desk` |
| | `PageTellsOff` | `Spec => StatusAgreesWithUse` | `desk` |
| | `ReportsAreExplained` | `Spec => []ReportsExplain` | `desk` |
| | `GatesDecideTitlesFit` | `Spec => []GatesAndTitlesHold` | `upkeep` |
| | `GatesAndRenamesStand` | `Spec => StepsKeepTheirWord` | `upkeep` |

The assumptions are the named ones of the modules: what means nobody or nothing
(`NoWorker`, `None`, `NoOne`, `Nothing`, `"none"`) is not one of those it stands
apart from, bounds are natural numbers, blocks and pages are numbered in order, a run has finitely many pieces to find, a
file has a page, and a page that is read has a text. TLC evaluates them on every run.
The run `upkeep` checks `FairSpec`, which is `Spec` with fairness, so what is proved
of `Spec` holds of it.

### Documents and their readers

`TypeOK` is not inductive: a worker could hold the claim of revision 0 and then
write to a row that does not exist. `TypeInv` adds `ClaimsARevision`, a worker
that is not idle holds a claim of a revision.

The other three go by one lemma, `EveryStepForReaders`: from a state of
`TypeInv`, each step of the pipeline is one of

- `GoesLive(r)`: the draft `r` becomes the current revision of an active
  document, and the former current one is superseded;
- `DraftChanges(r)`: a row that is free or a draft is written and stays a draft;
- `NoDraftChanges`: the revisions stay as they are, and only the life cycle of
  the document may change.

Preserving `OnePublished`, freezing the snapshots and mapping to a step of
`PublishedDocument` are then three short arguments about these three kinds of
step, in place of three arguments about some thirty actions.
`ReadersInv == TypeInv /\ OnePublished` is the inductive invariant:
`OnePublished` is needed to know that the revision that is superseded was the
only published one, so that no row is retired that readers did not see. The
refinement needs it too, since a revision goes live only from a draft and so is
neither current nor retired.

### Claims, indexes and drafts

- *A claim that is lost writes nothing.* Every handler of a worker re-reads the
  job under its lock and compares token and status; `ChecksItsClaim` collects
  that, so the two action properties follow from types alone. That a result is
  stored once also needs that a row never goes back: `RowGoesOn` is what a
  step may make of a row: it inserts it, leaves its processing alone, reads a
  waiting draft, or indexes one that is read.
- *The index is current.* The index is written minutes after the blocks were
  read, by a worker that only compares the generation. `IndexInv` says why that is
  enough: no claim names a generation the document has not reached yet
  (`ClaimsSawThePast`), and a worker that embeds at the present generation holds
  the present content (`EmbedsWhatItReads`); whoever changes the content raises
  the generation. Neither half is inductive without the other.
- *No draft is silent.* `DraftInv` adds `HoldsItsKind`: the job a worker still
  holds has the kind it claimed. Without it a parse worker could end an index
  job and leave its draft without one. `DraftsServed` is shown for each action that
  ends or hands over a job.

### Runs, labels, the talk and the books

- `RunsInv` adds to the types that a finished run is settled and that a session
  has one run at work (`OneActive`).
- *Labels.* `LabelsBelow`: while a run works, the labels of its session lie
  below its first number. It rests on `OneActive`, since a second run would number
  from the same end, and on `WorkersHaveRuns`. So `LabelsInv` is stable when a
  run is closed under its task: the task may go on numbering, but it can no longer
  finish.
- *The refinement of* `Conversation`. `WorksOnLastQuestion`, the last message of
  a session at work is the question it works on, is what makes an answer an
  answer to the last question. Each transaction (`StepIsTransaction` gathers the
  task's steps into the dozen transactions of `ResearchRuns` and `ResearchUsage`)
  asks, answers, ends a run or leaves the talk alone.
- *The quota and the books* are sums over the calls. Their laws (a sum takes its
  elements one by one, two sums agree when the numbers do, a sum grows by what one
  number grows) are proved in `SumProofs` by an induction over finite sets: a
  law that fails, fails for a smallest set (`SmallestSubset`, from the
  well-foundedness of strict inclusion on finite sets). The induction theorems of
  the library cannot be used for it, because they take the law as an operator.
  `QuotaHeld` is inductive over the types: each transaction moves used, held and
  overrun by one call (`ReserveSums`, `SettleSums`). `BooksInv` adds that the
  run of a stored answer has finished (`AnswersFinished`): its calls are settled
  and no new one is reserved, so what was billed to the answer stays what its run
  cost.

### Files, edits and locks

- *Files.* `KeyInv` says of each key where it is known: in the ledger from the
  staging of its file until a row owns it or the file is gone, and never in
  both. `UploadInv` and `ParseInv` say the same of a writer that is at work (an
  upload that has written its file has its ledger entry; a worker that holds its
  claim and has checked it has its file), `DeletedInv` of a deleted document (the
  cleanup has the keys of all rows whose files are still there). All of this holds
  *until a lease is overrun*: the commit of an upload does not look at its lease
  (section 5), so `FilesMatchRows` is stated, checked and proved for
  `overruns = 0`, and types and the count of the overruns for every behaviour.
- *Edits.* `Sound` describes a row of a block: what its columns tell of the native
  text is either nothing or that native text, and a text of a teacher stands over
  the native text it was written over. Every change (`ChangesAreSound`) and every
  carrying forward (`CarriedIsSound`) yields such a row. `ReadingLosesNothing`
  shows the first half of `StepsLoseNothing`: a new reading keeps each change or
  makes it a review.
- *Handles.* `HandleOk`: a handle is the one of the first request at some place of its
  reading (`Goes`), so a strange request with its cursor is refused
  (`StrayIsRefused`), and what it answers begins there (`Going`). `GoesOn` is what every
  answer keeps: its cursor is at a later place. For a page that follows the fold over
  its blocks (`PageWalk`: it exists by `FoldExists`), for a search the order of what
  was found: the match that found no room lies behind at least one that did.
- *Locks.* `LockInv`: a transaction holds a prefix of one way through its method,
  and locks that conflict are held by one transaction at a time. That no circle can
  arise is not shown by searching for cycles. Whoever is part of one holds a lock
  and asks for another; a transaction of the documents that does so, but for an
  edit of a waiting draft and a review, has the document (`DocumentFirst`), and two
  cannot have it (`OneHoldsTheDocument`). Among the chats' it is an order:
  reservations and settlements hold the user and wait for none, `begin` waits for
  those only, and two that end a run meet on that run alone
  (`ChatsMakeNoCircle`). The pairs that `LocksFlow` names are those that break
  this order.

### Chunks

A text is any sequence of characters, each with a width of its own, and the target
and the hard limit are any two numbers of the instance. A slice is cut in one step,
and `Sliced` says of the slices so far what is true of each of them alone: where it
begins, that it is within its limit, and that with the slice before it no room is
left in the target for one character more (`EndAt` is what `split_block` looks for
to decide that: the last place that fits, then the last space behind which enough
is filled). Bytes are sums over places, so every slice is a statement about sums of
adjacent intervals. `ChunkInv` adds that the chunks that are ready to be stored are
the slices of the whole content; publication accepts them because the last slice
ends where the text does.

### Rights, rules and accounts

- *Exams and access.* A run that was taken in exam mode finds nothing and stands at
  no tool (`Direct`), and what it is told comes from the conversation (`Fits`). That a
  conversation with course content has had a question outside of exam mode follows
  a question through its places: found is only what such a run finds, and told is
  only what was stored. Access needs no invariant beyond the types:
  the steps that find, store and remove name the right in their guards, and the
  proof shows that no other step does any of it, in each of some thirty
  endpoints.
- *Rules.* A save reads the row it will write, waits, and writes. `SaveIsOpen`
  keeps what the request knew when it was found: those who could save for its target
  then (a student who changes classes, a class that changes its teacher or a preset
  that is edited in between does not change that), and the row it found is still there, since rules are changed and
  never deleted. `Stands` ties the text that stands to a save that was made there.
- *Accounts.* `TableOk` is the agreement of the table with what admins decided.
  `RequestOk` says of an open request that the row it loaded is still the row of
  that name, which holds because rows are added and never removed (`Grows`); of
  an import that its lines are those of the file. `Accounts` orders the accepted
  lines by counting those before them, and `EachHasItsPlace` shows that the k-th
  line exists and is unique, by counting. `WordsAreKept` rests on the same two
  invariants.

### The history of a conversation

The history is a fold over the loaded messages. The prover knows nothing of folds:
`SumProofs` shows that a fold walks, that is, has a sequence of values of which each
comes from the one before it (`FoldWalks`, by a longest prefix for which there is
one). `TurnsWalk` then goes along the walk: after each message the history is turns of
a question and the answer to it, with an open question at the end exactly if the
message was one, and it holds every answer that may be repeated. That needs
`WholeChat`: the messages of a session are numbered questions, each answer stands
right behind its own. This is an invariant of requests (`AsksOk`): at most one of them
works, its question is the last message, and what it was told and read, students could
read when its scope was taken, or an answer that cites others had passed it on
unnamed. `Honest` says of stored answers that one without citations tells no more
than its snapshot and those sources, of which there are only more as the
conversation goes on (`PassedGrows`).

### The search

`SearchInv` adds to the property what is read (`ReadsOk`: each candidate is read at
most once, and a text is as long as its page) and what may be cited
(`CitesPermitted`). The three arguments are:

- *The order of the pages.* A sorted sequence exists because the order is total
  (`ListExists`): two pages with one score and one rank still differ in where they
  were found, and that two hits are never found in one place is arithmetic. So the
  best page, if one is better than all others, comes first (`SortedPages`).
- *The candidates.* Neighbours are put behind the found pages and each page once, so
  the first place stays with the best page however many are cut off at `MaxPages`
  (`CandidatePages`).
- *The choice* is greedy. `ChosenSoFar` is the invariant of its loop: what is used is
  the total of what is chosen, that is within the limit, and a page that was left
  out had no text or did not fit beside those chosen *before* it. The first
  candidate therefore is in the prompt if it fits alone.

### Settings, reports, the worker and titles

- *Settings.* `SavedSettings`: what a request is about to save was valid when it began,
  and every value of the table was given by a save or is the first one; so a limit is
  always in its range and a save touches its own keys. `RunsKeepTime`: a run that works
  is within the time it was given, and searches no longer than it lasts
  (`LimitsFit`). That no run that works is closed as lost needs `LostRunsAreDead`,
  which holds while the limits are left alone: the age at which a run counts as lost
  is at least twice the total time, but of the limits of that moment (section 5).
- *Reports.* A task carries its result for a while before it is saved, so what makes a
  row explained (`Explained`) is claimed of results too. A page shows reports of its
  own student because every request remembers whom it is about and an answer that
  comes back to a page of somebody else is thrown away (`ReportPages`, `IsAbout`);
  rows keep their student and are never removed (`RowsStay`).
- *The worker.* `FollowsWindow`: a gate with a full window of loads beyond a watermark
  stands as they say, because the average of numbers above a mark is above it
  (`SumAtLeast`, `SumAtMost`). `LoopPrepared` follows the tick from gate to gate to the
  job.
- *Titles.* `TitlesInv` says what a request knows at each place: from the first answer
  on, whoever writes a title has that answer's question, and saw an empty title.
- *Files* are those of `StagedProofs`, whose theorems are instantiated.

### The research loop

The model may reply anything, so the invariant is about what the loop does with it.
`CountsInv` bounds turns, calls and pictures. `Numbered` says that the evidence
list names each source once and that its numbers, first number upwards, are those
of the list in some order: reading a source again moves it to the end of the list
and keeps its number, which is an argument about rotations of a sequence
(`Rotation`, `MovedToEnd`). `TextInv` follows the text: what is closed is what the
loop ended with, a correction is the offered text with its references repaired,
and a settled answer cites permitted numbers only and replaced no good answer.

### What the proofs changed in the models

Definitions were rewritten so that they can be reasoned about, with the same
states and steps: sums over calls, bytes, loads and pages and the lines of an import
by functions and by counting in place of folds and sorted sequences, the answers of
a reader by the places of a sorted list in place of recursion, the sorted pages
of a search by what a sorted sequence is (the prover has no definition of the library's
sorting), and the values of the instances in the `MC` modules as constants, so
that the theorems hold for all of them. The assumptions that the proofs need are named
in the modules they are about.

Proving also found what the models or their properties said wrongly:

- What stays in the teacher's chat history (`AuditKeeps`) holds across a change of the
  class's teacher too, and names the one endpoint that may remove a conversation.
- `FilesMatchRows` states under which condition it holds, where before only the
  instance (`MaxOverruns = 0`) did.
- In `ChatHistory` the answer from before the research runs told nothing, so nothing
  depended on leaving it out of a history. It may now repeat any source.
- The search is part of the run `course`, in which the machines only have to be safe, so
  that its invariant is stated and proved beside that of the research loop.

### Only model-checked

- *Liveness* (`JobsSettle`, `RunsEnd`, `RunnersEnd`, `WorkArrives`, `WaitsEnd`):
  fairness and `ENABLED` are out of the prover's reach.
- `ReadingsTellWhatIsLeft`: that the answers of a whole reading, joined, are the whole
  text. What one answer does is proved (above).
- `FiguresAgree`: four reports, each with its own sums over rows, filters and
  joins. The laws of sums in `SumProofs` would carry it, but each of its equalities is a
  partition of the rows of its own; it is checked on the two runs of each of four
  conversations.
- `EveryCallIsSettled` and `ReviewsOutlastReadings` do not hold (section 5).

## 5. Where the code and its documentation disagree

Two of them have a run in which TLC finds the sentence violated by what the code
does.

1. **A settlement that is cut** (`call_settled`).
   `documentation/ARCHITECTURE.md:40`. `settle` after an answered call is not
   shielded; when it is cancelled or runs into the runner's `wait_for`, the
   reservation is never settled, holds quota for the rest of the day, and the run
   can no longer be finished.
2. **A review that a second reading loses** (`lost_review`).
   `app/services/document_edits.py:19`. `carry_forward` looks at the changed blocks
   of the parent only; a change that became a review is no change of a block any
   more, and its review is not copied.

The others were met while modelling. The modules define the property in the words
of the documentation, under "What the documentation says and the code does not
do", and instances that violate it are small, but no listed run checks them.

| Property | What the code does |
|---|---|
| `Ingestion.WorkedWithinAttempts` | the attempts of an index job are compared in `_retry` only, so one whose workers die is claimed without end |
| `Ingestion.ReplacedByNewer` | a late index job of an old draft publishes it over a newer revision |
| `Research.EveryRunIsClosed` | `mark_terminal` in the `except` branches is not shielded, and `begin_run` lies outside the `try`; a disconnect then leaves the run running until it is stale |
| `Research.NeverAsksTwice` | `last_answer_asked` is read before the run begins |
| `ChatHistory.HistoryIsSafe` | an answer with citations is kept by these alone; what else it repeats of a page that was withdrawn stays in later prompts |
| `Research.GrantsWithinUse` | two refills at once read the same usage and both grant it |
| `StagedFiles.OwnedFilesExist` | with an overrun lease: the commit of an upload never looks at its lease, a sweep may have removed its file |
| `StagedFiles.CompleteMeansGone` | a replacement that looked before the deletion may write its file after the cleanup was complete |
| `Course.ExamModeHolds` | exam mode is read once, when the question arrives |
| `Course.StaffDoNotCount` | a promoted member keeps its membership, and its questions count |
| `Course.ListedLabsAreActive` | the list of a class's labs holds locked and deleted ones |
| `Course.StudentsDeleteNothing` | the student router calls `soft_delete_session` |
| `ResearchLoop.ChecksOnce` | after a check and a badly called `ask_student` the check is sent again |
| `ResearchLoop.CutWhenTimeIsOver` | a timeout of one model call withdraws the tools as if the research time were over |
| `SearchMode.CitesShownPages` | pages that were read and left out of the prompt may be cited |
| `Accounts.TakenNamesAreRefused` | a name taken while the password is hashed ends in an internal error |
| `Accounts.OldPasswordIsCurrent` | a password that an admin reset meanwhile is replaced |
| `Settings.OnlyLostRunsAreClosed` | when an admin lowers the limits, a run that still works may count as lost |
| `Titles.StudentTitleKept` | a rename between the load and the commit of the title is overwritten |
| `Titles.FirstAnswerIsTitled` | a client who leaves right after the answer leaves it without a title |
| `Reports.OneAtATime` | two requests start two reports |
| `Reports.PagesGoForward` | the answer of an earlier poll puts an older report back |
| `Analytics.RequestsAgree` | one report counts answers, the other begun runs |
| `Analytics.UnfinishedAnswersAreListed` | the listed stop reasons are not those the runners store |
| `Analytics.ExamplesHaveQuestions` | a question before midnight is missing beside its answer |
| `CarryForward.NativeTextStays` | a change of kind or format marks a block as edited without keeping its native text |
| `Reading.WithinBudget` | with an edited draft: an offset behind the end of a shortened block makes its count negative |

## 6. What is not modelled

- *ODP files.* New ones are refused. A job left from before is claimed like a
  `pdf_parse` job and fails: here it is a rejected source.
- *The PDF reader, captions and page images* are data and I/O, and so are the
  second description that a vision model may propose beside a caption and the
  rendering of tables and code.
- *Retrieval.* Ranking over database queries and model servers: what a search
  finds is any set of pages.
- *The reader's table of contents* (`navigate`), the page view and the text a
  tool prints.
- *Event frames, drafts and prompts* of an answer, the wire format of model calls.
- *Several teachers of one document* are one: they share the generation.
- *Quota.* An admin who lowers a quota under calls in flight,
  `mark_expired_unknown` (called by nothing), and `record_non_token_call`
  (embedding and rerank calls are counted and bill nothing).
- *Names, descriptions, forms and the order of lists.*
- *The frontend* except the page of a report, the resend of a message and the
  generations an editor names.
- *Scripts, migrations, evaluation, monitoring.*

## 7. Plan

The parts that are modelled are checked together in the runs of section 3, and proved
as far as section 4 says. What is left, in this order:

1. `FiguresAgree`: a lemma for the two kinds of sums it compares (one over labs or
   students of the number of their rows, one over rows), then one application of it
   for each figure.
2. `ReadingsTellWhatIsLeft`: beside `HandleOk`, that what was taken ends at the place of
   the handle; a page by the walk that shows `GoesOn`, a search by the count of the
   matches from that place on (`CountOn`, `CountOnce`).
3. The parts of section 6 that decide something: the comparison of a citation with the
   rows it names in `finish_run`, and the expiry of reservations once it has a caller.

Liveness stays with TLC.
