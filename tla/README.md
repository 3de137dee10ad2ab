# Formal models of S-Brain

The repository is a service that helps a company find a funding announcement
and write its business plan. A FastAPI back end (`src/web/backend`) takes the
user's requests, an orchestrator (`src/agent-orchestration`) keeps one *run*
per project in MySQL and works on it in worker processes, and language-model
agents do single steps of the work. A daily batch (`src/data-collection`)
fetches the announcements, reads their attachments and has a model judge them.
The models here are about the parts where several of these act on the same
rows, or where one is cut off and has to go on: the run and its lease, the start
requests and the account lock, stopping, deleting and withdrawing, rework, the
end of old records, and the batch.

## 1. Inventory

| Component | State it keeps | Operations | What is hard |
| --- | --- | --- | --- |
| Run lease, `store_sql/store.py`, `worker.py`, `orchestrator/engine.py` | `orch_runs`: row, `lease_owner`, `lease_until`, `abort_requested`, `collect_until`; one copy of the row per worker or command | claim, acquire, load, commit, release, renew, drain | leases that expire while their holder works; re-acquiring after an error; copies that grow old |
| Life of a run, `flow/sbrain_flow.py`, `models/run.py` | progress, screen, queue, resume and redo counters, rework cycle | after_step, on_queue_empty, on_rescue, on_unresumable, on_abort, start/extend/rollback of a cycle | an abort, a resume or a rework request in the middle of it |
| Service commands, `flow/service.py` | none of their own | decide, select, rework, abort, request_start, abort_project, delete_project_data, delete_account_data | several transactions each, interleaved with workers |
| Start requests, `store_sql/store.py` | `orch_start_requests`: status, lease, `cancel_requested`, `claim_count`, `form_json` | add, claim, acquire, renew, cancel, finish, create run, clear form, retire | cancellation racing the creation of the run; dead workers; the one-at-a-time rule |
| Web routes, `web/backend/app/routers` | `projects` row (present, archived, deleted), `users.status` | create, poll, trash, delete for ever, withdraw | check, then act, across two database connections |
| Plan, prototype and rework cycles, `sbrain_flow.py`, `engine.py` 808-929, `rework_map.py` | queue and segment, current version pointers, `Run.cycle` with its snapshot, chances of each bundle, `Run.verify1` | the steps of WRITE, PROTO and REWORK; start, extend, compare_and_keep, rollback, end | verify-1 inserts steps into the running queue; a rework replaces artifacts of both layers and may be undone half way; refunds; marks left from an earlier cycle |
| File deletion queue, `orchestrator/file_deletion.py` | `orch_file_deletions`: status, attempts, `next_at` | enqueue, claim, finish, fail, give up, retry | a claim identified by a time; a second deletion during the first; late writes |
| Retention, `flow/retention.py` | `orch_jobs`: lease, last start and finish; `orch_log_stats`; `Run.stats_parts` | try_start_job, renew, page of runs, acquire, look, gather, retire, requests, finish, release | two workers with one job; leases of runs that nothing renews; records read in one transaction and deleted in another; a withdrawal moving the same records |
| Import of announcements, `collect/daily_pipeline.py` 1-4, `fetch.py`, `shared/store_mysql.py` | `data/notices.json`, `data/raw`, `data/normalized`, table `notices` | fetch pages, accept or refuse, normalise, upsert, close what is missing, store a file by hand | a list that moves while it is read by pages; falling back on older lists; old files stored late |
| Attachments, vectors, judgments, `collect/daily_pipeline.py` 5-13 | result lines, files by hash, `embeddings_v1.npz`, Chroma, checkpoint, `daily_state.json`, and a table for each | plan, download, store, upload; read, encode, sync, upload; load, call, answer, save, write, upload | crashes that tear a line or a file; imports between two stages; a limit of paid calls a day; failures counted across runs |
| Agents, contracts, tools, object storage, exports, admin and profile routes, front end, search and evaluation, infrastructure | - | - | single steps, single-row routes, computations or I/O; not modelled |

How they interact: the web calls the orchestrator's service in its own
process, and the service writes to the tables; workers poll the same tables.
There is no message queue: every hand-over is a row and a lease. A lease is an
owner and a time; it is not renewed by the work itself but by each commit and
by a heartbeat thread. `GET_LOCK` on the account's name serialises adding a
start request, creating a run and a withdrawal. The batch shares nothing with
the orchestrator but the table of notices, which it alone writes. It is one
process under a file lock; what its stages hand to each other are files and
tables, and each stage finds its work by comparing what it made with what it is
made of.

`PROJECT.json` lists the hazards of this code, each with its line and with the
properties aimed at it.

## 2. Modules

| Module | Models |
| --- | --- |
| `RunModel` | the row of a run as far as the lease protocol tells rows apart, and each handler as an operator from a row to the rows it may leave |
| `RunLife` | the abstract specification of a run: one handler after the other on the latest row |
| `RunLease` | the concurrent one: workers and web commands with a lease, copies of the row, errors, crashes and missed renewals |
| `RunLease_proofs` | the theorems about it |
| `AccountWork` | the abstract specification of an account: one piece of work at a time |
| `StartRequests` | the start requests, the runs they become, the account lock and the workers that process them |
| `WebAccount` | the web routes of one account, each a sequence of reads and saves, over `StartRequests` |
| `WebAccount_proofs` | the theorems about it |
| `FileDeletions` | the queue of file deletions, with the steps that still write files and artifacts of the runs deleted |
| `FileDeletions_proofs` | the theorems about it |
| `ReworkPromise` | the abstract specification of a rework: chances, and a result replaced as a whole or left alone |
| `ReworkCycle` | the queues, the artifacts, the redo of verify-1 and the rework cycles of one run |
| `ReworkCycle_proofs` | the theorems about it |
| `RetentionJob` | the retention job, its lease, the leases of the runs it moves, and everybody else who may have them |
| `RetentionJob_proofs` | the theorems about it |
| `NoticeImport` | stages 1 to 4 of the batch: from K-Startup's pages and Bizinfo's snapshot to the rows of `notices` |
| `NoticeImport_proofs` | the theorems about it |
| `DailyStages` | what the later stages share: the notices, the stage, files of JSON lines that a crash may tear |
| `AttachmentTexts` | stages 5 and 9: download, read, store, upload |
| `NoticeVectors` | stages 6 to 8: vectors, the index of this machine, the database |
| `NoticeJudgments` | stages 11 and 13: the paid calls, their limit, checkpoint and failure counts, the upload |
| `DailyPipeline` | stages 5 to 13 together, with imports, crashes and days |
| `DailyPipeline_proofs` | the theorems about it |
| `MCRunLease`, `MCWebAccount`, `MCFileDeletions`, `MCReworkCycle`, `MCRetentionJob`, `MCNoticeImport`, `MCDailyPipeline` | the instances TLC checks |

### State and code

* `RunLease.run` is `orch_runs.run_json` with `progress`; `owner` and `live`
  are `lease_owner` and `lease_until > now`; `copy[a]` is what `RunContext`
  holds; `pc[a]` is where a worker stands in `Engine.advance`/`resume`/`drain`
  or a command in `RunService._command`. Each database transaction is one
  action. Time is not a number: a lease may expire at any moment once its
  holder has stopped renewing it (`Expire`), and a holder may miss renewals
  (`MissRenewals`, a bounded fault).
* `StartRequests.request[r]` is a row of `orch_start_requests`; a request is
  named by its project and its number. `run[p]` is the state of the project's
  run as a caller without the lease sees it: "open" (in progress, lease free),
  "locked" (in progress, lease held) or "ended". `LockRun` and `UnlockRun`
  stand for all that `RunLease` does with that run. `guard` is the account
  lock while a withdrawal holds it; `add_start_request` and
  `create_run_for_request` take and release it within one action.
* `WebAccount.call[u]` is one web request: where it stands and what it has
  read. `abort_project` is one piece of control shared by its four callers
  (create_project, delete_project, delete_project_data and, over the whole
  account, `_withdraw_stop`); `then` says where it returns to. `rows` and
  `user` are the web's tables. `stopped` observes which start requests an
  abort that has returned had found pending.
* A project's row that is deleted hides its run (`RunOf`), because
  `orch_runs.project_id` becomes NULL.
* `FileDeletions.row[r]` is the row of `orch_file_deletions` of run r; its
  `stamp` numbers the values of `next_at`, because a claim is such a value and
  is compared for equality only. `worker[w]` is a worker thread: in a step, in
  `FileTool.put`, or at a row of its batch in `process_file_deletions`.
  `deleted` observes which runs' artifacts have been deleted. The store's own
  row and S3 are two systems: deleting the files and finishing the row are two
  actions. A partly failed `delete_prefix` counts as one that deleted nothing.
  `PutsEnd` is an assumption about time: a write begun before a deletion ends
  within the first delay of 600 s. The code compares that delay with the lease
  of 120 s; a `FileTool.put` is bound by its own retries only, so with several
  tries that each run into their timeouts it could take longer. A claim too is
  a time (600 s for a batch of 20) and is not renewed: two workers may then
  delete the files of one row together, which `OneHolder` makes harmless.
* `ReworkCycle.shown` is the current version pointers, each as the artifact it
  points at, and an artifact is what it was made from: a plan is the version of
  each item in it, a prototype is the plan it was built from and the guide
  attached to it, a score is what was scored. So "these belong together" is an
  equation. `text[i]` is the newest version of an item in `sections`,
  `tableSections` or `diagrams`; `replaced` are the tables with
  `tableFallbackUsed`. `queue` is `Run.queue` without T-C3, T-S1 and T-S2, which
  run once and touch nothing of this; the form they choose is an initial value.
  What agents decide (which items fail, which score, whether G-04 or any step
  fails for good) is a free choice. A request for several bundles is one request
  after the other. Retries and timed resumes of a step are `RunLease`'s: here a
  step succeeds or fails for good. CYCLE-END itself cannot fail into a rollback
  (it is run outside the step's error handling), so `ReworkFails` leaves it out.
* `RetentionJob.mover[m]` is a worker in `run_retention` or a withdrawal in
  `delete_account_data`; `lease` and `live` are as in `RunLease`. `records[r]`
  counts the lines of the six tables of a run, `lines[r]` and `moved[r]` what
  `orch_log_stats` has of it; `written` observes all that was ever recorded.
  `owed` observes the runs a job must not leave behind: its targets when it
  began, without those that somebody else has since taken, and without any once
  a run it had moved becomes a target again (its artifacts are deleted later)
  and may take another's place in a page. The order in which a page
  lists its runs is left open.
* `NoticeImport.list` is K-Startup's list of open announcements. `fetch_page` asks
  for no order, so an announcement may enter anywhere, end, or move. The observers
  `steady`, `absent` and `first` are what was listed all the time, at no time, and
  at the beginning of the run's fetch; `drift` and `inFront` say how much the list
  changed meanwhile, and whether only by what ended and what came in front. The
  number of a run stands for all its times: `generated_at` of its file and, in
  `fetch`, when the list behind a row was fetched. A page is read in one action;
  the list may change between two.
* In `DailyStages` a notice is three numbers: its fields (`version`),
  `source_updated_at` (`source`) and the content its attachment's address serves
  (`served`). An import changes any of them, together or alone, and may bring back
  what was there before. A notice has one attachment at one address; attachments
  that are taken off a notice (`active`) are left out. A file of lines keeps, for each line,
  whether it is readable, has its end, and decodes: a crash may leave any beginning
  of a line, the next line is then appended to it. `Broken` and `Undecodable`
  are what the two readers of such files do with it (one refuses the file, one
  raises).
* `AttachmentTexts.text[n]` is a row of `attachment_texts`, `lines` is
  `attachment_results.jsonl`, `pending` the rest of `todo`, `disk` and `remote`
  the files by name. "fail" stands for the two states that are tried again: a
  download that gave nothing ("missing", which counts to `GIVE_UP`) and a file that
  was kept but could not be read ("unreadable", which does not); each costs a fault.
  A document that is judged has the text only while its state is "ok". `NoticeVectors` holds a version for each place a vector is
  in. `NoticeJudgments.ask` is the run that holds `run.lock`, the pipeline's or
  an operator's; `state` is `daily_state.json`, with the date as whether it is
  today's; `spent` observes the calls made, `answered` the answers put down for
  documents that every run has loaded since.

## 3. Runs

Each run's name is in `PROJECT.json`.

| Run | Question | Bounds |
| --- | --- | --- |
| `lease` | Can anybody save over a change it has not seen; work on after an abort; start a cycle that still collects; revive a finished run; does the whole implement `RunLife`; and does every run in progress come to its user or an end? | 2 workers, one decision, one rework request, one abort; one step queued, one redo, one resume, one fault |
| `account_work` | Is there one piece of work at a time, is the account's life the abstract one? | 2 projects, 2 creations, 1 trash, 1 worker, no fault |
| `account_stop` | Does a cancelled start request stay stopped, and is everything gone when a withdrawal returns? | 1 project with 2 start requests, 2 workers, one each of create, poll, delete for ever, withdraw; one fault |
| `account_liveness` | Does a request leave, does a withdrawal end? | 1 project, 2 workers, create and withdraw, one fault |
| `account_leftover` (violation) | Is a request put in during a withdrawal taken back? | one create, one withdrawal, no fault |
| `files_safety` | Do deleted artifacts or files come back; does one worker have the say over a row? | 2 runs, 2 workers, batches of 1, 2 attempts, 2 deletions, 1 retry, 2 faults |
| `files_liveness` | Does every row get done or given up? | 2 runs, 2 workers, batches of 2, one fault |
| `rework` | Does what the user sees belong together; does a rework replace it as a whole, by something worth no less, or give the chances back; does verify-1 keep to the chosen items and run out? | a form of a section and a table, one of them in a bundle; HTML or one page; one chance per bundle, one redo per item, scores 0 and 1, 2 rework cycles |
| `retention` | Is a record lost or counted twice; does a finished job leave something; who ends a job; does what rests leave in the end? | 2 runs, 1 start request, 2 workers, 1 withdrawal, 1 user, pages of 1, one visit, one fault; one run with everybody, or two runs with one worker |
| `notice_import` | Does a row go back to an older list; is only closed what left the list, if the server puts what is new in front; what can a run with a whole list miss otherwise? | 5 announcements in pages of 2, 3 of Bizinfo, 2 runs, 2 changes of the list, one fault |
| `daily` | Are torn files kept out; are calls within the limit and never repeated; is everything caught up with? | 2 notices; one of them imported again, as a whole or with another date alone, or one run by hand; 1 fault, 1 call a day, 2 failures to give up |
| `daily_resume` (violation) | Does a run that was cut off go on? | 1 notice, 1 version, 1 fault |

Two workers are enough for every takeover (one loses the lease, one has it),
and one fault for every place where it can strike. A queue that loses one step
to a redo is in progress before and after it. A section and a table are the two
ways verify-1 goes on (a redo of the writers, a replacement by text), and with
one item outside the bundles there is always one a rework must not touch. Two
cycles show what one leaves to the next. Two start requests of one project are a failed one
and its retry; two projects are what it takes for the one-at-a-time rule to be
at risk. `MaxClaims` is 1 instead of 3. Deadlock is not checked: a finished
run, an account that is gone, web requests that have all been answered and a
bound that is reached are ends of the system. It is checked in `retention`,
where every day brings another job.

For retention, one run with every actor shows each way to lose a lease, and two
runs with pages of one show a page filled by what was skipped. In
`notice_import`, five announcements in pages of two make three pages, the least
that has one between the first and the last. A snapshot of Bizinfo has all its
announcements or one of them (`FewSnapshots`), which is enough to be refused for its
size. `Orderly` is an assumption about the world, written into the properties that
need it: while one list is fetched, what enters comes in front, nothing moves, and
fewer announcements than two pages hold change. The code does not ask the server
for it, and without it the first of them is false (see below): the bounds are such
that TLC finds that. What holds for any order is the rest of `RunMirrorsServer`.
In `daily`, two notices are what it takes for one to use up the limit or the
failures in a row that the other needs; the downloads and calls about the second
go well (`SecondGoesWell`). The import changes everything at any time, or, once the
notice has a text, its date alone, so that a document can lose its text and get it
back. A faulty download is one fault, and so is a crash: there is one of them.

### What the violated properties show

* `NoWorkAfterWithdrawal`: `create_project` looks for a withdrawal twice to
  close a gap, but in one transaction; the web's engine sets no isolation
  level, so MySQL's default (repeatable read) shows the same status twice.
  `SnapshotReads` is this choice; SQLite in the tests does not show it.
* `TextsGoOn`: results are put down line by line and stored after the last
  download, and a run leaves out what has a line. A crash between the last line
  and the storing leaves nothing to download, and `daily()` then returns before
  it stores (`attachment_pipeline.py:301`).

### Disagreements met while modelling, without a run of their own

The models have these behaviours too.

* `Engine.drain` looks for the abort request only at the top of its loop
  (`engine.py:277`). If the step that was running fails into `on_rescue`, or a
  cycle rolls back, the run goes back to its user with the request still set,
  although `service.py:659` says it is reflected between steps.
* The project's run is looked for without the account lock (`service.py:368`):
  a poll that looked early can queue a start request for a project whose run
  has ended since, although `service.py:278` refuses that. The worker raises
  `ProjectRunExists` on it.
* Claims by the same owner are not counted (`store.py:1145`), so a start request
  that makes its worker raise (no form, no project, a run already) is tried for
  ever by a single thread and blocks the account, although the document of the
  orchestrator gives a limit of three (`Orchestrator_구조와_흐름.md:340`).
* Only pointers that had a version move back after a failed rework
  (`engine.py:908`). If the guide (G-04) failed in the first prototype and a
  rework wrote one before it failed, `readmeFile` stays, and the next M-3
  without a guide of its own takes it. All other artifacts have a version before
  any rework: `ReworkIsAllOrNothing` holds for every key but this one.
* Nothing tells `is_complete` (`daily_job.py:115`) that one announcement entered
  and another was skipped for it, although `daily_job.py:118` takes what is missing
  from a whole list for ended. Pages of two, the list k2 k3 k4 k1: the first page
  gives k2 and k3; k5 enters before k1; the second page gives k4 and k5. Four
  distinct announcements of four that were promised, and k1, listed all the time,
  is closed until the next run opens it again. Likewise if k2 ends after the first
  page and k5 enters last: the second page gives k1 and k5, and k4 is closed. A
  server that puts what is new in front makes this take two pages of changes.
* A document can come back and be paid for again. `load_population` takes a text
  only while its last attempt was good (`applicant_type_llm.py:138`). If the date
  of a notice changes and the download that follows fails, the document without the
  text is asked about, and its answer replaces the one for the whole document; when
  the download is tried again with success, that one is asked about once more.
  For the same reason, a run that loads another document drops a checkpoint with an
  answer it has not taken into the results (`applicant_type_daily.py:225`), although
  line 11 says the results of the calls paid for remain.
* A row of Bizinfo without a title or number makes `validate_payload` refuse the
  whole file (`store_mysql.py:44`), so K-Startup is not updated either, although
  `daily_pipeline.py:27` says the sources fail separately.
* A snapshot of Bizinfo that was refused for its size is kept in the directory
  from which the next run takes its last snapshot (`daily_pipeline.py:100`): a
  second small one passes, and a failed fetch falls back on the refused one.
* A results file with a torn line is kept for ever, because the line is refused
  at every storing; all its lines count as seen, so their failures are never
  tried again. A line cut within a character makes `done_already` raise every
  day, and a torn line of the checkpoint stops the judging every day, although
  `applicant_type_daily.py:11` says the answers paid for remain.
* A part of a file that a crash left under the hash of the whole is neither
  written again (`attachment_pipeline.py:105`) nor uploaded
  (`upload_attachments.py:92`).
* If the index could not be updated, the ids that changed are forgotten: a later
  `sync` looks for ids that are missing, not for vectors that are old
  (`vecstore.py:218`). `VectorDone` therefore asks of the index only that the
  notice is there.
* A run across midnight goes on with the date it began with: its calls count
  for yesterday. Failures counted in a run that is cut off are lost.
* Two hosts have a lock each; the operations manual says so (`operations.md:77`).
  An embedding run with `--limit` drops the old vectors of what it leaves for
  later (`embed.py:183`); the batch never gives a limit, so it is not modelled.

### Fairness

Worker threads poll in a loop (`Worker.loop`), a web request runs to its
answer, and leases expire by the clock: weak fairness of `WorkerStep`,
`CommandStep`, `CallStep`, `Expire` and `ExpireRequest`. Users are not fair:
nobody has to decide, poll or delete. A holder of a run lets go of it
(`UnlockRun`), and a run that was asked to stop, locked again and again, is
ended in the end (strong fairness of `EndFlagged`): every worker that comes
to it looks at the request first. `WithdrawalEnds` alone assumes a user who
asks again after BUSY (`Insistence`), which is how the route is documented.
In `FileDeletions` a step ends and a worker comes round to look at the queue
however often either is interrupted by further files or steps: strong fairness
of `EndStep` and `Claim`; the rest is weak.
In `RetentionJob` workers poll for the job and go on in it, leases run out and
days pass; users and withdrawals need not come, but one that has begun ends. In
`DailyPipeline` the schedule starts the pipeline again and again, a stage goes on
until it crashes, and so does a run by hand once it has begun; imports and faults
are not fair. `DailyCatchesUp` excepts the two cases above in which a crash has
left a results file that stays or a checkpoint that cannot be read.

## 4. Proofs

`RunLease_proofs` (any sets of workers and commands, any bounds):

* `TypeCorrect`, `CopyCurrent`: the type invariant and `CopyIsCurrent`.
  The invariant is not inductive alone; it is with the statement that an actor
  that passed its acquire and is still the row's owner has not seen the row
  change since it loaded it: a save needs `owner`, and nobody but the owner
  saves.
* `LateStep`, `NoEarlyWork`, `FinalRunStays`: from the same invariant, one
  step per action.
* `ImplementsLife`: by `CopyCurrent` the row a save starts from is the row in
  the table, so each save is one action of `RunLife`; all else stutters.

`WebAccount_proofs` (any projects, workers and web requests):

* `AccountTypes`: the type invariant.
* `AtMostOneWork`: `OneActive` is inductive on top of the types: a request is
  only added when nothing is active, a run only created when no run is, and
  the request it replaces is the one active thing.
* `ImplementsWork`: with `OneActive` the active thing is a function of the
  state, and each step adds one, turns the request into its run, ends it or
  leaves it.
* `CancelledStaysStopped`: `CancelHolds`, along how far each abort has come
  (`Stopping`): what it has cancelled so far (`Seen`), and which runs it still
  has to stop. `Progress` says what any step of anybody may do to a request, a
  project or a run; `SeenStays` that such a step undoes neither. A run can only
  appear for a later request of the project (`InTurn`), which the property
  excepts.
* `NothingRemains`: `WithdrawalLeavesNothing`. `LeaveInv`: a withdrawal that lists
  what is left holds the account lock (`Holding`), what it has listed is all there
  is (`Clearing`), and artifacts belong to a run. `Tidy` is why that lasts: while
  somebody has the lock, nobody adds a request or creates a run.

`FileDeletions_proofs` (any runs and workers, any batch, any limit of attempts):

* `QueueTypes`: the types, with the statement that a waiting row has an attempt
  left.
* `DeletedForGood`: a run that is over has no owner, so nobody saves for it.
* `OneHasTheSay`: no claim is ahead of its row's stamp, so a claim that is
  taken again differs from every older one.
* `NoFileLeft`, from `PutsEnd`: a write that is under way for a deleted run
  began before the deletion, so the row is in its first delay; nobody claims it
  then; and who has deleted the files of a row it holds has left none.

`ReworkCycle_proofs` (any form, bundles, chances, limits of redos, scores and
cycles; of the constants only that `Absent` is no artifact and `NoCycle` no
cycle). All rests on one invariant, `IInv`. None of the properties is inductive,
because they speak of the screens and are broken in between; the invariant has to
say what the queue still repairs:

* `QueueInv`: a queue is in the order of `Rank`, which is the order of every queue
  the code builds, and with a task it has every task of `Brings`, which merges,
  verifies, judges or compares what that task changes. `InOrderSorts`, `Shortened`
  and `Inserted` say what building a queue, taking a step off and putting the steps
  of verify-1 before the rest do to it: those rank no higher than the T-V1 that was
  just taken off, and all that is left ranks higher.
* `DocInv`, `ProductInv`: what is shown belongs together as far as the step that
  sees to it is done. When the queue is empty nothing is due and these are
  `PlanIsTheVerifiedOne` and `ProductIsTheVerifiedOne`. `SectionsInPlan` is
  needed because a table replacement merges without writing the sections again.
* `MarkInv`, `CycleInv`: a mark of verify-1 has its step and stays within the
  chosen bundles (`MarkHasItsStep`); each bundle of a cycle has spent a chance,
  so giving it back does not exceed the allowance (`TypeOK`).
* `SnapshotInv`: the snapshot belonged together when it was taken, so moving back
  to it restores a whole; after CYCLE-END the result is worth no less; the items
  outside the bundles are as they were (`OnlyChosenItemsChange`).
* `SegmentRunsOut`: one step per action, the redo by its count.
* `ImplementsPromise`: `PromiseStep` is a step of `ReworkPromise`, written over
  what that sees. In a cycle the user sees the snapshot, so all work stutters;
  the end of the segment is `Replace` by `SnapshotInv`, the undoing is `GiveBack`
  because every pointer but the guide's had a version.

`RetentionJob_proofs` (any runs, requests, workers, withdrawals and users):

* `TypeCorrect`: with the statement that a mover at a run has one, and which.
* `CountedOnce`: a mover that still has the lease of the run it has read finds
  the records as it counted them. That is inductive because only the owner of a
  lease writes records or moves them, and `retire_run` looks at the owner again
  in its own transaction. For start requests it is the check that the whole list
  is still there.
* `OneEnd`: one step per action; a job changes hands only by `StartJob`, which
  asks for a lease that has run out.
* `NothingLeftBehind`: `Owes` says, place by place, how a worker stands to an old
  run: not yet seen, it is still a target; seen and not skipped, it has nothing
  to move, or is the one being moved, whose pointers are those looked at.
  `NothingLeft` closes the argument: a page without a new run either holds all
  targets, or has one entry more than there are skipped runs to fill it.

`NoticeImport_proofs` (any announcements, pages of any size, any number of runs,
changes and faults, changes anywhere in the list; of the server `Orderly` where the
property says so, and nothing else):

* `TypeCorrect`: with the statement that a run has one file, made after its
  fetches, and that an open row comes from a file that has it.
* `NewestListStays`: `Fresh` orders the files. Snapshots get newer with their
  place, so a file with a later stamp has no older list, a row is behind every file
  with its stamp or a later one, and behind the list that comes next.
* `OnlyGoneIsClosed`, `TableMirrorsServer`: `Counted` holds for any order. Nothing
  that was never listed is read, and a list that counts as whole is as large as the
  first page's list. So what is in `absent` is not open, and by `AsManyMissing` (of
  two finite sets of one size each lacks as many elements of the other) what was
  missed is outnumbered by what entered. `Whole` is for an orderly server: after d
  changes the first m places of its list are new, and the k behind them were read
  with the pages before, where m and what is missing of k up to a page are at most d
  together (`Shift`). A page that shows something new then shows again a row that
  was read (`PageOldOrTwice`), so the list has fewer announcements than rows and is
  not whole. A whole list is therefore the first page's list (`CompleteIsFirst`), and
  nothing in `steady` is missed. `Listing` carries this from `Accept` to `Store`,
  while the server goes on changing.

`DailyPipeline_proofs` (any notices, versions, limits and faults):

* `WholeFiles`: one step per action; only `UploadFiles` writes `remote`.
* `TypeCorrect`: the types need that failures in a row stay below `GiveUp` while
  something is pending, that a line is stored only from the first on, and that
  nobody asks about a document that was given up. The latter keeps failure counts in their bound.
* `LimitHolds`: the count in the state file covers whatever was spent today,
  because it is saved before the calls are made; a run's own copy agrees with
  the file while its date is today's.
* `PaidOnce`: an answer is in the results or in a checkpoint that can be read
  (`Found`), and the run that holds the lock has it for the document it has loaded.
  A run begins with the answers it found, and keeps each it gets, so its results
  have them all before it drops the checkpoint. `LineAdded` says what writing or
  cutting a line does to a file's rows. An answer for a document that a run has
  not loaded is not followed any further, since the code does not keep it.

Only model-checked: liveness (`WithdrawalEnds`, `DailyCatchesUp` and the other
properties under fairness), which is beyond the prover. Every safety property of
the passing runs is a theorem.

## 5. Not modelled

Screens and their views (reads), the text of messages, the agents and their
contracts, object storage, deployment and the front end: single steps or I/O.
The segments before the plan (choice of an announcement) are one kind of
decision in `RunLease`. A lost database connection that holds the account lock,
and clock skew between web and worker, are outside the present modules.

Of the batch: `industry_daily` (stage 12) is the protocol of stage 11 over, with
its own files and limit; the backup (stage 10) copies files; the rules that read
conditions and bonuses from a document depend on wording. `attachment_store.main`,
which stores archived results by hand, is left out. Search, evaluation and models
are computations on scores. In the table of notices the columns are one number,
so `StoreByHand` of the file that is stored already, which only renews
`imported_at`, is a stutter, and the check that a row belongs to its source is
not there.

The web's profile, FAQ, upload and administration routes read or write single
rows in one transaction. Their schemas and the documents they export are layout.
