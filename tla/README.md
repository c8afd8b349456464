# Formal model of the testing platform's asynchronous execution

The repository is a test-management platform: a FastAPI control plane with a
relational database, a React studio, and three kinds of pull workers
(integration, API/UI, AI) that claim work from the control plane over HTTP.
This directory holds TLA+ modules translated from its Python source, TLC
configurations that check them on small instances, and TLAPS proofs.

What is delicate in it is everything that takes more than one transaction: writes
to an external Zentao system without idempotency keys, workers that may die or
lag while they hold a lease, storage calls that outlive their caller, and people
whose commands act on what they read earlier. Five components carry that logic,
and each has its module; the rest is request-scoped.

Paths below are short for `src/apps/control-plane/src/testing_agent/` (`CP/`),
`src/apps/integration-worker/src/testing_agent_integration_worker/` (`IW/`) and
`src/apps/api-ui-worker/src/test_worker/` (`AW/`).

## 1. Inventory

| Component | State it keeps | Operations | Hard behaviours | What makes it correct |
| --- | --- | --- | --- | --- |
| Integration job ledger (`CP/services/integration_job.py`, `integration_bug.py`, `domain/integration_execution.py`, `repositories/integration_job.py`, `models/integration_job.py`) | jobs, steps, result receipts, claim receipts; the unique columns `active_scope`, `active_target` | submit, claim, heartbeat, prepare, result, evidence, preflight failure, completed, cancel, expire | stale claims, lost answers, late evidence, races for a bug or a target, finishing a job several times | one active job per bug and one leased job per Zentao instance; an unknown write is never executed again; an intent belongs to the current claim; ended stays ended |
| Local Zentao rows and planners (`CP/services/integration_bug_steps.py`, `_state.py`, `_context.py`, `integration_recovery.py`) | push, attachment, description and field rows of a bug, each with the operation that last wrote it | reserve, apply, sync, build plan, verified recovery | a step settled without a result; a new job that settles an older job's step inside its own transaction | rows say what the ledger says; two writes of one object are never open together |
| Integration worker (`IW/worker/*`, `services/step_execution.py`, `bug_sync.py`, `domain/execution.py`, `repositories/evidence.py`) | current claim, execution window (monotonic deadline), claim request id, evidence file | claim loop, heartbeat, prepare, write, report, replay evidence, fail before write | crash between write and report, lost replies, retries, a lease that runs out during an await | a write is sent at most once, only under a live lease; evidence of a success reaches the ledger |
| Direct Zentao operations (`CP/services/bug_zentao_*.py`) | the same rows | reconcile (user-verified recovery) | reconciliation racing late evidence | only unknown, owned rows are settled |
| Worker tasks (`CP/services/worker_task.py`, `worker_domains/*`, `worker_authorization.py`, `test_run_stop.py`, `worker_lease_monitor.py`, `live_debug_cleanup.py`) | API and UI tasks with holder, lease and status; runs, their items and counts | claim, start, snapshot, item start and result, heartbeat, complete, stop, expire, revoke, remove | stop, completion, expiry and lost access crossing each other and late calls | a task is taken once and ends; a finished report is closed; a stopped task is no success; counts and items agree |
| API/UI worker (`AW/poller/task_poller.py`, `api/collection_runner.py`, `ui/suite_runner.py`, `control_plane/client.py`) | current task, item and verdict | claim loop, run items, report, heartbeat, stop watch, shutdown | calls that fail half way, cancellation in the middle of an item, crashes | a success was really executed; nothing is reported under a lost lease |
| Function case push (`CP/services/function_case_push_flow.py`, `_journal.py`, `function_case_export.py`, `zentao_case_gateway.py`) | frozen requests, one operation per request and case, the mapping of a case to its remote case | push a suite, reconcile, confirm not applied | a receipt that is lost or late, a decision by hand meanwhile, retries side by side, a restored database | a case is created once; the ledger tells what happened; mappings are never replaced |
| Stored files (`CP/services/stored_file*.py`, `file_verification.py`, `core/object_storage.py`) | file rows, verification rows, objects | upload, complete (verify and publish), attach, archive, collect, clean | a copying thread that outlives its request, overlapping verifications, cleaners that die or lag | a kept file has its verified object; nothing that may still be written is forgotten |
| Direct stage runs (`CP/services/stage_storage/*`) | stages, attempts, versions, queue rows | run, revise, save, approve, reject, continue, refresh the input, delete a version; claim, start, complete, fail, expire, retire | commands that act on an old snapshot, retried requests, late results, versions deleted under a run | stage, attempt and queue agree; runs stand on approved versions; history is kept |
| Restore and maintenance (`CP/services/integration_restore.py`, `integration_maintenance.py`, `integration_lifecycle.py`) | runtime generation, quarantine, review items | restore, quarantine, review, release, retention | a database restored from a backup forgets writes that happened | nothing of an old generation is executed before it was reviewed |
| AI worker (`src/apps/ai-worker`) | current task | claim loop, call a model, report | as the API/UI worker | - |
| CRUD services, studio, deployment, MCP adapter | request-scoped | - | none that spans several steps | - |

**How they interact.** The studio calls the control plane; workers poll it. An
integration worker claims a job, asks for a permit by `prepare` before each write,
writes to Zentao through its MCP service and reports by `result` or, when that is
refused, by `evidence`. The API/UI worker and the AI worker claim tasks from
`worker_tasks`, renew their lease by heartbeats and report item by item or stage by
stage. Case pushes are made by the control plane itself, inside the HTTP request,
with the permission committed before the call of Zentao and the receipt after it.
Files go past the control plane: it signs tickets, verifies what was uploaded in a
thread, and cleans up on a timer, in every instance. Monitors end what nobody
keeps alive. Every transaction locks the rows it decides on; what makes the system
hard is what happens between two transactions, and what a transaction has read
before its lock.

## 2. Modules

| Module | Models | Used by |
| --- | --- | --- |
| `IntegrationJob` | the ledger and the local rows | runs `job_*`, `IntegrationWorker` |
| `IntegrationWorker` | EXTENDS the ledger with hosts, evidence files, writes in flight, Zentao, delayed calls and time | runs `worker_*` |
| `TaskLife` | what the platform promises about one API or UI test task: the abstract specification | `WorkerTask` |
| `WorkerTask` | the queue of API and UI test tasks with its workers; implements `TaskLife` | run `task_queue` |
| `FunctionCasePush` | the push of cases to Zentao | runs `case_*` |
| `StoredFile` | one file: row, verifications, storage, cleaners | runs `stored_*` |
| `StageChain` | one generation chain: stages, attempts, versions, queue, commands | run `stage_chain` |
| `IntegrationJob_proofs`, `IntegrationRecords_proofs` | theorems about the ledger, and about its local rows | TLAPS |
| `IntegrationWorker_proofs`, `IntegrationTruth_proofs` | theorems about the workers over the ledger, and about what they do to Zentao | TLAPS |
| the other `*_proofs` | theorems about the module of that name | TLAPS |
| `MC*` | plans and symmetry of small instances | the `.cfg` files |

`PROJECT.json` maps every definition to the lines it translates. In all modules an
action is one committed transaction or one call outside of one; a request that is
rejected is a disabled guard, or a step that only ends its handler. Operators
marked "Mutant" are plausible bugs; replacing the operator below by them breaks
the property that `PROJECT.json` names.

### 2.1 `IntegrationJob`: state and actions

* `job[j]`: the row of a submission. `status` (plus `"new"`: not yet submitted),
  `scope`/`target`: whether `active_scope`/`active_target` are set, `worker`,
  `gen`: `claim_generation`, `lease`: ticks left until `lease_expires_at`,
  `canceled`: `cancel_reason` is set, `mapping`: the steps with a remote id in
  `mapping_json`, `previous`: the unknown text write frozen into the snapshot,
  `told`/`activities`: the flag `activityWritten` and the activities written.
* `step[s]`: the row of a step `<<job, key>>`: `status`, the identity of its write
  intent (`worker`, `gen`, `request`) and the stored result receipts.
* `record[<<bug, key>>]`: the local row of what a step writes, with the step that
  last reserved it. `create_bug` is the push row, which is also the link.
* `receipt[w]`: the stored answer to the worker's current claim request.

`Finish` is the whole of `finish`: it blocks pending steps that can no longer run,
aggregates, releases scope, target and lease when the job ends, writes the activity
once and copies step states to the rows. It is part of every action whose handler
calls it.

| Action | Handler |
| --- | --- |
| `Submit` | `submit` with `build_sync`/`build_fields`: refusals on open outcomes, uploads blocked for an open earlier outcome, mapping and recovery snapshot |
| `Claim`, `ClaimNothing`, `NewClaimRequest` | `claim` and its receipts; skip-locked selection means any claimable job may be taken, or none |
| `Heartbeat` | `heartbeat` (through `owned`) |
| `PrepareWrite`, `PrepareNoop`, `PrepareFailed`, `PrepareReplayed` | the three decisions of `prepare` and the answer to its repetition; `PrepareWrite` and `PrepareNoop` also settle an earlier unknown text write and finish the job it belonged to, in the same transaction |
| `Result`, `ResultReplayed` | `result` |
| `EvidenceConfirmed`, `EvidenceSettles` | `result` in recovery mode: late evidence |
| `PreflightFailure`, `Completed` | `preflight_failure`, `completed` |
| `Cancel` | `cancel`, for every reason `admit` has |
| `ExpireFinish`, `ExpireRequeue` | the two ways `expire` ends a lease |
| `Reconcile` | `record_verified_recovery` for a user's reconciliation |
| `Tick` | time: leases count down |

Who sends requests is left open: any worker may present any claim generation and
any event at any time, so delays, duplicates and stale workers are all there.
The single exception is `OneAtATime`: the ledger asks its callers to report the
write of one step before preparing the next. Nothing in `prepare` enforces it;
`BugWorkflow.run` does, by being sequential. The composed system implements `Spec`,
which `worker_live` checks and `WorkersKeepToTheLedger` proves, and so provides it.

### 2.2 `IntegrationWorker`: state and actions

* `host[h]`: one worker process. `life` makes the worker identity new after each
  restart, `pc` is the await it is in, `window` the ticks left until
  `ExecutionWindow.deadline`, `limit` the deadline of a permit, `timer`/`beat` the
  age of the request it waits for.
* `outbox[h]`: the evidence file, which survives a crash.
* `wire`, `effect`, `sent`: writes on their way to Zentao, what Zentao did with
  them, and how often each was sent. Zentao is external: a write in flight is
  applied, rejected or dropped at any later time, whether or not anyone waits.
* `late`: calls whose caller stopped waiting and which may still arrive.

A call to the control plane is two actions: the host enters a waiting state, and a
`Serve...` action runs the ledger's transaction and either delivers the reply or
loses it (`ReplyLost`), leaving the host waiting, so that the retry with the same
request id is the same action again. `RefusePrepare` and `RefuseResult` have no
guard: the ledger may refuse for revisions and permissions that are not modelled.
`GiveUp` is an exhausted retry or a refusal that ends the execution, `Crash` a
restart; both may leave the call behind in `late`. `Land` is Zentao, `Supervise`
the control plane's own steps (a reconciliation only where Zentao shows the
write), `Elapse` time.

### 2.3 `TaskLife` and `WorkerTask`

`TaskLife` says what a user may rely on: a queued task is taken at most once and
never goes back to the queue, a stop request is final, a stopped task never counts
as a success, only a stop request cancels, a finished task keeps its verdict, and a
task that was taken ends. `WorkerTask` implements it under the mapping `Life`:
`pending` is waiting, `claimed` and `running` are executing.

Per task the detailed module keeps `kind` (an API collection, a UI suite, a live
API debug case), `status`, `holder`, `lease` (fresh, due for renewal, lapsed),
`run`, `item` and `tally` (the run's row, its items and its counts), and `granted`
(whether `execution_authority` still holds). Per worker it keeps the call it waits
for, the item it is at, the verdict so far. `wire` holds requests sent and not
handled; a worker that gives up leaves its request there, where it may be handled
after anything the worker did since. `done` is history: what was really executed.

| Action | Code |
| --- | --- |
| `Claim`, `ClaimRefused` | `_claim_task`: any pending row (`skip locked`), or the failure of one whose actor lost access |
| `Accept`, `Unauthorized`, `Refuse` | a report of a worker: `authorize_execution`, `ensure_worker_match`, then `started`, `snapshot`, the item handlers or `complete` |
| `Heartbeat` | `heartbeat` and `_heartbeat_loop` |
| `ExpireLeases`, `StopRun`, `RevokeExecutions`, `FinishDebug` | the monitor, `stop_run` with `finish_stopped_items`, `revoke_executions`, the removal of live debug runs |
| `AccessChanges`, `Age` | lost access that nobody reports; time |
| `Execute`, `SeeStop`, `SeeLeaseLost`, `GiveUp`, `Shutdown`, `Crash` | the poller and its runners: `NextItem`, `Proceed` and `Fail` say what follows a call that came back or raised |

### 2.4 `FunctionCasePush`

The rows are `batch` (a frozen request), `identity` (the mapping) and `op` (one
operation per request and case); `remote` is Zentao, `wire` the writes on their
way. A handler goes through `Submit`, and per case `Look` (read the ledger),
`Check` (read Zentao), `Reserve` (guard and permission, one transaction; the write
follows), and `Record` (the receipt). `Apply` and `Reject` are Zentao, at any later
time. `Lapse` is the age after which people may settle an operation: `FindResult`
and `FindNothing` read, `Decide` settles. `Leave` is every refusal, cancellation and
crash; `Restore` puts a `backup` of the rows back while Zentao and the writes on
their way stay as they are. All cases have the same title, and cases may have equal
bodies: what keeps them apart is their identity alone.

### 2.5 `StoredFile`

One file, because files share only the batches of a cleaner. `row` is its row in
`stored_files`, `ops` the rows of `file_verifications`; per verification there are
the request that waits (`call`), the thread that copies and checks (`thread`), and
a storage request whose caller gave up (`late`). `staging` and `objects` are the
storage. A cleaner's claim, activation, each of its deletes and its receipt are
steps of their own, and it may die or be overtaken between any two. `clock` runs
from "a ticket may be used" to "expired": a ticket always dies before its file.

### 2.6 `StageChain`

The rows are `stage`, `attempt`, `version` and `queue`; `sent` is what clients
asked for under which request id. A command of a person is two steps, because its
transaction (REPEATABLE READ) reads before it waits for the chain's lock: `Begin`
takes the snapshot `seen`, and `Run`, `Revise`, `Save`, `Approve`, `ApproveReplayed`
or `Reject` use it wherever the code reads without a lock (`_versioned`,
`select_upstream_versions` before its lock, `detach_old_ui_batch`). `Delete` and the
worker's calls read everything with a lock and are one step. `Continue` is the run
that follows an approval, under the same request id and in a transaction of its
own; `Leave` is a refusal, a replay or a process that died. `Expire` and `Retire`
end a run from outside, `Fail` and `Publish` are the worker.

## 3. Runs

Each property carries a comment in its module that says which behaviour of the code
it is about.

| Run | Instance | Question | Properties |
| --- | --- | --- | --- |
| `job_push` | one bug, two submissions: text and two attachments, then text and one | Does pushing again after expiry, cancellation and reconciliation ever create or upload twice, repeat a write of open outcome, get stuck, or confuse rows, order and activities? | `TypeOK`, `OpenWritesFenced`, `OneShotOnce`, `RecordFollowsOwner`, `LedgerInv`, `DependencyOrder`, `LeasedHasWork`, `FinishedStaysFinished` |
| `job_update` | two field updates of one bug and the text of another on one instance, two claims each | Do bug and target locks hold under competition, and are two writes of one object ever open together? | `OneJobAtATime`, `SlotFence`, `SettledStaysSettled` |
| `worker_repush` | one host with a restart, two pushes of one bug and its text | With crashes, lost replies and writes in flight: does Zentao get one bug, and is what the ledger calls settled true? | `WorkerTypeOK`, `SlotAppliedOnce`, `ConfirmedTruth` |
| `worker_pair` | two hosts, one push, two claim generations, a delayed call | Is a write sent once, and only inside the lease? | `WriteOnce`, `WriteInsideLease` |
| `worker_live` | one host with a restart, a push with text and an attachment, a delayed call | Does the composed system implement the ledger specification, `OneAtATime` included; does every claim end, and does a success on disk reach the ledger? | `Spec`, `ClaimEnds`, `SuccessRecorded` |
| `worker_target` | two hosts, two bugs on one instance | Is the promise of the worker's documentation about replicas true? It is not (section 5). | `OneWriterPerTarget` (violated) |
| `task_queue` | two workers, one task of any kind, three items (one optional, one disabled), two late requests | Do stop, expiry, lost access, crashes and late calls ever reopen, miscount or invent a report, and does every task that was taken end? | `TypeOK`, `SuccessIsEarned`, `ReportAddsUp`, `ReportIsFinal`, `LapsedHolderWritesNothing`, `Promise` |
| `case_push` | two handlers, two requests, one case, two contents, an edit | Is a case created twice, or is the ledger wrong, when writes land late and people settle what is unknown? | `TypeOK`, `CreatedOnce`, `LedgerTellsTruth`, `MappingStable` |
| `case_batch` | two handlers on one request of two cases, a restore | Do retries side by side keep the order of the batch, and does a restore stop everything until the owner has looked? | `BatchAsAdmitted`, `ReviewAfterRestore` |
| `stored_files` | a requirement page or a pulled file, two verifications, two cleaners, two claims | Can a late thread, storage request, collector or cleaner damage what is kept or leave something unwatched? | `TypeOK`, `EvidenceKept`, `LateWriterWatched`, `StagingReclaimed` |
| `stored_reattach` | a pulled file, one verification, one cleaner | Is a file that was claimed for deletion never attached again, as documented? It may be (section 5). | `ClaimedNeverReattached` (violated) |
| `stage_chain` | two stages with input batches, three attempts, three versions, three requests, one handler | Do stage, attempt and queue ever disagree, does a run stand on a deleted or older input, and is history ever rewritten? | `TypeOK`, `LivesTogether`, `StandsOnApproved`, `HistoryKept`, `OnlyByOldSnapshot` |

### Bounds, and why they are enough

* `MaxClaims` (ledger) 1 or 2: the second claim is what makes a first one stale; a
  third adds no new relation between a claim and a write (an intent carries exactly
  one generation). The proofs hold for every bound.
* `LeaseSeconds` 1 or 2 ticks, `Margin` 0 or 1: one tick left, and the boundary
  where nothing is left, both occur. Two ticks with a margin of one separate "the
  worker has stopped believing" from "the lease has ended".
* Two or three jobs: two compete for a bug, or write the same object one after
  the other; the third brings in another bug on the same Zentao instance.
* Plans: creation, attachments and text give dependent and independent steps (an
  attachment that the text does not show is independent of it); field jobs are
  separate in the code too. A bug that is linked already needs no creation, but
  its plan has the step, which is skipped.
* One `Request` and `Event` id in the ledger runs: another id only adds receipts
  that no guard distinguishes (`Heard` is per id, and the worker uses one id per
  operation). The worker runs use the ids the worker really has.
* `MaxRestarts` 1, `MaxLate` 1 (integration worker): one crash leaves evidence that
  another identity replays; one delayed call overtakes, or is overtaken by,
  everything else. `worker_repush` has the crash, `worker_pair` the delayed call,
  `worker_live` both.
* `task_queue`: tasks share nothing but the workers, and a task is claimed once, so
  one task with two workers shows every relation; three items are one that may
  fail, one that halts the run and one that is disabled; two late requests may
  cross each other. The lease has three values, and any number of renewals.
* `case_push` and `case_batch` split what is too large together: two requests for
  one case with edits, and one request for two cases with a restore. Two remote ids
  let a case be created a second time, which the properties then exclude. Edits are
  bounded by `MaxEdits`, restores by one.
* `stored_files`: two verifications overlap, two cleaners overlap, two claims make
  the first stale. An upload behaves as a pulled file without the bug it names
  from the start, which is why the run has the requirement page and the pull.
  `MaxOps` and `MaxClaims` bound the counters.
* `stage_chain`: two stages are an upstream and a downstream; three versions allow
  a deletion and a repeated approval; two batches allow one change of the input.
  One command is under way at a time there, with everything workers do and every
  deletion between its two steps; two commands are too many states for TLC, and the
  proofs are for any number of them.
* `CHECK_DEADLOCK FALSE` where bounded counters are used up and a finished instance
  stops. `task_queue` checks for deadlock: access may always change, so it says
  little, and `Promise` says what matters.
* `SYMMETRY` only where no liveness property is checked.

### Fairness

`FairWorkerSpec` (`IntegrationWorker`). Time passes (`Elapse`); the supervisor polls
for expired leases, one weakly fair action per job (`expire` is called from its
loop); a host that is up keeps running its loop, each await of which ends, since
every control-plane call has a timeout and a bounded number of attempts, so
`Loop(h)` is weakly fair as a whole. Which of the loop's alternatives happens is
not fair at all: the worker may give up every time. `SuccessRecorded` also needs a
replay that is attempted again and again to be answered some time, a strongly fair
`Replay` of success evidence (strong, because replaying is only possible between
claims). Zentao (`Land`), late calls, heartbeats, users and crashes are never fair.

`Fairness` (`WorkerTask`). A worker moves on: it executes what it has, and each call
is answered or given up, since the client has a timeout (`MovesOn`, weakly fair as
a whole, so that every call may be given up). A lease ages unless it is renewed
(`Age`), and the monitor sweeps every five seconds (`ExpireLeases`). Claims, stop
requests, heartbeats, late requests and crashes are not fair. That is all `Promise`
needs: a worker that is alive finishes its items, and one that is not lets its
lease run out.

The other modules have no liveness property: a case push, a verification or a
command may be abandoned at any point by design, and waits for people.

## 4. Proofs

Every safety property that a run expects to hold, invariant or action property, is
also a theorem, and so is every step of the two refinements. All theorems hold for
every value of the constants, that is for any number of jobs, hosts, workers,
handlers, requests, items, verifications, cleaners, stages and so on.

| Module | Theorem | States |
| --- | --- | --- |
| `IntegrationJob_proofs` | `TypeCorrect`, `LedgerSafe`, `OneJobAtATimeAlways`, `OpenWritesAlwaysFenced`, `NeverReopened` | `TypeOK`, `LedgerInv`, `OneJobAtATime`, `OpenWritesFenced`, `FinishedStaysFinished` |
| `IntegrationRecords_proofs` | `RecordSafe`, `RecordAlwaysFollows`, `SlotAlwaysFenced`, `CreatedAtMostOnce`, `DependenciesAlwaysFirst`, `LeasedAlwaysHasWork`, `SettledForGood` | `RecordInv`, `RecordFollowsOwner`, `SlotFence`, `OneShotOnce`, `DependencyOrder`, `LeasedHasWork`, `SettledStaysSettled` |
| `IntegrationWorker_proofs` | `WorkersTyped`, `ClaimsStayApart`, `WorkersKeepToTheLedger` | `WorkerTypeOK`, `ThreadInv`, and `WorkerSpec => Spec`: the workers with the ledger implement the ledger's specification |
| `IntegrationTruth_proofs` | `VerdictsStayTrue`, `WrittenOnce`, `SlotsAppliedOnce`, `ConfirmedIsTrue`, `LeasesCover`, `WritesInsideLease` | `TruthInv`, `WriteOnce`, `SlotAppliedOnce`, `ConfirmedTruth`, `LeaseInv`, `WriteInsideLease` |
| `WorkerTask_proofs` | `TypeCorrect`, `ReportClosed`, `LapsedWritesNothing`, `ReportsHold`, `SuccessEarned`, `ReportsAddUp`, `ImplementsLife` | `TypeOK`, `ReportIsFinal`, `LapsedHolderWritesNothing`, `ReportInv`, `SuccessIsEarned`, `ReportAddsUp`, and `SafeSpec => Life!SafeSpec`: the queue implements the safety part of `TaskLife` |
| `FunctionCasePush_proofs` | `TypeCorrect`, `LedgerTruthful`, `BatchPushedAsAdmitted`, `RestoreReviewedFirst`, `MappingsStable`, `CreatedAtMostOnce` | `TypeOK`, `LedgerTellsTruth`, `BatchAsAdmitted`, `ReviewAfterRestore`, `MappingStable`, `CreatedOnce` |
| `StoredFile_proofs` | `TypeCorrect`, `EvidenceAlwaysKept`, `LateWriterAlwaysWatched`, `StagingAlwaysReclaimed` | `TypeOK`, `EvidenceKept`, `LateWriterWatched`, `StagingReclaimed` |
| `StageChain_proofs` | `TypeCorrect`, `RunsLiveTogether`, `RunsStandOnApproved`, `HistoryIsKept`, `OnlyOldSnapshots` | `TypeOK`, `LivesTogether`, `StandsOnApproved`, `HistoryKept`, `OnlyByOldSnapshot` |

Of the inductive invariants only `LedgerInv` is in a run. `RecordInv`, `ThreadInv`,
`LeaseInv`, `TruthInv`, `ReportInv` and `Account` hold on the instances of `job_push`,
`worker_pair`, `worker_repush`, `task_queue` and `case_push`; to see TLC check one, add
it to the `INVARIANTS` of that run.

**Assumptions.** Each module names its own (`JobAssumption`, `PlanAssumption`,
`PlannerAssumption`, `BoundAssumption`, `NoStepIsNone`; `HostAssumption`;
`WorkerTaskAssumption`; `CasePushAssumption`, `NoneIsNoBatch`; `KindsAssumption`,
`BoundsAssumption`; `StageChainAssumption`, `NoneIsNoCommand`): null values are none
of the things they stand for, plans are as the planners emit them, a stage comes
after its upstream stages, bounds are numbers. TLC evaluates them in every run.
The guard `OneAtATime` is part of the ledger's `Spec`: it is the one thing assumed
of the workers. `WorkersKeepToTheLedger` proves that they provide it, so nothing
about the composed system rests on it.

**The ledger's invariant.** None of the properties is inductive alone. That a queued
job has no open write depends on expiry seeing the intent of the claim that ended;
that a late result cannot reopen a job depends on an ended job having no pending
step left; that at most one job is leased depends on the target column being set
exactly while a job is leased. `LedgerInv` collects this per job (`JobInv`) and
across jobs (`Exclusive`). Most handlers end in `finish`, so its effect is proved
once: `FinishJob` and the lemmas under it show that, from steps in which at most one
write is in progress, `Closing` after `Blocking` re-establishes `JobInv` whatever
status it aggregates. Each action then only has to show what it hands to `finish`,
and that it touches the locks of no other job.

**The local rows.** `RecordInv` says which step owns a row and what the two have in
common (`RowsInv`): an open write owns the row of its object, and so does a creation
or upload that succeeded. Beside it stand what a frozen submission may rely on, that an
active job has work left (`WorkLeft`), and that each job writes one activity. Again
`finish` does most: `Between` describes what a handler may have made of the tables
when it calls `finish`, with rows that are still due, and each part of `RecordInv` is
proved once from there, and once for `Submit` and `PrepareWrite`, which write rows
or steps without it. `LeasedHasWork` needs a first step among the open ones of a
plan: it comes from the library's well-foundedness of strict inclusion between
finite sets, applied to the dependencies, not from an induction theorem.

**The workers.** A claim generation is in the hands of one request loop at a time: as an
answer not read yet, as the job of a busy host, or as one call left behind.
`ThreadInv` says so, and that whoever has it knows of the only write of its job that
can be in progress. That gives `OneAtATime`, hence the refinement. Upon it, `TruthInv`
follows every verdict on its way to the ledger, in a host, its evidence file or a late
call: it is true of Zentao and stays so, because nothing that is still on its way to
Zentao can change what it says. `LeaseInv` ties what a host grants itself, its window
and the age of the claim answer it has not read yet, to the ledger's `lease`; only
the end of the job excuses it, and for a host that holds a permit only a cancellation.

**The queue.** `IInv` says that what a worker says fits what it is doing
(`ReportsFit`) and that only a worker which saw a stop request reports a
cancellation (`StopsAsked`), also for requests on the wire: without it a late
report could cancel a task nobody asked to stop. The steps of the status are
collected in `Edge`, which maps to the actions of `TaskLife` one by one. That a
success is earned and a report adds up needs `ReportInv` beside them: a runner has
reported the items before its own and not begun those behind it (`Progress`), and
of the calls of a task that carry it forward at most one is ever under way,
whatever was given up: a runner that gave up a call makes no other of that kind.
The proof goes by what a step does to one row (`RowGood`), to the runner that acts
(`GoesForward`, `StopsForward`) and to everybody else (`Calm`, `Steady`). The part of
`SuccessIsEarned` about runs (`RunIsEarned`) follows from it: a run takes a verdict
only in the step that ends its task, and from the items that step leaves (`Verdict`).

**The case push.** `PushOK`, `LoadedOK` and `AnswerOK` say what a handler may rely on
between its transactions, `WireOK` that a write on its way belongs to an operation
nobody has answered, and `BackupOK` that a backup satisfies what the rows do, which
is what a restore needs. `Grows` is what no step takes away from any handler. That a
case is created once is a count, and `Account` is what is counted: the creations
carried out and those on their way are at most the declared ones, one for a restore
and one for a case that is `Spent`, so that `Reserve` may only send another where
nothing is spent.

**The file.** `ThreadOK` ties a thread, its late storage request and its row;
`CleanerOK` says what a cleaner's claim still guarantees when its deletes come
late: its object key belongs to a verification that is published and condemned, or
that is not published at all, so that no kept object is ever its target.

**The chain.** The invariant is stated of rows as parameters (`RowsOK(st, at, ve,
qu)`), because a command that takes new input first detaches what was there and
then dispatches: both halves keep it, each proved once (`DetachOK`, `DispatchedOK`).
Of a command it says nothing but that its snapshot was true once. `HistoryKept` and
`OnlyByOldSnapshot` are then step properties, shown action by action.

**Only model-checked.** Liveness under fairness: `ClaimEnds`, `SuccessRecorded` and the
liveness part of `Promise`; with `ENABLED` it is out of reach of the prover, as is
induction over data. No module has a recursive definition. What the
two runs of section 5 check is false, and has no theorem.

## 5. Findings

**More than one writer per Zentao instance.** `docs/integration-worker/README.md:33`
promises that more replicas do not raise the number of concurrent writes to one
Zentao instance. The run `worker_target` shows two: the first worker is inside its
write when its job is canceled (access revoked, target changed) or its lease
expires; `finish` clears `active_target` (`CP/services/integration_job.py:498`),
another replica claims the next job of that instance, and writes too. The writes of
one *object* remain exclusive (`SlotFence`), and the first write is recorded as
unknown, so nothing is lost or repeated; the sentence about concurrency is what
does not hold.

**A file claimed for deletion is attached again.** `docs/control-plane/file-storage.md:60`
says that a deleting file which a cleanup has claimed cannot be attached again. The
run `stored_reattach` shows one: a pulled attachment is ready but its attachment was
never committed; it expires, a cleaner claims it and fails; the next pass takes a
deleting file with a completed upload and an existing bug for legacy evidence
(`CP/services/stored_file_cleanup.py:49`), archives it, and attaching it to the same
bug succeeds, although the first cleaner may have deleted its object.

Two more behaviours are kept in the model and excused in a property rather than
claimed as a finding. `OnlyByOldSnapshot` excepts commands that read the database
before a version was deleted: such a run may overrun a draft, and such new input
may show a stage as approved without a version. And the collector of verifications
drops a tombstone that was settled after its delete began, so that an object
written in between is never collected (`CP/services/file_verification.py:232`).

## 6. Abstractions and what is left out

Everywhere: contents, wording, and the reasons of refusals; permissions and
revisions appear as refusals that may happen. Clocks are accurate up to `Margin`.

*Integration jobs.* The worker may take any ready step where the code takes the
first of the plan. Not modelled: evidence that cannot be written to disk, late
heartbeats or completions, graceful shutdown (its effects are those of a lost window
followed by a restart), removal of a bug's link, a switch of its target, runtime
generations, quarantine, archiving and retention. A user reconciles only what
Zentao shows. Re-submission under the same request id changes nothing. The worker's
call of `completed` is never reached, because `finish` ends a job with its last
step: `LeasedHasWork`.

*Test tasks.* A success of a task and a success its run shows are two things: a
collection run takes its verdict from its items (`worker_domains/api.py:320`), so one
whose worker was lost, or reported an error, after some items had succeeded shows
success although its task is an error and other items are skipped or still open.
`SuccessIsEarned` says exactly how far that goes. `FailAuthorization` always fails the
run: the branch of `fail_authorization` without an authority needs a task whose run or
container is gone, which foreign keys (collection, suite, case) and the deletion of
tasks together with their runs (`repositories/deletion.py`) exclude. Not modelled: step reports of UI cases, secrets and extracted
variables, notifications, live UI debug cases, the removal of runs by their owner,
the worker's "once" mode, late heartbeats.

*Case push.* `Reserve` includes sending the write: a handler that dies in between
left a write that never lands. `FindResult` and `FindNothing` merge the first
transaction of a decision with its read of Zentao. Not modelled: deletion of cases
in Zentao, the push of a requirement with several suites, modules, preview, a
change of the connection. People may bind a remote case that a pending creation
has just made; the receipt is then refused and the operation waits for people.

*Files.* Not modelled: objects shared by historical rows (`live_keys`), download
tickets, published skills, files retired by a live debug run, and a retry inside
the storage client whose first attempt is carried out after the second succeeded.
`condemned` is a history variable.

*Chain.* One chain per instance; that the function chain also depends on the
requirement's understanding is one more upstream stage. An attempt has an output or
none. Heartbeats and progress only postpone `Expire`. The identity of the calling
worker is checked as in `WorkerTask`. Not modelled: auxiliary and standalone stages,
imports, the signature of a request (it decides about the reply only). A late
duplicate of an approval may approve again after the version was deleted: the
candidate is a draft again, and the client asked for exactly that.

*Components not modelled* are listed with the reason in `PROJECT.json`: the AI worker
(its reports are the environment of `StageChain`), restore and maintenance of
integration jobs, and everything request-scoped.

## 7. What could follow

1. Restore of integration jobs: runtime generations, quarantine, review and release
   on top of `IntegrationJob`. Proof: no permit is given for a quarantined job.
2. Proofs that the two findings are the only ways to the states they show: at most one
   writer per Zentao instance as long as no job of it was canceled or expired with an
   open write, and no second attachment of a claimed file other than through legacy
   evidence.
3. The push of a requirement with several suites; UI step reports.
