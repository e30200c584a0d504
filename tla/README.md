# A TLA+ verification project for Cygnus

Cygnus compiles sources (files, URLs) into a governed wiki, publishes versions
of it, and delivers what it published to consumers. Its API and its workers
share a PostgreSQL database and an ARQ queue in Redis. Wherever one process
must make another do something, the code writes an *outbox row* in the database
and a sweep re-drives what was lost. These protocols carry the system's
correctness, and they are what this project models, checks and proves.

## Inventory

| Part | State it keeps | Operations | What is hard | What makes it correct |
|---|---|---|---|---|
| Source dispatch outbox (`runtime/source_dispatch.py`) | one row per (source, generation, stage): status, lease, token, attempts | record, enqueue, claim, renew, fence, complete/fail/stale, sweep | four kinds of process on one row; ARQ redelivery; leases | live owners keep their row, closed rows stay closed, nothing recorded is lost, nothing current is dropped as stale |
| Pipeline tasks (`runtime/worker.py`, `runtime/ai/mrp`) | the source's status, pages, checkpoints | ingest, caption, map-reduce, refine, regenerate plan | each commits several times around long external work | handoffs are atomic; stale tasks have no effect |
| Sources API (`runtime/routers/sources.py`) | source rows, generation | upload, update, retry, approve, reject, delete | unlocked read-modify-write of the generation; requests that die between enqueue and commit | every request's execution is recorded and ends; a deletion closes what is open |
| Source deletion (`runtime/source_deletion.py`) | deletion intents, tombstone | request, claim, clean the prefix, remove, fail, orphan cron | crash or storage error between storage and database; overlapping sweeps; an ingest that still runs | storage is gone before the row is; failures stay visible; every deletion ends |
| Propagation delivery (`publish/delivery.py`) | deliveries, circuit breaker, propagation | claim, send, retry, dead-letter, acknowledge | claims expire while a send is under way; late acknowledgements | a synced delivery stays synced; attempts are bounded |
| Durable publish and ledger (`publish/durable.py`, `governance/ledger.py`) | publications, append-only events | publish, update propagation, append | expected states, idempotency keys | the ledger and the rows tell the same story |
| Contributions and branches (`review/contributions.py`, `review/branches.py`) | drafts, branches, page revisions | propose, edit, submit, approve, reject, request changes, withdraw, merge, close, re-ingest fence, source retry | a reviewer's request decides on what it read before | only reviewed content is published; approvals are serial; decisions stand |
| AI pre-review (`review/pre_review`) | dispatch intents, queue mark and verdict of a draft | stage, claim, enqueue, run, sweep stuck runs | minutes of checking outside any transaction, while the draft changes | a verdict is about the current content; every draft in review gets one |
| Feedback routes and assignments (`governance/feedback_*.py`, `review_assignments.py`, `signals.py`) | facts, routes with leases, signals, assignments with history | record, claim, execute, block, fail, assign, resolve | leases taken for a batch run out one by one; commits whose answer is lost | one outcome per route; every route ends; a gapless history |
| Backup and restore (`runtime/backup_restore.py`) | packages; a target's database, objects and queue | backup, restore, drill, reconcile, beside uploads and deletions of sources and skills | two stores without a common transaction; failures and kills anywhere | packages are consistent; a completed restore is whole; work and services go on |
| Tool receipts, OAuth, tickets, recovery windows | single rows | idempotent commands | little concurrency beyond a unique key | not modelled yet (see the end) |
| Retrieval, evaluation, capacity, observability, frontend, migrations | derived or external | queries, probes, file I/O | little shared state | not modelled (see the end) |

The parts interact through the database (row locks, unique keys, transactions
that commit or vanish), through ARQ (a deterministic job id is accepted once
while a job or its kept result exists; a worker that dies leaves a job that is
run again), through the object store (which no transaction covers), and through
time (leases, backoffs, cron sweeps). A re-ingest of a source withdraws the
compiler's drafts in review; a submitted draft stages a pre-review; an approved
draft is published; a publication is delivered; feedback about it is routed to a
reviewer. Deletion and backup cut across all of it.

`PROJECT.json` lists every component with its status, and every hazard: a place
in the code where an order of steps, a crash or a stale value could break one
of the properties above.

## Modules

| Module | What it is |
|---|---|
| `SourceDispatch` | the outbox of one source with the tasks, requests, sweeps and clock that drive it |
| `DispatchContract` | what the outbox promises, without leases, jobs, sweeps or retries; `SourceDispatch` implements it |
| `SourceDispatchInv` | its inductive invariants, and the deployments (`Tolerated`, `Renewing`, `Serial`) for which they hold |
| `PropagationDelivery` | delivery of one object's publications to one channel, with the publish command, operators, ledger keys and consumer receipts it interacts with; its inductive invariant |
| `PreReview` | the pre-review of one draft: its outbox, sweeps, workers, stuck-run cron and the draft operations that race it |
| `DraftReview` | competing drafts of one page: contributions, branch, reviewers' requests, ledger, page writes, publication |
| `SourceDeletion` | deletion of sources by two requesters and overlapping sweeps, beside an ingest |
| `DeletionContract` | what deletion promises, without sweeps, leases or attempts; `SourceDeletion` implements it |
| `FeedbackRoutes` | feedback commands, routes, drains, signals and review assignments |
| `FeedbackContract` | what routing promises, without drains, leases or attempts; `FeedbackRoutes` implements it |
| `BackupRestore` | backups of a running system, and restores, drills and reconciliations of a target |
| `*Proofs` | the theorems about each of them, with their proofs |
| `SourceDispatchRefinement` | the proof that `SourceDispatch` implements `DispatchContract` |
| `MC*` | the instances for TLC; one `.cfg` per instance |

A definition whose comment begins with "Mutant" is a deliberately wrong version
of the one that follows it. No specification uses it: it is there to show that a
property fails when the code is wrong in that way, and `PROJECT.json` says which.

### SourceDispatch and the code

*State.* `source` is the row of `sources` (generation, tombstone, status, and
the stage whose gate it stands at). `row[e]` is the
`SourceDispatchExecution` of execution `e = <<generation, stage>>`; its job id
is deterministic, so `job[e]` is what ARQ holds for it. `wk`, `sw` and `api`
are the tasks, the sweeps and the API requests in progress, with what each has
read and not yet written. `faults` counts injected faults.

*Steps.* A step is a database transaction or a call to ARQ. A transaction that
calls ARQ in the middle (`_enqueue_via_outbox`, the handoff of a task) is split
at the call: `ApiRecord`, `ApiEnqueue`, `ApiCommit`; `TaskHandoff`,
`TaskHandoffCommit`. Sessions keep the row object they loaded and flush only
the columns they changed; `Flushed` models that, and it is what makes lost
updates visible. A terminal mark reads its row without a lock and writes it at the
commit (`TaskReadRow`, then `TaskComplete`, `TaskFail`, `TaskStale` or
`TaskHandoffCommit`): what a deletion or a sweep did to the row in between is
overwritten. `_auto_trigger_refine` commits twice around its enqueue
(`TaskAutoRecord`, `TaskAutoEnqueue`, `TaskAutoAck`).

| Action | Code |
|---|---|
| `ApiLoad` .. `ApiCommit` | `retry_source`, upload, re-ingesting `update_source`, `approve_extraction`, each through `_enqueue_via_outbox` |
| `ApiDelete` | `request_source_deletion`: the tombstone, and in the same commit every open execution closed as stale |
| `TaskStart`, `TaskClaim` | entry of an ARQ task, `claim_source_dispatch` |
| `TaskProcessing`, `TaskGate` | `mark_source_processing`, `mark_source_awaiting_approval`, not fenced |
| `TaskFence`, `TaskSuperseded`, `TaskStale` | `fence_source_dispatch`, its exception, and the handler that marks the row stale |
| `TaskReadRow` | the unlocked `db.get` of `complete_`, `fail_source_dispatch` and `mark_source_dispatch_stale`; their write comes with the commit (`Marked`) |
| `TaskFinal`, `TaskComplete` | effect of the last stage, `complete_source_dispatch` |
| `TaskError`, `TaskFail` | the two transactions of the error handler |
| `TaskReturn` | the early return that leaves the execution running |
| `SweepClaim` .. `SweepNack` | `sweep_source_dispatches` |
| `StuckSweep` | `sweep_stuck_processing_cron` |
| `LeaseExpires`, `RenewalStops`, `BackoffEnds`, `ResultExpires` | time |
| `TaskCrash`, `SweepCrash`, `ApiAbort` | processes that die |

*Abstractions.* Timestamps become what the code compares them for: a lease is
none, live or expired; a row waits for its next attempt or does not. A lease
token is the worker that took it. `attempt_count` saturates at the budget,
because the code only asks whether it has been reached. The contents of sources
and pages are left out. Two abstractions follow from durations in the code: a kept result
(an hour) outlives a sweep, and `sweep_stuck_processing_cron` (at least half an
hour without progress) does not meet a running task. The gap between
`enqueue_job` and the commit of the recording transaction shows only with the
fault `"gap"`: it is short, but real. Database errors are no fault of this model,
so the fallback of `_auto_trigger_refine` (a plain enqueue when the recording
fails) is left out.

*Constants.* `Continuation` is the pipeline; `Gated`, `AutoTriggered` and
`SilentReturn` say which tasks have these branches; `ClaimsAs` is the stage a
task names when it claims, normally its own.

*Contract.* `DispatchContract` sees of a source its generation, whether it is
being deleted, and of each execution whether it is not there yet, open, or which
verdict it got. Four things happen: a cycle begins (`Begin`), a stage hands off
(`HandOff`: its continuation opens in the step that completes it, and no other
stage of the cycle is open), executions get a verdict (`Close`: those that are
open, or that the source has moved past; as stale only in the second case, as
completed only if nothing is left to hand off), the source is deleted (`Delete`,
which closes whatever is open). A verdict can be rewritten where the source has
moved past the execution: the code has that, because its marks read before they
write. The refinement maps `gen` and `deleted` to the
source's columns and a row's status through `ExecutionState`, which takes the
four statuses between recording and verdict for one. The rest is hidden: tokens,
leases, attempts, jobs, tasks, sweeps, requests. A late task of a superseded
cycle may still hand off in its own cycle; the contract says so too, because the
code has it (its fence is read before its commit).

### PropagationDelivery and the code

*State.* Publications are numbered in order; each has a `delivery` row and a
`propagation` row. `ledger` holds the idempotency keys of the events the
delivery writes, `receipt` what the consumer has stored. `sweep[s]` is a worker
process inside `drain_propagation_deliveries`: the claims it has left, the
attempts it read when it claimed them (`snap`), and the outcome it has to
record. `circuit[s]` is the breaker in the memory of that process. `callback` is
the delivery an acknowledgment request has locked.

*Steps.* A step is a transaction or one end of the HTTP request. The
acknowledgment is split after its check for a newer publication
(`SweepAckVerify`, `SweepAckCommit`; `CallbackVerify`, `CallbackCommit`): the
delivery is locked from there on (`Locked`), a publication may still happen.

| Action | Code |
|---|---|
| `Publish` | the rows `apply_durable_publish` stages |
| `OpsUpdate` | `update_propagation` |
| `SweepClaim` | `_claim_pending_deliveries` |
| `SweepSkip`, `SweepReject`, `SweepSend`, `SendEnds` | `_execute_delivery_claim` up to the outcome of `send_delivery_request`; `SendEnds` includes the consumer's `_persist_receipt` |
| `SendRaises` | an exception the send does not catch (a malformed redirect, a decoding error): the drain reverts the claim and no attempt is counted |
| `SweepAckVerify`, `SweepAckCommit` | `acknowledge_propagation_delivery`, called by the sweep |
| `CallbackVerify`, `CallbackCommit` | the same, called by `POST /api/internal/propagation-ack` |
| `SweepRetry`, `SweepTerminal`, `SweepRevert` | `_record_retry`, `_record_terminal` with `_transition_propagation`, `_revert_to_pending` |
| `LeaseRunsOut`, `LeaseOutrun`, `CircuitCools` | time |
| `SweepCrash`, `SweepAborts`, `SweepEnds`, `CallbackAborts` | processes that die, transactions that are aborted |

*Abstractions.* Signatures, digests and the rules for destinations are their
verdicts: an answer is verified (`"synced"`), worth a retry, or rejected; a
channel has a usable target, none, or a refused one. A lease is fresh or old
(`updated_at` against the cutoff), and only a claim of a pending row makes it
fresh: taking over an old claim changes no column, so `updated_at` stays.
`attempts` saturates one above the maximum. An operator's version check is left
out (an operator always read the current version); a repeated command id changes
nothing. Opposite lock orders end with one transaction aborted by the database:
for the operator that is no step, for the acknowledgment the fault `"db_error"`.

### PreReview and the code

*State.* `draft` holds the columns of one `wiki_page_drafts` row that matter
here; a revision stands for the pair (version, revision round) that the code
compares. `dispatch[r]` is the intent of revision `r`, `job[r]` what ARQ holds
for its job id. `sw` and `wk` are sweeps and workers in progress, `edit` an
author's request that holds the aggregate lock between its read and its write,
`stuck` the cron between its statements. `draft.raced` is history: the last rebase
read the draft as pending, and a sweep had taken it when it was written.

| Action | Code |
|---|---|
| `Author`, `AuthorStalls`, `AuthorResumes` | update, submit, resubmit, rebase, in one step or with anything in between; `Edited` writes the columns the session found changed |
| `RequestChanges`, `Close`, `BranchSubmit` | decisions on the draft, and `submit_wiki_branch` |
| `SweepClaim` .. `SweepNack` | `sweep_ai_pre_review_dispatches` |
| `RunnerStart`, `RunnerFinish` | the two transactions of `run_async_checks`, with the checks in between; the second decides on the intent as its session has it cached (no `populate_existing`, `expire_on_commit=False`), so it overwrites what the cron wrote |
| `StuckSelect`, `StuckUpdate`, `StuckFail` | the SELECT and the two UPDATEs of `sweep_stuck_ai_review_cron`; when the first UPDATE wrote the draft its row lock lets no runner in before the second, and they are one step |
| `SweepDies`, `RunnerDies`, `RunnerStartFails`, `SweepEnqueueFails` | faults |

The checks are a verdict; passed, warned and failed are one. A lease or a
backoff is the flag `due`.

### DraftReview and the code

*State.* One page, the drafts that edit it, one branch with at most one of them,
`ledger[d]` the state the events of a draft replay to with its approval and
digest, `req` the requests that have read their draft and not yet written,
`publication` the latest publication. `unlogged` is history: the drafts whose
status a branch, or a repeated request for changes that came late, wrote without a
ledger event. `generation` is the source's, `fence` that of its last re-ingest.

| Action | Code |
|---|---|
| `Propose`, `Update`, `Submit`, `Resubmit`, `Rebase` | the author's operations, which lock before they read: one step each |
| `Reingest` | the re-ingest of `update_source`, which withdraws the compiler's open drafts in its transaction |
| `RetrySource` | `retry_source`: the next generation, and no draft is withdrawn |
| `Load`, then `Approve`, `Reject`, `RequestChanges`, `Withdraw`, `CloseBranch` | a request reads without a lock, and its transaction writes later; merging a branch and overriding a conflict are `Approve` with another kind |
| `SubmitBranch`, `Publish` | `submit_wiki_branch`, `apply_durable_publish` with its guards |
| `RequestFails` | refused, aborted or abandoned |

`Append` is the ledger: an event whose expected state is not the replayed one
aborts its transaction, and an event that is there already under the same key is
answered with it and appends nothing, while the transaction still writes the draft. Text is a member of a small set; a digest is the tuple
of what it hashes.

### SourceDeletion and the code

*State.* `source` rows (live, tombstoned, gone), `intent` rows, the objects in
`store`; `held` is history: the objects that were there when the tombstone was
committed and still are. `request`, `sweep` and `work` are transactions and tasks under way.

| Action | Code |
|---|---|
| `ApiLoad`, `CronLoad`, `RequestRead`, `RequestCommit`, `RequestAbort` | `request_source_deletion`, from `delete_source` and from the orphan cron |
| `SweepSelect`, `SweepClaim` | selection with its limit, the claim of one intent |
| `SweepList`, `SweepObject`, `StorageFails` | prefix cleanup, object by object, outside any transaction |
| `RemoveRows`, `RemoveFails`, `SweepCrash` | removal of the row, or not |
| `WorkStart` .. `WorkCommit` | an ingest that uploads, parks for approval, fences and commits |

`DeletionContract` has three steps: a source is hidden, the objects it had are
removed, its row goes when none of them is left; and under weak fairness a
hidden source goes. The refinement maps the variables of the same names; the
rest of `SourceDeletion` is hidden.

### FeedbackRoutes and the code

A command names its fact, its route and its signal, which the code ties one to
one. A drain keeps its batch and works on one claim at a time; `CommitAnswered`
is the commit whose answer may be lost, after which the worker takes the failure
path of a route that is closed.

| Action | Code |
|---|---|
| `RecordFeedback` | `record_feedback_signal` with `route_feedback_signal` |
| `ClaimRoutes` | `claim_feedback_routes`, which also fails routes that are out of attempts |
| `StartExecution`, `ExecuteComplete`, `ExecuteBlock`, `ExecuteRaises`, `ExecuteNothing` | `execute_feedback_route` |
| `StartRecording`, `RecordFailure`, `RecordNothing` | `record_feedback_route_failure` |
| `ApplyAssignment`, `ResolveSignal` | `apply_review_assignment_command`, `resolve_governance_signal` |

`FeedbackContract` records facts with the outcome they are owed (`Record`), gives
an outcome with its review work in one step (`Deliver`) or without any
(`GiveUp`), and lets active work be decided on and resolved (`Decide`,
`Resolve`). The refinement maps a route's state through `Outcome`, which takes
queued and running for one; facts, signals and assignments are the same.

### BackupRestore and the code

The running system is what it does to the two stores: an upload commits its row,
puts the object, commits the key and records the dispatch; a deletion
tombstones, cleans, removes; a skill, version or contribution has its files stored
before its row, loses them and gets new ones while the row keeps its `storage_path`,
and is deleted files first. An `Owner` is a source or a skill. These stand for the
five kinds of reference of `_database_object_references`: a source's image is
stored before its row and removed with the source's prefix, as its file is, and
the three prefixes behave alike. A backup quiesces, dumps, counts, lists, copies
object by object, resumes and publishes. Restores, drills and reconciliations
share one target. Checksums, encryption, signatures and key fingerprints are
verdicts: a package that fails them is refused before anything is written.

| Action | Code |
|---|---|
| `BackupQuiesce` .. `BackupPublish`, `BackupFails`, `BackupNotQuiesced`, `BackupNotResumed`, `BackupKilled` | `run_backup` and its failures |
| `RestoreBegin`, `RestoreTables`, `RestoreDatabase`, `RestoreObject`, `RestoreMigrate` | `run_restore`; `pg_restore` creates its tables first and fills them afterwards |
| `RestoreTablesFail`, `RestoreDataFails`, `RestoreStops` | it meets tables, breaks off with some tables filled, or the command ends anywhere |
| `ReconcileBegin`, `CheckReferences`, `Flush`, `Replay`, `ReplayDeletions` | `run_reconcile`, or the same steps at the end of `run_restore` |
| `Drill` | `run_drill`, its checks after the restore |
| `TargetSweep`, `TargetRuns`, `TargetLeaseEnds` | the target's own crons, workers and time |
| `OperatorStarts`, `Discard`, `TargetStarts` | what the runbook tells the operator to do |

The reference query passes over tables without rows (`CheckReferences`), and
`run_reconcile` has no other check; it may fail where tables are still missing. A sweep, replayed or by the target's cron, may enqueue or close any of the rows
that are due: which of the two is the business of `SourceDispatch`.

## Runs

Deadlock is not checked: a source whose generations are used up, a settled
delivery, a decided draft and a finished restore rightly come to rest.

| Run | Question | Instance |
|---|---|---|
| `generations` | do late tasks of an old cycle, and marks on unlocked reads, disturb the new one, and does every execution end? | 2 cycles, 1 stage, 2 workers, 1 fault |
| `handoff` | do two sweeps and two workers keep the outbox within its contract and its invariant, and give up nothing too early? | 1 cycle, 2 stages, 2 sweeps, 2 attempts, 2 faults |
| `gate` | does the execution that waited behind an approval gate, and everything else, end? | 1 cycle, 2 stages, 2 attempts, 1 fault of four kinds |
| `auto_trigger` | is the separately committed handoff lost, and does everything end under every fault? | 1 cycle, 2 stages, all faults, 1 of them |
| `no_images` | violation: the execution of a source without images is never claimed | no fault |
| `delivery_races` | do two sweeps, the endpoint and operators keep the rows, the ledger and the receipts in agreement? | 1 publication, 2 processes, 2 attempts, 2 operators' updates, 2 faults of any kind |
| `delivery_settles` | does the delivery of the latest publication end? | 2 publications, 1 process, 2 crashes or aborted transactions; sends that raise |
| `pre_review` | is a verdict ever about other content, and does it come? | 2 revisions, 2 sweeps, 2 workers, 2 attempts, 1 fault of any kind; every edit may stall, rebases too |
| `draft_review` | can reviewers who decide on stale reads break ledger, page or publication? | 2 drafts (one branched, one compiled), 2 requests, 2 texts, 2 versions, 3 page versions, 2 generations by re-ingest or retry; repeated requests |
| `source_deletion` | does deletion keep its contract? | 1 source with 2 objects and a running ingest, 2 sweeps, 2 requesters, 2 attempts, 3 faults |
| `feedback_routes` | do routes keep their contract, and leases and histories hold, whatever drains do? | 2 commands, 2 drains, 2 attempts, 2 assignment commands, 3 versions; crashes unbounded |
| `backup_restore` | are packages and restores whole? | 1 source or skill, 2 backups, 2 restore commands; failures and kills anywhere |

*Bounds.* Two generations are enough for "older than the current one", two
stages for "this one and the next", two workers, sweeps or drains for every race
over one row. A budget of two attempts separates the first failure, a retry and
exhaustion (one, in `generations` and `auto_trigger`, only shortens the path to
the end; `feedback_routes` was also run with three, 791 thousand states). One to
three faults per behaviour let TLC place them anywhere. Deliveries of different
publications share only the order of a batch, the circuit and the check for a
newer publication, so races over one delivery are explored with one publication
and supersession with two. Two drafts suffice for competition over a page, and
three page versions for two serial writes; a second generation is explored only
once a draft of the first exists (`DraftsMeetGenerations` in `MCDraftReview`), since
an older generation with no draft has no effect. Two objects make a prefix that can be
half removed. `BackupRestore` bounds the application by `Watched` (it stands
still once no backup will look at it again); rows of different sources meet only
in the counts and listings of a package. Larger instances of these modules are
covered by the theorems, which have no bounds.

*Fairness.* Faults are never fair, and nothing is assumed of the consumer, of
authors who have not begun, of reviewers or of operators.

* `generations`, `gate`, `auto_trigger`: tasks and requests keep running (they have
  timeouts), ARQ eventually starts a queued job, the cron keeps sweeping, leases
  and backoffs run out, results expire. Start of a job and expiry of a result
  need strong fairness: they are disabled again and again while workers are busy
  or a sweep is under way.
* `delivery_settles`: the cron keeps sweeping and requests time out, a claim
  nobody works on grows old, the circuit cools down, a begun acknowledgment ends.
  A send may raise again and again, and `LatestSettles` says so: it excepts the
  behaviours in which the sends of that delivery raise for ever.
* `pre_review`: sweeps, started runs, the stuck-run cron, leases, backoffs and
  result expiry; an author's request that has begun ends.
* `source_deletion`: the sweep cron and a begun request go on, a backoff elapses;
  at most `MaxFaults` faults, since a store that fails for ever is never cleaned.
* `feedback_routes`: the drains' cron, a drain's own steps, leases and retry
  delays. Crashes are unbounded here: the attempt is counted with the claim, so
  even a route that always crashes ends.
* `backup_restore`: a backup command that runs goes on; the target's cron,
  workers and leases. An operator is not assumed to start anything.

The type invariants (`TypeOK`) are theorems and in no run of the newer modules;
`handoff` and `delivery_races` check them inside `OutboxInv` and `DeliveryInv`.

## Findings

`no_images` quotes the sentence of the repository it contradicts. The other
places where a sentence of the repository, or a reasonable expectation, and the
code part ways are stated as properties of their modules; each `.cfg` reproduces
the counterexample:

| Instance | Property refuted | What the code does |
|---|---|---|
| `DispatchAutoAck.cfg` | `LiveOwnerKeepsRow` | `_auto_trigger_refine` flushes its acknowledgement over a row its worker has claimed (`ai/mrp/pipeline.py:696`) |
| `DispatchTwoRetries.cfg` | `GenerationMonotone` | a retry that loaded the source before another one committed writes the older generation back (`source_dispatch.py:227`); the module's docstring calls it the "monotonic ``sources.dispatch_generation``" (`source_dispatch.py:3-4`) |
| `DispatchLateError.cfg` | `StaleNeverMarksError` | the error handler of a superseded task marks the newer cycle's source as failed (`worker.py:784`) |
| `DeliverySuperseded.cfg` | `RetriesAreBounded` | the delivery of a superseded publication is sent for ever |
| `DeliveryRaises.cfg` | `RetriesAreBounded` | a send that raises what `delivery.py:455-478` does not catch returns its row to pending with no attempt counted; `delivery.py:16` says retries are bounded |
| `PreReviewRebase.cfg` | `VerdictAlwaysCurrent` | a rebase that read the draft as pending writes no verdict column, so the verdict of a check that ran meanwhile stays on the rebased content (`branches.py:226`); the comment at `runner.py:355-357` says the newer staged job is the sole writer |
| `PreReviewOverwrite.cfg` | `FailedStaysFailed` | the guard of the last transaction of a run reads its cached intent, so a run the cron has failed completes it (`runner.py:367-406`), where the log line says "no longer running, dropping verdict" |
| `DraftRetry.cfg` | `SupersededStaysOut` | a retry advances the generation and withdraws no draft: a reviewer who passed `validate_compiler_draft_context` before approves a superseded draft; `worker.py:449-450` says the retry starts a new generation "fencing any straggler" |
| `DraftReplay.cfg` | `ReplayIsHarmless` | a repeated request for changes writes the status of a draft that has moved on, with no event; `ledger.py:165` promises "its exact idempotent replay" |
| `DraftRepublish.cfg` | `ApprovedCanPublish` | the publish event leaves from the state of the page's last publication (`durable.py:787`): a revision of a published page is refused |
| `DeletionLate.cfg` | `NoLateCommit` | refine fences once (`worker.py:1711`) and commits later, after the tombstone; the comment at `source_deletion.py:81-83` excludes that |
| `DeletionAnswer.cfg` | `AnswerIsTrue` | `sources.py:1333` passes a source id where an intent id is looked up, so the immediate cleanup always reports "completed" |
| `BackupNotResumed.cfg` | `FailedBackupResumes` | `quiesced` is set only after the quiesce command succeeded (`backup_restore.py:1218-1226`): a quiesce that stops some services and fails leaves them down; `docs/en/backup-restore-runbook.md:19-20,102-103` promises the resume hook |
| `BackupRefused.cfg` | `PackagesRestore` | a package taken in the middle of a deletion, or with a contribution whose files were deleted (`skill_contributions.py:393-416`), is refused by the reference check (`backup_restore.py:2895`) |
| `BackupReconcile.cfg` | `ReconciledIsWhole` | over the tables of a `pg_restore` that broke off before their rows nothing is missing, and `run_reconcile` reports completed (`backup_restore.py:3192`) |
| `BackupOverlap.cfg` | `PackagesAreComplete` | nothing keeps two backups apart: the first one to end starts the services under the other |

Further observations, each reachable in a model with the constant named:

* Dispatch: `"renewal_stops"` lets the fence close a current execution as stale
  (one exception ends the renewal for good, `source_dispatch.py:509`); `"gap"`
  lets a worker run unclaimed (`worker.py:323`); `"rerun_finished"` re-runs a
  completed execution, unfenced (`source_dispatch.py:432`); two
  approvals of one gate can re-arm a closed row (`worker.py:718`). A gate is not
  fenced: that of a task of an older cycle lets an approval start the next stage
  of the new cycle beside its first, so stages no longer take turns and a closed
  row can change its verdict, without any fault. A session that loaded a row
  before a sweep gave it up writes its older `attempt_count` back with its own
  columns: with a gate or `_auto_trigger_refine` and three or four failed
  enqueues, `ExhaustedUsedBudget` fails. The assumptions of the theorems below
  exclude these cases. `regenerate_plan` has one execution per
  generation, so a second regeneration finds a closed row (`worker.py:475`);
  `caption_images_task` does not cancel its renewal when its chaining code raises
  (`worker.py:2717`); a sweep enqueues every row it selected, also one its own
  re-check skipped (`source_dispatch.py:835`).
* Delivery: `RetriesAreBounded` also fails with one publication and one
  operator's update: the terminal event's key is the delivery
  (`delivery.py:1372`), so a dead letter that an operator retried cannot be
  dead-lettered again. A sweep that was overtaken can return a dead letter to
  pending (`delivery.py:1315`); an operator's hold (`durable.py:1108`) is undone
  by the sweep that had the claim; whether a publication is the latest is checked
  before the aggregate is locked (`delivery.py:737`).
* Pre-review: a run that starts between the two UPDATEs of the stuck-run cron has
  its intent failed under it (`worker.py:2302-2325`); a draft resubmitted
  before the stuck-run sweep leaves its old intent running for ever; a branch that
  reopens a revision already staged leaves the verdict column pending.
* Draft review: `submit_wiki_branch` and
  `close_wiki_branch` write a status with no event (`branches.py:91`); the ledger
  then refuses every operation of that draft, and a compiler draft among them
  blocks the re-ingest. `StatusMatchesLedger` excludes such drafts (`unlogged`).
  Approval passes no expected version. Two drafts of one page on a branch cannot
  be merged: the second no longer has the page's version as its base.
* Deletion: the selection takes 25 intents before it filters on backoff, so
  intents that wait can starve newer ones; retries do not stop at the maximum;
  an object uploaded after the prefix was listed stays behind as an orphan; the
  cron writes an intent over one it did not lock (`NeverDowngraded` states it);
  it may also tombstone a source approved since it was selected.
* Backup: a drill reports a miss when the reconciliation finished a pending
  deletion; the drill does not look at the work of a row; the flush of Redis
  drops jobs whose rows hold leases, which delays them until the lease ends.

## Proofs

Each theorem holds for every value of the constants: any number of workers,
sources, drafts, attempts and faults.

| Module | Theorems | Assumption |
|---|---|---|
| `SourceDispatchProofs` | `TypeCorrect` | none |
| | `HandoffsRecorded` | `AutoTriggered = {}` or `Serial` |
| | `OutboxInvariant`, `OneTipPerCycle`, `GivenUpAtBudget` | `Tolerated` |
| | `LiveOwner`, `StaleIsSuperseded`, `TerminalRowsFinal` | `Tolerated`, `Renewing` |
| `SourceDispatchRefinement` | `OutboxImplementsContract` | `Tolerated`, `Renewing` |
| `PropagationDeliveryProofs` | `DeliveryInvariant`, `SyncedIsReceived`, `DeadLettersFailed`, `SyncedStays` | none |
| `PreReviewProofs` | `PreReviewInvariant`, `PreReviewTypes`, `TerminalIntentsAreFinal`, `IntentsCoverDrafts`, `VerdictsAreCurrent` | none |
| `DraftReviewProofs` | `ReviewTypes`, `ReviewInvariant`, `ApprovalsAreSerial`, `PublishesWhatWasReviewed`, `DecisionsAreFinal`, `FencedDraftsStayOut`, `LedgerFollowsStatus` | none |
| `SourceDeletionProofs` | `DeletionTypes`, `RemovedIsClean`, `FailuresAreVisible`, `ImplementsContract` | none |
| `FeedbackRoutesProofs` | `FeedbackTypes`, `RouteInvariant`, `OutcomeOnce`, `LeasesHonoured`, `ClosedRoutesFinal`, `HistoriesExplain`, `RoutesImplementContract` | none |
| `BackupRestoreProofs` | `BackupTypes`, `CompletedIsWhole` | none |
| | `PackagesComplete`, `RefusalIsThePackages`, `DrillIsTruthful` | `~MayOverlap`: one backup at a time |

`Tolerated` is a deployment whose stages hand off in one commit and are not
gated, whose tasks claim their own stage, with one request at a time per source,
and with any number of crashes, shutdowns, failed enqueues and lease renewals
that stop. `Renewing` adds that none stops. `Serial` is only one request at a
time that does not die between its enqueue and its commit: gates, separate
handoffs, claims of another stage and every other fault are allowed. What the
assumptions leave out is what the findings and observations above are about, as
one deployment: a single theorem may hold in more. Beside them stand only
the named `ASSUME`s on the constants in each module (bounds are positive, sets
finite), which TLC evaluates in every run.

*SourceDispatch.* The argument is `OutboxInv`. Why a sweep cannot take a live
owner's row is easy (its lease is live); why nobody *else* can is not: a second
task of the same execution, or the blind flush of a session that loaded the row
earlier, would. So the invariant says that ARQ runs one task per job
(`TasksHaveRows`), that a task past its claim still has its token on the row
or finds it closed (`TasksPastClaim`), that an open handoff or request holds a row that is
not there yet or is closed (`HandoffsAreFresh`, `RequestsAreNew`), which needs
in turn that the executions of a cycle take turns (`SingleTip`). `OutboxInv`
does not need leases to be renewed: the row of a task whose lease ran out may be
taken by a sweep and even closed, and `TasksPastClaim` allows that. That a live
owner keeps its row (`OwnersKeep`) and that only a superseded execution is closed
as stale (`StaleIsPast`) do need it, and are conjuncts conditional on `Renewing`.

A task reads its row before it marks it, and the row may be closed in between.
For a current execution it cannot be: only a superseded one is closed by others
while its owner lives (`OwnersKeep`), so a mark that comes late finds its own row or
one the source has moved past. `FencedArePast` says the same of a task that waits to
mark its row stale.

Two invariants hold where stages do not take turns, for `HandoffsRecorded`.
`CyclesInv`: before the first cycle there is nothing a task could have
loaded, afterwards a task saw a cycle that had begun and the one request under
way starts a cycle that is not older. `ContinuationInv`: what a handoff in progress will write continues the stage
it will complete, and a stage marked as handed off has its effect recorded, which
no later flush undoes because no flush makes a row absent.

*Refinement.* `StepsOfContract` goes through the actions. Most leave every
`ExecutionState` alone: a claim, an acknowledgement or a lease moves a row among
the open statuses, and `OutboxInv` says that no session flushes an open status
over a closed row. Final effects, errors, fences and sweeps are `Close`
(`ClosesAreCloses`): stale by `StaleIsPast`, completed because a stage with a
continuation completes only through its handoff. A late mark is one too, of an
execution the source has moved past, and a deletion is `Delete`.
A request's commit is `Begin` of a cycle whose row is new (`CommitBegins`), a
task's handoff is `HandOff`, whose condition that no other stage is open is
`SingleTip` (`CommitHandsOff`); where the continuation is over already, as in
the rerun of a stage, it is a `Close`.

*PropagationDelivery.* That the commit of an acknowledgment finds a receipt
needs the answers and the locks to be tied to receipts (`AcksHaveReceipts`);
that it writes a row nobody has changed since it was checked needs the row lock
(`AcksExclude`); that its event is new needs the ledger to match the rows
(`AckEventsMatch`). The proof separates the two commits of an acknowledgment
from all other steps (`OtherStep`), for which `KeptByOthers` says what may happen
to the rows.

*PreReview.* `PreInv` adds that no intent is staged ahead of the draft, that an
unsubmitted draft has none, and that an open edit still sees the draft it read
(`EditIsFresh`): the write of an edit names columns by what it read, so without
that a verdict could slip in between. A stalled rebase holds no lock on the draft;
what it read as queued, running or checked it resets, whatever happened since, and
only a draft it read as pending and a sweep took meanwhile is `raced`. `RunsInv`
says that a run's intent is running or was failed by the cron, which is why nobody
else's intent is overwritten at its end.

*DraftReview.* `ReviewInv` ties three things that each request saw at different
times: what a request read is a state its draft was in (`RequestInv`), an
approval's digest is bounded by the page it wrote (`ApprovalInv`), and a draft
that can still be decided on is not older than the last re-ingest (`RowInv`; a
retry advances the generation and not the fence). That column and ledger agree is
a conjunct for the drafts outside `unlogged`. For the others the column has no
invariant (an overtaken replay writes it whatever the ledger says by then), so the
rest is about the ledger: a rejection or a withdrawal is a draft's last event
(`Last`).

*SourceDeletion.* `DeletionInv` says that once a sweep has listed a prefix, what
is left of the source's objects is on its list; with overlapping sweeps this is
what makes the removal of the row safe. `ImplementsContract` uses it to map each
step to a step of `DeletionContract` or a stutter.

*FeedbackRoutes.* `RouteInv` adds to `OneOutcome` that only a running route has
a token or a lease and that a drain works on a claim of its own batch.
`HistoryExplainsAssignment` is inductive beside it. For `RoutesImplementContract`
that a commit finds its route still running is `HeldIsRunning`, and that the
signal it creates is new is `OneOutcome`; a claim is a `GiveUp` of the routes out
of attempts, and taking, requeueing and timing out are stutters.

*BackupRestore.* `SnapshotInv` (source side): the services are down from the
first read of a backup to its last, so what it has read is still there.
`TargetInv` (target side): at most one restore fills the tables (`OneLoad`), since
the second meets them and fails, and a restore past that has its own rows in the
target, past the reference check also every object they name (`LoadInv`); it says
nothing of a reconcile, which may work on anything. `CommandInv` ties a refusal to
what the package lacked. `RestoreInv` joins them.

Only model-checked: liveness (`Settles`, `LatestSettles`, `VerdictComes`,
`QueueMarkCleared`, `RoutesSettle`, `RestoredWorkRuns`, `ServicesResume`, and the
fairness part of `DeletionContract`), which is out of the prover's reach.
Every safety property of the runs is also a theorem, for every value of the
constants that its assumptions admit; `auto_trigger` and `gate` check liveness in
deployments that only `TypeCorrect` and `HandoffsRecorded` cover.

## Plan

Done: `SourceDispatch` with `DispatchContract`, `PropagationDelivery`,
`PreReview`, `DraftReview`, `SourceDeletion` with `DeletionContract`,
`FeedbackRoutes` with `FeedbackContract`, `BackupRestore`, each with its runs and
theorems.

Left, in this order: the remaining branches of the pipeline tasks (captioning,
verbatim sources) and the approval and regeneration of compilation plans; tool
command receipts; authorization codes and tokens; drafts that create pages, and
the review of skills; rollback of a publication; recovery windows. With gates or
separate handoffs the outbox does not implement `DispatchContract` (see the
observations), so there is nothing to extend there.

## Not modelled

The models cover the protocols, which are a small part of the repository's
lines. Most of the rest has no protocol to check: text extraction, chunking,
language-model calls, prompts, ranking, retrieval and evaluation are functions of
data; review queues, briefings, surfaces, previews, operations views and exports
are read models computed on request; metrics, logging, health probes and
permissions do not change the state these properties are about; notifications
are best effort and keep nothing; migrations, deployment files and the frontend
configure or display the system. Inside the modelled parts, what is left out is
validation of input, formatting, and the cryptography of packages,
acknowledgments and digests, which appear as verdicts.
