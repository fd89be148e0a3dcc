# Quality Bar: specifications, model checks and proofs

Quality Bar reviews code changes by running Codex. A change of a pull request,
or an explicit request, becomes an *Evaluation*; the Reviews that apply to it
become *Review Runs*; each Review Run is executed once by a Codex process; the
Results make the outcome of the Evaluation, which is published to the forge.
One Node.js process does all of this over one SQLite database, and supervises
the Codex processes, which outlive it when it crashes.

This directory holds TLA+ modules translated from the code under `src/src`, TLC
configurations that check them on small instances, and proofs for TLAPS.
Paths below are relative to `src/src`.

## 1. Inventory

| Component | State it keeps | Operations | Hard behaviour |
|---|---|---|---|
| Execution queue (`codex/codex-execution-*.ts`) | rows of work: lease, fencing token, retry state, ready time, process group; attempts; the limit | claim, renew, release, begin/fail an attempt, start, finish | leases that lapse under a paused process, stale executors, limit changed between claim and start, retry budget |
| Review Run execution (`review/review-run-execution.ts`, `review-run-codex-adapter.ts`, `codex/codex-process-supervisor*`) | executors in memory, supervisors and process groups, submission channel | checkout, start, terminal race, deadline, termination, result | five events race to end an execution; each cleanup step can fail after another succeeded |
| Recovery (`codex/codex-execution-recovery.ts`, `-process-recovery.ts`) | `recovered_at` | terminate tracked groups, fail interrupted runs and attempts | crashes at any point, crashes during recovery, groups that lost their anchor |
| Evaluations (`evaluation/`) | Evaluation status and outcome, idempotency keys | admit, complete, cancel, retry, supersede | completion by whoever ends the last run; cancellation racing everything; replayed requests |
| Submission channel (`review/review-run-submission-*`, `quality-bar-submit*`) | request and response files | open, submit, answer, stop, clean up | two processes and a directory, submissions in flight while the channel stops |
| Reviews and assignments (`review/review*.ts`) | versions, assignments | create, revise, assign, delete | deletion and revision while Evaluations refer to them |
| Applicability (`applicability/`) | sealed Applicability Results | evaluate rules over file changes | precedence of errors, sealing |
| Waivers (`waiver/`) | batches, requests, adjudications, decisions | submit, adjudicate, retry errors, recover | share the execution queue; effective outcome changes after completion |
| Delivery (`forge/`, `github/`, `forgejo/`) | desired and published statuses, feedback, attempts, gates | attempt, classify, gate, recover, supersede | uncertain outcomes of writes, outcome that changes while a publication is waiting |
| Polling and automatic admission (`github/github-polling*`, `forgejo/forgejo-polling*`) | snapshots, gates, health | observe, reconcile, admit, supersede | snapshots read before an await and committed after it, generations |
| Connections and repositories | lifecycle, health, credentials | enable, disable, rotate, verify, remove | verification that finishes after the object changed |
| I/O pool and duties (`io-execution-pool.ts`, `io-duty-timer.ts`) | running and waiting tasks, duty generations | run, run immediately, cleanup drain, close | limits, refusal of cleanup, stale generations, drain at shutdown |
| Application (`application/`) | readiness, failure, shutdown | start, fail, close | order of shutdown, what still runs when the database closes |
| Storage reserve and retention | cleanup facts | measure, clean up, gate | measured before, used after |
| Operator authority (`operator/`, `browser-session.ts`, tokens) | password, sessions, tokens, throttle | log in, revoke, recover | a session read before the body of its request, decisions of the host, throttle windows |
| Backup, restore, installation (`offline/`, `sqlite-backup.ts`, `installation-*.ts`) | staged files, lock | back up, restore, delete | a crash between the renames of a restore |
| HTTP, MCP, schemas, analytics, system facts, browser interface | none of their own | read and route | input and output around the services |

How they interact: a request, a poll or a retry writes rows in one SQLite
transaction; timers (the worker every 250 ms, polling, delivery) read them and
start asynchronous work; asynchronous work acquires slots of the I/O pool,
awaits processes and providers, and writes its end in another transaction.
Cancellation additionally signals executors of the same process in memory,
after its commit. Everything between two awaits is atomic, everything durable
changes in transactions, and everything else is lost with the process.

What makes each part correct is listed in `PROJECT.json` under `hazards`, at
the line where it can go wrong, with the properties that would notice.

## 2. Plan

In the order of importance to the system. What is listed here exists unless it
stands under "left".

1. Durable execution of Review Runs, where a mistake runs Codex twice, loses a
   Result or never ends: `EvaluationOutcome`, `CodexExecution`, the abstract
   `ExecutionLifecycle`, `CodexExecutionProofs`.
2. The pool, the duty scheduler and the close of the application over them:
   `IoExecutionPool`, `ApplicationShutdown` and the proofs about them.
3. Writing to a provider that may perform a write and not answer:
   `GitHubDelivery`, and over it `CommitStatusPublication` with
   `CommitStatusPublicationProofs`, and `FeedbackDelivery` for the comments on
   both forges.
4. `WaiverAdjudication`: batches, retries, decisions, the effective outcome.
5. Automatic admission: `AutomaticAdmission`, the poller `PollingRound` over it
   and the two forges, `GitHubPolling` and `ForgejoPolling`.
6. `EvaluationAdmission`: the library of Reviews, selection, idempotency keys
   across the await of the acquisition; `ApplicabilityRule`, the evaluation
   of the rules that `ApplicabilityGrammar` has.
7. `SubmissionChannel`: the file protocol with `quality-bar-submit`, which is
   the single `Submit` step of module 1.
8. Connections and Repositories: `ForgeConnection`, `GitHubConnection` and
   `ForgejoConnection` over it with the proofs about them, `RepositoryLifecycle`.
9. What a restart or a power loss must find: `StorageReserve`, `DailyBackup`,
   `OfflineRestore`.
10. `OperatorAuthority`: the password, sessions and tokens of the Operator, with
    `OperatorAuthorityProofs`.

`MCResilience` checks the parts of 5, 7 and 9, `MCRecords` those of 3 (the
comments), 4, 6, 8 and 10, each as a sum (section 3). `ResilienceProofs` proves
the safety of the first sum, `RecordsProofs` that of the second.

Left: the onboarding tokens; Forgejo's commit statuses, whose
protocol is that of `CommitStatusPublication` but whose rows are retired
otherwise; retention beyond its cleanup; the queue of module 1 shared by
adjudications and Review Runs.

Section 5 has the theorems. One worth proving that is not: what the evaluation of a
rule of any depth means, which takes induction over its tree.

## 3. Modules and the code

`EvaluationOutcome` is `evaluation/evaluation-aggregation.ts` as operators. A
completed run stores a result per criterion; the aggregate asks only for the
strongest, so a run is represented by its strongest result, its `verdict`.

`CodexExecution` is the core. One synchronous transaction is one action, and
the executor (`executeReviewRun` and `runReviewRunCodex`) is split exactly
where the code awaits; `pc[w][k]` is the place of the executor of claim `k` of
run `w`, so executors of superseded claims are kept and may go on.

| State | Code |
|---|---|
| `executionStatus`, `verdict`, `retryCycle`, `attempts`, `lastError` | columns of `review_runs` and its criterion results |
| `evaluation`, `outcome` | `evaluations.execution_status`, `evaluation_results.outcome` |
| `queue`, `fencingToken`, `leased`, `exhausted`, `processGroup`, `recovered` | columns of `codex_execution_queue`; `leased` says that `lease_expires_at` is in the future |
| `readyLine` | the rows whose `ready_at` has passed, in `ready_at, work_id` order |
| `attemptMarker` | the row of `codex_execution_pre_start_attempts` for the current cycle and next attempt number |
| `maximumRunning` | `codex_execution_settings` |
| `application`, `pc`, `ending`, `codex` | the process, its executors, what won the terminal race, the process group |

| Actions | Code |
|---|---|
| `Admit`, `CancelEvaluation`, `RetryPreStart`, `SetConcurrency` | the requests, one transaction each |
| `ClaimNext`, `ClaimNothing`, `ReadyAtPasses`, `LeaseLapses` | the worker's transaction and the passing of time |
| `BeginPreStartAttempt` ... `RecordRefusal` | the executor before the start |
| `Launch`, `SupervisorExits`, `CodexCloses`, `OrphanExits` | the supervised processes |
| `Submit`, `Observe*`, `DeadlineFires`, `ExecutionFails` | the terminal race |
| `CloseChannel`, `Terminate`, `TerminationFails`, `FinishProcessGroup`, `Settle` | the end of an execution |
| `Crash`, `Restart`, `SignalTrackedGroup`, ... `FinishRecovery` | restart and recovery |

Time is abstracted to the facts the code tests: a lease is active or not, a
ready time has passed or not. A lease of a live executor lapses only when the
process is paused for longer than the lease (`StallMayHappen`); the lease of a
crashed process is ended by the recovery that precedes every claim. The start
and the tracking of the process group are one step, because production calls
only `startTracked`. The launch message is sent in the tick of the commit, so
a crash between the two is a crash before `Launch`.

`ExecutionLifecycle` is the abstract specification: what a reader of the
resources is promised, without leases, processes, retries or restarts.
`CodexExecution` is shown to implement it (`ImplementsLifecycle`).

`IoExecutionPool` is `io-execution-pool.ts` up to the duty scheduler.

| State | Code |
|---|---|
| `accepting`, `cleanupOnly`, `waiting`, `active` | the variables of `createIoExecutionPool` |
| `aborted` | whose `AbortController` has aborted: `workers` is `"ordinary"`, `cleanupWorkers` is `"cleanup"` |
| `stage`, `result` | of one call of `run`: waiting, taken by `drain`, running, settled and not yet released, done; how its promise was settled |
| `immediate`, `closing` | the outcome of each call of `runImmediate`; each call of `close` and whether it was answered |

| Actions | Code |
|---|---|
| `Run`, `RunImmediate` | the calls, up to the end of their synchronous part |
| `Begin`, `Finish`, `Release` | the microtask after `drain`, the end of the operation, the `finally` that frees the worker |
| `Close`, `Shutdown`, `DrainCleanup` | the functions of these names |

`ApplicationShutdown` has that pool as an instance, `Pool`, with the
application's users: duties with their timers and schedulers
(`createIoDutyTimer`, `createIoDutyScheduler`), the Codex worker's executors
(their acquisition and their removal of the checkout), and requests that
acquire a changeset.

| State | Code |
|---|---|
| `started`, `armed` | of a duty: `enabled` or `started`, and `timer` is set |
| `generation`, `entry` | the scheduler's `generation` and that of its `scheduled` |
| `operating`, `broken` | the duty's operation runs; its task fails by an error that must be reported |
| `claiming`, `execution`, `request`, `server` | `accepting` of the worker; executors; requests; the HTTP server |
| `runtimeFailed`, `storageFailed` | `failure` of the execution runtime and of the hard storage boundary |
| `step`, `durableCore` | which await of the close is pending; the database |

| Actions | Code |
|---|---|
| `TimerFires`, `BeginDuty`, `FinishDuty`, `Forget` | a round of a duty, up to the scheduler's `finally` |
| `Report` | `reportBackgroundFailure`, which stops product work at the first failure |
| `WorkerFails`, `StorageFails` | `claimNext` throws; the database becomes unavailable |
| `Claim`, `Acquired`, `RemoveCheckout`, `Removed`, `Arrive`, `Answer` | executors and requests, as far as they use the pool |
| `CloseApplication`, `ServerCloses`, `ClosePoolNext`, `CloseCore` | the close, split at its awaits |

Node.js takes a timer, an input or the end of an operation only when no promise
is left to be continued; those actions require `Quiet`. A duty has a single
task, because its scheduler hands out the pending completion instead of
starting a second one; the task is reused after `Forget`.

`GitHubDelivery` is one row of `github_delivery_attempts` as operators: what
`github-delivery.ts`, the recovery and the retirement do to it. `external`
says that `external_id` is known, `reconcile` is `reconciliation_required`,
`due` says that `next_attempt_at` has passed, and `verdict` joins `definitive`
with the question whether a recovery takes the error back.

`CommitStatusPublication` has those rows, the rows of
`github_commit_statuses`, the connection, the Evaluations as far as their
triggers reach, the round of `publishWaiting` and the provider.

| State | Code |
|---|---|
| `outcome`, `adjudication` | status of each Evaluation by its result and its waiver decisions; its active adjudication |
| `row`, `attempt` | `github_commit_statuses` by head; `github_delivery_attempts` by source, the Evaluation and the state |
| `lifecycle`, `verified`, `gated` | `lifecycle` and `verified_at` of the connection; the row of its provider gate |
| `publisher`, `rows`, `tried` | `running`, the rest of the copied rows and `attemptedSources` of a round |
| `request` | the delivery whose `await` is pending, with the generation it read and whether the provider has performed it |
| `written`, `shown` | what the provider has been made to write, and what it shows for a head |

| Actions | Code |
|---|---|
| `Admit`, `Complete`, `StartAdjudication`, `FinishAdjudication` | the triggers, with the change that fires them |
| `QueueAdjudication` | a batch or a recovery, which fires none |
| `Verify`, `Retire`, `Reactivate` | the transactions on the connection, with the recovery of its deliveries |
| `FetchRows`, `FindRowInvalid`, `PassRow`, `BeginRow` | `publishWaiting` and the part of a delivery before its first await |
| `Write`, `CreateAnswered`, `ReconcileFound`, `ReconcileAbsent`, `RequestFails` | the provider, and what the delivery does with its answer |
| `BackoffPasses`, `GatePasses`, `Crash` | time and the end of the process |

A round leaves the event loop only while a request is open, so everything that
is not part of it requires `Elsewhere`. Failures are grouped by what the code
does with them (`Failures`). A write is performed only while its request is
open; a request whose answer is lost may or may not have been performed. Each
change of `verified_at` counts as a new value: the code writes the time in
milliseconds, and two changes in one millisecond are not told apart by it.
The order of the heads in a round is left open. `created_at` and `id`, which
decide the Evaluation that controls a head, are the order of the numbers; they
may be admitted in any order, as concurrent admissions do.


`FeedbackDelivery` has the same rows once more, for what is written on a pull
request: the aggregate comment, an inline comment and the follow-up of an
adjudication (`Sources`), delivered by two services in rounds of their own
(`Services`) to one of both forges. `posts` are the `publication_status` of
the rows, `deliveries` their attempts, `workers` the rounds, `comments` what
the provider has written; `lifecycle`, `healthy`, `verified` and `gated` are
the connection's. `CompleteEvaluation` and `CompleteAdjudication` are the
triggers, `Materialize` a round of `forge/feedback/materializer.ts`, `Resume`,
`Retire`, `Reactivate`, `Verify` the transactions on the connection, and
`Pass`, `Begin`, `Write`, `Answered`, `Absent`, `Refused` a delivery between
its awaits. The forges differ in what they admit, take up and retire; those
operators ask for `provider`.

`WaiverAdjudication` is the waivers of one Evaluation.

| State | Code |
|---|---|
| `result` | the Result of the Evaluation |
| `requests` | `waiver_requests`: the Finding each asks about |
| `adjudications` | `waiver_adjudications` with their queue row, attempts and decisions, in the order of their `rowid` |
| `desired` | the outcome that the triggers have written to the commit status |
| `published`, `replies` | the inline comments of Findings, the follow-ups in reply to them |

| Actions | Code |
|---|---|
| `SubmitBatch`, `RetryErrors`, `RecoverExhausted`, `RecoverFailed` | `waiver-batch.ts`, `waiver-error-retry.ts`, `waiver-adjudication-recovery.ts` |
| `Claim`, `BeginAttempt`, `AttemptFails`, `Start`, `LeaseLapses`, `Decide`, `Fail`, `Restart` | the execution, as far as it changes these rows |
| `CompleteEvaluation`, `PublishInline` | the Result; a comment that a reply needs |

`AutomaticAdmission` is what both forges do when a revision of a pull request is
newly open: `NewlyEligible`, `Superseded` and `Admit` over a `book` of the
Evaluations by Repository and revision and of their pull requests.

`PollingRound` is the poller over it.

| State | Code |
|---|---|
| `forge`, `snapshot` | what is open at the forge; the stored snapshot of each pull request |
| `rows`, `gated` | the poll row of each Repository (baseline, next attempt), the gate of the connection |
| `connection`, `health`, `enabled` | the health of connection and Repositories, which are polled |
| `book`, `absorbed` | the Evaluations; what a baseline took as seen without one |
| `poller`, `operator` | where the round and an operation of the Operator stand, with what they have read |
| `moved`, `halted` | who has been overtaken by another generation; why the duties were stopped |

`GitHubPolling` reads the generation of each row, `ForgejoPolling` one for the
round; the rows of a failure differ throughout (`FailedRow`, `Fits`). Actions
are a round from `StartRound` over `FetchesOne`, `FetchesLast`,
`BeginAcquisition` and `Acquired` with its failures, the baselines of an
enablement or a rotation (`OperatorCommits` and before), the forge (`Push`,
`EndEvaluation`), the clock (`RowIsDue`, `GateOpens`) and a `Restart`.

`EvaluationAdmission` is one Repository, its `reviews` with Versions and
assignment, its `evaluations` with what each has selected, `keys`
(`evaluation_idempotency`), the requests of `clients` and the number of `queued`
runs. Actions are the operations on Reviews and their deletion, the assignment,
the lifecycle of the Repository, a request (`Request`), its second half after the
acquisition (`Insert` or `Refuse`), an automatic admission, and the start of a run,
which leaves the queue.

`ApplicabilityRule` is the whole evaluation of a rule: the compiled expression as
a tree (`Rules`, which are those of `ApplicabilityGrammar`), frozen file changes of
which some cannot be read
(`FileChanges`), `Evaluate` with its three truth values and evidence, and the
checks of the table on it (`Accepted`). `Meaning` is the reference: the set of
truth values each part of the rule can have when every question about content that
cannot be looked at may be answered either way. `Reliance` says from the form of a
rule alone which answers are right in spite of such content (`sound`) and which are
given whenever they are (`complete`): an `exists` that asks about content is sound
for "true" only, because a file whose predicate is outside counts as no match, and
a negation turns that round; an `&&` is outside with its left part, whatever its right
part is. `MatchesItsMeaning` holds the answer to both, and `UnknownsDecideNothing`, that
every answer is right, is what the code does not keep (section 6).

`SubmissionChannel` has each file of the channel (`lock`, `request`, `response`,
`ack`, `closed`), where each client process stands (`client`, `told`,
`overdue`), where the poll of the server stands and what it has seen (`server`,
`seen`, `taken`, `pending`, `committed`), and the adapter that ends the run
(`phase`, `terminal`, `accepted`, `outcome`). A client's and the server's reads and
writes of a file are a step each; `LockRead` decides on what `ReadLock` saw
before. `KillClient`, `StallClient` and `LeaseLapses` are what may happen to a
client; `StopAccepting`, `FailUnexpectedly`, `TerminateGroup`, `CloseChannel` the
end of the run.

`ForgeConnection` is what the two connections share: `connection` (row and
credential), `repositories` (rows), `requests` in flight with all they have read,
and the forge's side, `issued`, `accepted` and `accessible`. `GitHubConnection` adds the
flows with their state tokens (`Start` ... `Installed`, `Reactivate`,
`Returned`), rotation and selection; `ForgejoConnection` adds `Connect`,
`RotateForgejo`, `Enable` and `ReactivateForgejo`. Each ends in one transaction, guarded by what
the code compares: `CurrentRotation`, `CurrentConnection`,
`CurrentRepositories` there, `SameCredential`, `Verified`, `Current` here.
`by` is a history variable, the credential a Repository was last verified with.

`RepositoryLifecycle` is a Generic HTTPS Repository at one URL: its `row`, the
`operations` that wait for the remote, what the remote has `accepted`, and the
ids the `evaluations` are about. Registration, enablement, rotation and acquisition
are split at that wait; disablement, retirement and removal are one step.
`overtaken` is a history variable, the lifecycle was decided meanwhile.

`StorageReserve` counts room in checkouts: `rows` of work, `executors`, the
`checkouts` on disk, what else is `taken`, whether the filesystems can be
measured (`sound`), `cleaned`, the polling `round` and `requests`. `ReadFor` is
`readAvailable`, which measures, cleans up and measures again; every guarded
step has it as a conjunct, in the turn or before the await the code has there.

`DailyBackup` is the backup of each `day`: `hidden` and `visible` names, those
that are `durable`, manifests that are `sound` or `torn`, and the `phase`; what
follows the online copy is a synchronous run of file operations, each of which
may fail (`Fails`), be the last one (`Kill`) or be followed by a power loss
(`PowerLoss`). `OfflineRestore` is the same for a restore: `state` and
`retained` are the two directories, `stateViews` and `retainedViews` what a
power loss may leave of them, and `step` is the operation that is next, up to
the rollback of a restore that failed.

`OperatorAuthority` is who the installation obeys.

| State | Code |
|---|---|
| `password`, `implementer`, `throttle` | the rows `operator_password_verifier`, `implementer_token_verifier`, `failed_operator_login_*` of `quality_bar_metadata` |
| `sessions` | `browser_sessions`, and which sessions there have been |
| `pending` | requests the product hook has let pass, whose bodies are awaited |
| `serving`, `time` | whether the application runs (it holds the installation lock), the clock |
| `epoch`, `rejected` | history: how often every session was ended, when logins failed in a row |

`Pass` is the hook, which looks at the session; `ChangePassword`, `RevokeAll`,
`ReplaceToken`, `RevokeToken` and `Refuse` are the handlers, which run later and
verify only the password. `Login`, `RejectLogin`, `Logout` and `Touch` look and act
in one turn. `Bootstrap` and `Recover` are commands of the host and need the lock.
A secret is the id of its row; the clock is never set back.

`MCCodexExecution` gives the instances their Evaluations,
`MCIoExecutionPool` and `MCApplicationShutdown` their tasks and duties,
`MCCommitStatusPublication` the heads. `MCResilience` and `MCRecords` instantiate
several modules that share no variable. One behaviour is about one of them, its
`subject`, and the others stay where they begin, so the states are the sum of the
parts' and not their product; each property is the conjunction of those of the parts
that answer the same question. The operators named
`X_Variant` are faulty versions of `X`, each with a bug
that could plausibly be in the code; none is used by the specification. Each
property is known to be violated when one of them replaces `X`.

## 4. Runs

| Run | Question | Bounds |
|---|---|---|
| `CodexExecution_pair` | two runs of one Evaluation race for slots: `OutcomesAreSettled` (completion, finality, aggregation), `SlotsAreTakenInTurn`, `LiveGroupIsOnRecord`, the refinement `ImplementsLifecycle` | 2 runs, 2 attempts, limit up to 2, stalls, 1 fault, 1 limit change |
| `CodexExecution_retry` | claims, failures, stalls, crashes, signals that fail and Operator retries of one run: `OnlyNewestClaimExecutes` (fencing), `AttemptsAreAccounted` (one attempt a claim, the budget), `CodexIsAccountedFor` | 1 run, 3 attempts a cycle, 2 cycles, 5 tokens, 2 faults |
| `CodexExecution_queue` | `QueueIsInOrder`: capacity and the ready line with several Evaluations | 2 runs of two Evaluations and an empty third, capacity 1, 2 cycles, 2 limit changes |
| `CodexExecution_live` | no execution is left alone while the application serves, and everything ends | 2 runs, 1 crash, no pause longer than a lease |
| `IoExecutionPool_pool` | `WorkersAreUsed` (counted, none idle beside a waiting task), `EndsAreFinal` (a close that was answered, an abort), `EveryCallSettles` | 4 tasks, 2 of them cleanup, 3 workers, queue of 1 |
| `ApplicationShutdown_close` | failures of the runtime and of the storage and the close, in any order: `NothingUsesClosedCore`, `CloseLeavesNothingBehind`, `CloseEnds`, `DutiesGoOn` | 2 duties, 1 execution, 1 request, 3 workers, queue of 1 |
| `CommitStatusPublication_publish` | `WrittenOnce`, `RowsAreTrue` (what is published is true, what waits can be delivered), `ConnectionChangesWin` (retirement and a new authority), `StatusIsPublished` | 2 Evaluations of one of 2 heads, 1 result, 2 disturbances (a failure, crash, verification, retirement, reactivation or adjudication each) |
| `MCResilience_upkeep` | what must come through failures: no revision missed or admitted twice (`RevisionsAreAdmittedOnce`, `RevisionsAreTaken`), `SubmissionIsAnsweredOnce`, `CleanupSparesTheLive`, `GuardedStepsKeepTheReserve`, `LeftoversAreCleared`, `DatabaseSurvives` | polls: one pull request and two Repositories on GitHub, two and one on Forgejo, 2 revisions, 2 pushes, 1 failure, 1 operation; 2 clients, 2 faults; 1 work with 2 tokens in a room of 2 checkouts, 1 of them reserved; 4 days, 2 backups kept, 2 faults; a restore with 2 faults |
| `MCRecords_concurrent` | what changes at the same time: `CredentialCoversEnabled`, `RetiredStandsAlone`, `DecisionsHold`, `AdmittedAsAsked`, `MatchesItsMeaning`, `WaiversAreDecided`, `SchemaAccepts`, `FeedbackIsDeliveredOnce` | 1 Repository, 2 requests in flight, 2 credentials, 3 verifications, 2 revisions of a connected Repository, 2 ids and 3 revisions of a Generic one; 1 Review, 2 Versions, 2 clients, 1 key, 2 bodies, 2 Evaluations, capacity 1; 370 rules of a depth of at most 6 over a changeset of up to 2 files; 2 advisory Findings, 2 requests of each, 2 attempts, 3 adjudications; 2 faults; 2 passwords, 2 sessions that live 3 ticks and 2 without activity, one kind of request awaiting its body (any number of them), 3 failed logins, 2 ends of all sessions |
| `CommitStatusPublication_state`, `ApplicabilityRule_evidence`, `DailyBackup_reader` | statements of the repository that the code does not keep | see section 7 |

Deadlock is not checked: bounded work really comes to an end. Two runs are
enough for the interactions of the queue (a slot taken, a slot free, one run
passing another) and of an Evaluation (the last run and the one before); a
third claim of a run adds a second superseded executor and no new kind of
state. Faults are bounded by `MaxFaults`, claims by `MaxToken`, retries by
`MaxCycle`, all in guards. In the code the limits are 3 attempts, 25 unstarted
rows and 4 running.

The pool has 4 workers and a queue of 16 in the code. With 3 workers, of which
2 are ordinary, both are busy, the queue is full and a task is refused within
four tasks; the fourth worker would add no case, and a fifth task with a queue of
two was checked as well and adds none. In `ApplicationShutdown` a
queue of one makes refusals common; a one-shot duty and one on an interval are
the two kinds there are, and with the request they keep both ordinary workers
and the queue full while the executor acquires or removes its checkout.

In `CommitStatusPublication` two Evaluations of one head are what the
replacement of a row needs, and every hazard listed for it takes at most two
disturbances, such as a lost answer and a verification, or a retirement and a
reactivation during one request. Larger instances were checked while the module was written (two
heads with an Evaluation each and two disturbances, three disturbances, three
Evaluations and one disturbance) and gave nothing new; they are left out for
their size. A second result would only add a second name for a final state.

Of the polls, a failure of one Repository can only reach another one of the same
connection (two on GitHub, where rows fail one by one), and an Evaluation can
only be shared or superseded between pull requests of one Repository (two on
Forgejo); two revisions let a pull request go back. Two clients of the channel are
a holder of the lock and one who waits for it, the second fault is what happens
to the first while the other recovers. In the storage reserve two claims are the
old executor and the new one. Four days with two backups kept reach a retention
that has something to remove twice. The connections have two requests, the one
that is overtaken and the one that overtakes it, each with its credential. The waivers
need a second Finding to have one decided and the other errored, and a third
adjudication to retry a retry. Rules have every operator over every other one
that the grammar allows for two levels below a quantifier, or two of them
joined, the pair negated as well; a changeset has up to two files, whose content
hits, misses, is absent or cannot be read.

Fairness. Of the execution (`CodexExecution!FairSpec`): the worker has a timer; every
step an executor takes by itself (`Advance`) follows an await that ends by a
timeout or by the deadline of 15 minutes; the start of the application is assumed
to be retried; ready times pass. Codex need not submit and need not close; nothing
that disturbs (`Disturb`) is fair. Descendants of a group that lost its anchor are
assumed to exit, because the code cannot end them.

The publication has a timer of one second, the event loop continues a round,
an open request is answered or times out, backoffs and gates pass (each is at
most an hour). Disturbances are bounded and not fair: `StatusIsPublished` says
that a status is published, refused for good or replaced once they stop.

In the pool every operation ends: all of them wait for child processes and
providers under timeouts. In `ApplicationShutdown` also timers fire, Codex ends
(by its deadline at the latest) and requests are answered. Timers and the ends
of operations are possible only when no promise is left, so they are fair in
the strong sense: the event loop comes back to them again and again.

In `MCResilience` the polls are due again when their time comes, a round goes on
and its requests are answered; the server of a channel polls and its clients'
leases lapse; the cleanup runs every day. A behaviour has one subject, so one
condition of `Fairness` stands for an action of each part. `RevisionsAreTaken`
excepts what a definitive failure has parked, which only the Operator takes up
again. No liveness is checked of the comments and the waivers: a comment waits for
one gate that others close again, which would take strong fairness the code
gives no reason for. The protocol is the one of `StatusIsPublished`.

## 5. Proofs

`CodexExecutionProofs` proves for every number of runs, Evaluations, tokens
and faults the types, what the runs check of attempts, claims, outcomes, groups
and the queue, and the refinement.

*Attempts and claims* (`ClaimsCorrect`, `OpenAttemptCorrect`, `RetryBudgetCorrect`,
`OneAttemptPerClaimCorrect`, together `AttemptsAccounted`; `FencingCorrect`). The
three statements about attempts are not inductive by themselves. That an
open attempt belongs to the current claim, for instance, is preserved by a new
claim only because rows with an open attempt and no lease are first recorded
as interrupted. `ClaimsInv` says all of it at once: how marker, token, lease,
attempts, cycle and status of an unstarted row constrain each other. Its proof
has a lemma for each group of actions. Fencing rests on it: a claim starts
only with a current token and an active lease, starting ends the row's
eligibility to be claimed, and a restart clears all executors.

*Outcomes and the refinement* (`LifecycleCorrect`, `ImplementsLifecycleCorrect`,
`OutcomesSettled`). `LifecycleInv` adds to `EvaluationFollowsItsRuns` that the runs
of an Evaluation are admitted with it (`AdmittedTogether`). A step of
`CodexExecution` either leaves what readers see (`readers`) alone, or is one of the
steps of `ExecutionLifecycle`: a claim, an attempt, a lease, a crash map to a
stutter; the recovery that fails several runs at once maps to the failure of all
of them, with every Evaluation that this completes.

*Process groups* (`GroupCorrect`, `CodexAccountedFor`, `LiveGroupsCorrect`,
`EveryExecutionAttended`). That a Codex which has not closed is on record needs
that an unstarted row has none and, from fencing, that the one executor past the
start is the one of the group. The second, for every member of a group, holds only while
signals reach their groups, and the third only while no process stalls past its
lease; the theorems have these as hypotheses (`~TerminationMayFail`,
`~StallMayHappen`), and so do the runs that check the properties. `AttendInv` adds
that a running row is started and that its executor holds its lease, so that
nothing but its own end or a restart takes it away.

*The queue* (`QueueInOrder`, `SlotsTakenInTurn`). `Without` removes rows from
the ready line by position: the rank of a row among those that stay. The lemmas
about it (what it keeps, in which order, without a repetition) are proved by
counting the positions that stay, because an induction over the line is out of
reach. The order of claims is then that of the first claimable position, and the limit is
compared again by the start.

`ResilienceProofs` proves the safety properties of `MCResilience`, each from an
invariant of its own part and a lemma for the steps of the others, which leave its
variables alone.

*Polls* (`RevisionsAdmitted`), for every set of revisions and any number of
pushes, failures and operations, with the pull requests and Repositories of the
instances. What a row stores is compared with the snapshot the round has read,
which others may have replaced since. So the invariant (`GitHubInv`, `ForgejoInv`)
says of both, of what is stored and of what the poller compares with, that an open
revision it shows was admitted or absorbed; then what a row stores was known before or
is eligible and admitted with it, however stale the comparison is. Associations are
never taken back. `Orderly` says that an associated Evaluation was begun and that
a pull request has one active; an admission keeps it because it supersedes by
association. The order of `AdmitAll`, a recursive function over sets, is unrolled for the
pull requests of the instances.

*Channel* (`SubmissionAnswered`), for any number of clients and faults. The files,
the clients and the server each hold a part of the protocol, and `ChannelInv` relates
them: a client that still runs and has published owns the lock, the request is of
the owner, an answer names the client whose Result was prepared, the end of the
run decides `outcome` once and its files stay (`Ended`). An answer of another client
could be found only by one that no longer owns the lock, and that one leaves.

*Storage* (`CleanupSpares`, `GuardsKeepTheReserve`), for any works and tokens.
`Kept(c)` says what the stage of an executor promises for its claim: the row is
known, a started one is of the last claim, and whoever has its checkout and holds its
claim is on record with an attempt that is not over. A sweep takes only attempts
that are over or of an older token. The reserve is an action property; it follows from
`ReadFor`, which is part of every guarded step, and the types.

*Restore* (`RestoreKeepsADatabase`), for any number of faults. `RestoreInv` says
for every step of the restore what each state that a power loss may leave of
both directories contains: before the rename the original, unless it has been
retained durably; afterwards the copy, which is durable by then; during a
rollback the second name until the first is back. It is needed for every view, since
any of them may become the present one.

*Backup* (`DatabaseOutlives`, with the restore `DatabaseSurvives`), for any
retention and any number of days. A reported backup is durable (`ReportedIsHeld`),
unless retention has replaced it: a backup is expired only when `Keep` newer ones
stay (`ExpiredReplaced`), of which the newest may be the one of today that a failure
takes back. That there are `Keep` newer ones which stay uses a least element and
the counting of finite sets.

*Types* (`ResilienceTypesCorrect`), of the variables of every part. They say more than
the form of a value. The checkouts keep within their filesystem, because the one that
makes another has looked for the room: without that `Occupy` could leave less than
none. A round that goes on has a row to take (`RoundHasRows`), or what it prepares
would not be a Repository. What a poll stores of any failure is a row of the table.

`IoExecutionPoolProofs` proves for every finite set of tasks, at least two
workers and a queue of at least one: `TypeCorrect`, `WorkersUsed` (from
`WorkersCounted` and `WorkConserved`) and `EndsFinal` (from `ClosedIdle` and
`AbortedFails`). The invariant `PoolInv` says
that `active` is the number of tasks in the stages of a worker, that the queue
holds the waiting tasks, once each, that a worker is never idle beside the
queue, that a close has ended acceptance, and that a close was answered only
when nothing was left. What makes it inductive is the lemma `DrainCorrect`:
since a nonempty queue means that the ordinary workers are busy, and a release
frees one of them, `drain` takes at most one task, which the count then
includes. `AbortedFails` needs only the types. `QueueBounded` says that the queue
never exceeds its capacity. The lemmas after it say what a step leaves to the tasks
it is not about; whoever uses the pool needs no more of it.

`ApplicationShutdownProofs` proves for any finite sets of duties, executors and
requests and any sizes of the pool: `TypeCorrect`, `NothingUsesClosedCoreCorrect`,
`CloseLeavesNothing` (from `StoppedDutiesRestCorrect` and
`CheckoutsAreRemovedCorrect`) and `DutiesAreNeverSilenced`, the safety half of
`DutiesGoOn`. The module has `IoExecutionPoolProofs` as an instance, `Proven`, for
its tasks, whose assumptions it proves (`PoolIsAPool`); a step of the application is
a step of that pool or leaves it alone, except that a duty's task is used again once
it was forgotten (`ForgottenKeeps`). `Inv` adds what the application knows: each step
of the close finds what the one before has left (`CloseInOrder`); a duty that goes on
meets an open pool and one that was stopped has no entry (`Switches`); its generation
counts the four causes that stop it, each of which comes once (`Generations`); a duty
whose timer is off is at work in the pool or has failed by an error that will be
reported (`TasksOfDuties`). So the operation of a stopped duty finds no entry of its
generation, and an idle pool means that no operation runs.

`CommitStatusPublicationProofs` proves for every set of Evaluations, heads and
results and any number of disturbances: `TypeCorrect`, `WrittenOnceCorrect`,
`RetirementWinsCorrect` and `OldAuthorityIsFencedCorrect`, which are
`ConnectionChangesWinCorrect`, and `RowsAreTrueCorrect`. That nothing is
written twice is not inductive: `WrittenInv` adds what the record of a source
says of the provider. A written status is known or its next delivery
reconciles, and an open creation has set `reconciliation_required` and has
written its source exactly if its request says so. A creation therefore begins
only where nothing was written. `RetirementWins` rests on `RetiredIsQuiet`, a
retired connection has no waiting row, and on a list of what a step can do to
a row (`RowSteps`); the fence needs only the types and `Held`.
That the rows are true needs all the tables at once (`TruthInv`, which a run has
checked first). The row of a head is that of its latest Evaluation in the state it
has (`RowsFollow`); what a round has copied was desired once and is one delivery for
a head (`UnderWayWasDesired`); a state that its Evaluation has yet to reach was never
tried (`UnreachedIsUntried`), so a row that moves on starts with a fresh record. A
row that was not adjudicated agrees with that record (`Agrees`), and once its
status is written the head shows it while nothing else is under way for that head
(`Shows`): a late write of an older status is excluded because a head has one
delivery under way, and a late answer because a row that was refused or retired has
none that holds it. A step has to answer only for the rows it changes (`TruthKept`).

`ConnectionProofs` proves of both connections, for every set of
Repositories and of requests in flight: the types, `CredentialCoversEnabled`, no
enabled Repository stands under a credential it was not verified with, and
`RetiredStandsAlone`, a retired or removed connection keeps no credential and no
enabled Repository. Neither is inductive, because what commits was read before
an await. `GitHubInv` and `ForgejoInv` therefore say two things: the rows are right
(`RowsOK`), and every request in flight holds what its stage promises (`Holds`),
such as that an enablement asks with the credential it has read. A commit whose
fence passes finds the row as it read it, so the credential it verified with is
the one that is stored. The lemmas about rows, requests and the steps both
forges share come first.

`OperatorAuthorityProofs` proves for any number of sessions and requests and any
lifetimes: `AuthoritySessionsAreCurrent`, no session outlives what ends them all,
`AuthorityEndedStaysEnded`, none that ended or expired is honoured again, and
`AuthorityLoginsAreSpaced`, which are three parts of `DecisionsHold`. The invariant
`SessionsInv` says the first of every row, also of the expired ones that are still
stored; `Kept` says what a step can do to a row. A row becomes younger only while it is
honoured, so it stays expired. `ThrottleInv` relates the throttle, which has a number
and a date, to the whole history of failures: its attempts are their number, as far as
it is counted, and it is closed until the delay after the last of them.

`RecordsProofs` proves what the run of `MCRecords` checks as theorems of that
specification. Each subject has an invariant of its own; the
steps of the others leave its variables alone.

*Connections* (`CredentialCoversEnabledCorrect`, `RetiredStandsAloneCorrect`) *and
authority* (in `DecisionsHoldCorrect`). The modules with their proofs are instances
here. `MCRecords` has instances of its own of the same modules, so the lemmas show first
that a step of the one is a step of the other.

*Generic Repository* (`GenericRepositoryCorrect`, in `DecisionsHoldCorrect`). `Behind`
says of every operation in flight that it has read an id and a revision no newer than
the row's, and an older one if its lifecycle was changed since. The fence of a
commit compares both, so an operation that passes it was overtaken by nothing. This
judges a row that is there before and after the step: a first registration still in
flight when its row is removed inserts it again.

*Admission* (`AdmittedAsAskedCorrect`). A key that is taken is of an Evaluation that
asked for the same (`KeyHolds`), an answer is what is stored under its key (`AnswerHolds`)
and a selection is of sealed Versions of Reviews that exist (`SelectionHolds`). The
second is what an overlapping request needs: it finds a key taken after it had
looked, and answers with the Evaluation of that key only if the bodies are equal.

*Waivers* (`WaiversAreDecidedCorrect`, `SchemaAcceptsCorrect`). `WaiverInv`, which a run
checked first, relates the whole history of requests and adjudications. Only
the last adjudication may be active; what is settled is not asked again
(`SettledIsLast`), only a denied Request is followed by another one for its Finding
(`DeniedIsFollowed`), and what failed is asked again as a whole (`FailedTogether`), which
is why no Request is stranded. The code and the triggers speak of the newest
adjudication and the newest Decision; the lemmas about the last of a set of numbers turn
these into statements about all earlier ones. The same invariant shows that no
write meets a guard of the database.

*Types* (`RecordsTypesCorrect`). An adjudication takes one attempt at a time and ends
with its last, and a Finding is asked about a limited number of times
(`WithinLimit`); that there are then no more Requests in all than the limit times the
Findings (`RequestsAreBounded`) is shown of the least set of Findings that would
have more.

*Feedback* (`FeedbackIsDeliveredOnceCorrect`). A comment that was written is known or
will be looked for (`PostHolds`); a creation is open only for a delivery that is to be
reconciled after a crash, and what is there was written by this very request
(`WorkerHolds`). So a creation that begins finds nothing written, whatever answer was
lost before. A row without a verdict is unavailable only if its delivery was never begun
nor taken up (`CanResume`): a request that still holds its attempt has counted it, so
its row is not unavailable, and a retirement gives a verdict to every row it
reaches. That is `RetiredCanResume` at both forges for deliveries that were begun. Of
those never begun it covers the comments at Forgejo; what it leaves out stays
unavailable (section 6): follow-ups, and comments inserted at GitHub while the
connection is retired, unless it is retired and reactivated once more.

*Applicability* (`MatchesItsMeaningCorrect`). `Evaluate`, `Meaning` and `Reliance` are recursive
over the tree of a rule, and induction over a tree is out of reach. But no rule of
`ApplicabilityGrammar` is deeper than 6 (`DepthsOfRules`), so six steps of the recursion from
any function end with one that satisfies it (`EvaluationSolves`, `MeaningSolves`,
`RelianceSolves`). What remains goes up the tree with one statement for every node
(`Fit`): an answer the node is sound for is its only meaning, one it is complete for is
given if it is the only meaning, and without content that cannot be looked at the state
is the meaning. Each operator keeps it (`NotFits`, `AndFits`, `OrFits`,
`FileExistsFits`, `PathExistsFits`), hence so do the nodes level by level (`KidsFit`, `NodesFit`),
negated pairs below a quantifier included. Nothing is claimed of an answer a
rule is not sound for. It holds of the rules of the grammar and of any two files, not
of rules of any depth.

The proofs assume the named ASSUMEs of `CodexExecution` (among them that there are
finitely many Review Runs), `IoExecutionPool`, `ApplicationShutdown`, `CommitStatusPublication`,
`ForgeConnection`, `MCResilience` and `MCRecords` on their constants, and nothing else;
the theorems of `OperatorAuthorityProofs` have as a hypothesis what `AuthorityBounds`
of `MCRecords` says. Those of `MCResilience` keep what is absent apart from what
is there: the names of a closed and of an unseen pull request are no revisions, `None` is
no client and no file; and they say that bounds are numbers, and that there is a day.
Those of `MCRecords` say that bounds are numbers, that there are finitely many Reviews
and Findings, a key and a body, that "none" is no outcome, that a Finding may be asked
about and an adjudication tried once, and that the delays are numbers: powers of
two, which the provers do not have.

Every safety property of a run that is expected to pass is the subject of a
theorem. Only model-checked are the liveness properties: all liveness, like ENABLED,
is out of the prover's reach.

## 6. Not modelled

Of the modelled parts: the queue of the executions is not shared with
adjudications, whose execution is in `WaiverAdjudication` by itself; the contents
of the checkout, of transcripts and of evidence; reuse of a process identifier
(recovery refuses to signal an identity that changed, and aborts). In
`ApplicationShutdown` an execution is only what it does to the pool; the start of
the application, the signal handlers, the immediate cleanup of the storage
reserve (which `IoExecutionPool` has) and the restart of a duty that was stopped,
which production never does, are left out. The publications leave out the
recovery of single Repositories (a verification recovers all or none), the target
of a delivery and its drift, and the creation of a second connection. Forgejo's
commit statuses and the ages of retention are not modelled. Of the Operator's
authority the onboarding tokens, the attributions, a wrong CSRF token or Origin
(refused like an ended session) and a clock that is set back are left out.

Input and output around the services are left out on purpose: HTTP, MCP, schemas,
the parsing of provider answers and of rules, projections and analytics, the
browser, installation and release scripts. SQLite is taken at its word: a
transaction is a step. `PROJECT.json` gives the reason for each.

What the models show and no run excludes:

* Execution. A started run whose lease lapsed under a paused process keeps its
  slot and its status until the next restart, since neither its Result nor its
  failure is accepted.
* Publication. A status whose Evaluation completed while the connection was
  retired has a fresh delivery, so a reactivation, which takes up only deliveries
  that were refused, leaves it unavailable "because the GitHub Connection is
  retired". The same holds on GitHub for feedback
  (`github/github-delivery-recovery.ts:118`); on both forges follow-ups that never
  began before the retirement stay unavailable. A row that was replaced while the
  round had it copied may still be written, also after a retirement, until the
  round ends; it is not shown as the last one once the newer is delivered.
* Feedback. The credential is copied when a round starts; one that is rotated
  meanwhile is refused and marks the connection in error. A conflict of identity
  on Forgejo is tried again for ever.
* Polling. A definitive failure on a row that an offline restore made pending
  again does not fit the table (`github/github-polling-schema.ts:17`): the
  transaction aborts and the duties stop (`FailuresAreRecorded`). A row of
  Forgejo may hold the largest integer as its next attempt, and the delay is then
  more than a timer takes, which makes it fire at once
  (`forgejo/forgejo-polling-delay.ts:26`, `PollingTargetsAnInterval`). A
  rotation that commits during a round leaves the connection in error when the
  old credential is refused. A conflict stops all duties until a restart. A
  pull request that is pushed back to a revision whose Evaluation was cancelled
  is not evaluated again.
* Authority. A request that passed before its session ended is still performed, if
  it confirms the password that is then valid.
* Applicability. Absent or binary content is outside of a predicate, negated or not
  (`test/applicability-content-evaluation.test.ts:75`), but a file of which the predicate is
  outside is no match of the quantifier (`applicability/applicability-evaluation.ts:153`).
  So `!file_changes.exists(file, file.after_content.matches(...))` applies to a changeset
  of binary files, whatever is in them (`UnknownsDecideNothing` in `MCApplicabilityRule`,
  with the constant of `ApplicabilityRule_evidence`). The study that chose the
  language asks that such
  content never be "treated as a non-match"
  (`docs/research/applicability-expression-language-options.md:32`), or that a state of its
  own be defined for it; the code defines one and lets the quantifier drop it. And
  `outside && false` is outside, so that its negation does not apply, while `false &&
  outside` is false.
* Connections. A rotation on GitHub that fails for one Repository marks the
  connection healthy, although its stored credential may be revoked. An
  enablement of a Generic Repository that fails with the credential it read before a
  rotation sets the health over the newer verification
  (`repository/repository-enablement.ts:41`).
* Admission. An empty set of Repositories is accepted as an assignment. A Review
  that was selected in an Evaluation is reported as eligible for deletion and
  refused by the foreign key (`EligibleCanBeDeleted`, section 7).
* Channel. A lock that appears with its request between two reads of a poll fails
  the channel; so does a client that is paused for longer than its lease. A
  response that is never acknowledged leaves the directory in place.
* Storage. An explicit Evaluation is admitted after its acquisition without
  measuring again (`evaluation/evaluation.ts:395`). A cleanup that fails is not
  reported as a missing reserve, and closes the application. A restore brings back
  lower fencing tokens, whose checkouts exist until their removal.
* Backup and restore. A failing retention removes also the backup that has just
  been made durable. A rollback whose rename fails, after an original that could
  not be read, leaves the old log beside the published snapshot.

## 7. Where the code and its texts disagree

Three statements have a run that shows the violation.

* `CommitStatusPublication_state`: `forge/commit-status/service.ts:102` asserts
  that "commit status durable state is invalid" cannot happen. The rows of a
  round are copied before the first of them is awaited. When an Evaluation
  completes meanwhile, its copied row says `pending`, its outcome does not, and
  the round throws, which the background runner takes for a failure of the
  runtime: product work stops although nothing was wrong. A queued
  adjudication of an Evaluation whose row is waiting does the same.
* `ApplicabilityRule_evidence`: a test says that "negated and file-wide matches
  retain canonical evidence". A negated quantifier that no file satisfies applies
  without any predicate id, which the trigger of the table refuses, so an
  Evaluation to which such a rule applies is not admitted.
* `DailyBackup_reader`: a test says that "startup discards malformed, orphaned,
  and interrupted backup output". Reading the system facts discards it as well,
  at any time, and with it the output of the backup that is being made, which
  then fails and closes the installation.

Others were met while modelling. Their properties stay in the modules, and a
configuration with the specification and the property, and the constants of the
run of the module, shows them.

* `CodexExecution`, `LoweringKeepsExistingClaims`: a test title says "raising or
  lowering changes only new claims"; `codex/codex-execution-start.ts:91` also
  refuses the start of a claim taken before the limit was lowered.
* `CodexExecution`, `InterruptedOnlyByRestart`: the attempt of that claim stays
  open, and the next claim books it as "interrupted by application restart",
  although the application never stopped; it costs an attempt and its delay.
* `ApplicationShutdown`, `NoReportAfterClose`: the test of a graceful close
  (`test/application-shutdown.test.ts:87`) expects that after the database was
  closed only the host log is written. When a failure of the runtime has closed
  the pool before, the close aborts nothing and goes on as soon as the last duty
  releases its worker; if that duty failed by an error of its own,
  `reportBackgroundFailure` is called a few continuations later and writes its
  log record to a closed database.
* `CommitStatusPublication`, `AdjudicatedStatusIsPublished` (under `FairSpec`):
  when an adjudication returns a status to a state that had been published
  before, the delivery of that source has an `external_id`, and
  `attemptGitHubDelivery` completes it with a generation that no attempt has
  incremented; the UPDATE matches nothing. The row waits for ever and the forge
  shows `pending`. The test of follow-ups
  (`test/waiver-followup-sqlite-integration.test.ts:210`) expects the state to
  be published, from a start where it had not been before.
* `SubmissionChannel`, `RejectionLeavesChannelOpen`: a test "keeps the file
  channel available for a corrected submission". The server looks for the
  acknowledgment of its answer before it looks for the lock
  (`review/review-run-submission-pending.ts:60` and `:68`); a client that
  acknowledges a rejection and leaves between the two is taken for lost, and the
  channel fails without any fault.
* `EvaluationAdmission`, `EligibleCanBeDeleted`: `deletion_eligible`
  (`review/review-read.ts:151`) asks for Review Runs only, but a Review that was
  selected and not run is referred to as well, and the foreign keys refuse its
  deletion. A test says that the resource "deletes only a never-used lineage"
  (`test/review-removal-http-integration.test.ts:12`); what is called eligible is
  more than that.

Paths under `test/` are those of `src/test`.
