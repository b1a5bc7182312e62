# Prompt2API in TLA+

Prompt2API turns a request in natural language into a data API: a planner
produces a specification, a template renderer a Substreams project, a worker
builds and validates it in subprocesses, an operator approves it by hash, a
PostgreSQL sink keeps it live, and a REST service (free and paid routes) reads
it. This directory models that control plane and the reading and paying around
it, checks the models with TLC, and proves the types, the safety invariants and
the action properties of the build queue, of deployment, planning and purchases
with TLAPS, together with the refinement of the build queue.

## The system

| Component | State it keeps | Operations | What makes it hard | What makes it correct |
| --- | --- | --- | --- | --- |
| State machine (`apps/api/src/state-machine.ts`) | transition table | check a pair of states | every other component relies on it | only pairs of the table ever happen |
| Control store (`store.ts`, `packages/db`) | rows: pipelines, versions, runs, deployments | transition, enqueue, claim, finish, recover, cancel | READ COMMITTED transactions that read, check, and write later without a lock | no update lost, no version or job twice |
| Build worker (`build-worker.ts`) | the one job being processed, its abort controller, a timer | claim, BUILD, INFO, GRAPH, VALIDATION, catch | awaits between any two steps; cancel, SIGTERM and crash in between | only validated packages become approvable; nothing stays BUILDING without a worker |
| Pipeline service and routes (`pipeline-service.ts`, `app.ts`) | a snapshot per request | plan, build, retry, cancel | snapshots are stale when used | a request never puts a second job beside a live one |
| Substreams runner (`packages/substreams-runner`) | a child, timeout and abort listener; shared cargo cache with a stamp | build, info, graph, validate | abort may come before the listener; a stamp may survive a bad build | a cancelled child is told to stop; a package is built from its own sources |
| Approval service (`approval-service.ts`) | a snapshot | approve by configuration and package hash | hashing takes long, the transition comes last | what runs is what was shown, validated and approved |
| Sink manager (`sink-manager.ts`) | map of running sinks, intentional stops | deploy, restart, stop, exit handler | exit races deploy; shutdown and restart | a stopped deployment has no sink; a start revives what is recorded as LIVE; an exit is recorded |
| Planner (`packages/planner`) | none | ask the model, validate, retry once | late, malformed or failing answers | PLANNING always ends |
| Dataset service (`packages/dataset-service`) | none; keyset cursors | events, hourly flows, top depositors, health | pages are read while the sink writes | no row skipped or returned twice |
| Generator (`packages/generator`) | files and a manifest with hashes | render, verify | a directory changed after rendering | verification accepts exactly what was rendered |
| Payment gate, agent, demo (`payment.ts`, `apps/consumer-agent`, `apps/web/lib/demo-purchase.ts`) | attempt counter, cooldown | paid request, purchase | a timeout after settlement | pay at most once for what is delivered |

Requests reach the service through Express handlers of one Node process; the
handlers and the worker interleave at every `await` and share nothing but the
database, the worker's abort controller and the sink manager's map. Cancel
calls the worker directly and then the store; build and retry go through the
store and then poke the worker. The only other process state is the children.

## Modules

| Module | Models |
| --- | --- |
| `PipelineStates` | states and transition table |
| `BuildQueue` | control store, build/retry/cancel requests, worker, runner as the worker sees it, life of the process |
| `BuildJobs` | abstract specification of the queue, implemented by `BuildQueue` |
| `BuildQueueProofs` | proofs about `BuildQueue`: types, jobs and versions |
| `BuildStagesProofs` | on top of it: runs, stages, states, lost cancellations |
| `BuildRefinementProofs` | on top of both: `BuildQueue` implements `BuildJobs` |
| `Deployment` | approval, sink manager with its sinks and close handlers, start and shutdown; composed with `BuildQueue` |
| `DeploymentProofs` | proofs about `Deployment`, reusing those of the build queue |
| `BuildCache` | the Cargo target directory the runner shares between projects |
| `Planning` | the plan request, the planner's calls and checks, cancel and crash |
| `PlanningProofs` | proofs about `Planning` |
| `DatasetPaging` | rows, views, keyset cursors, the walk of a client while the sink writes |
| `DatasetPagingProofs` | proofs about `DatasetPaging` |
| `Purchase` | demo route, limiter, consumer agent, paid route, facilitator |
| `PurchaseProofs` | proofs about `Purchase` |
| `NaturalLemmas` | least elements, induction over numbers and subsets, sums over finite sets, used by the proofs |
| `...MC` | instances for TLC: symmetry, and the sets of inputs |

`PipelineStates` is used by `BuildQueue`, `Deployment` and `Planning`: the three
share the pipeline row and its transition table. `Deployment` declares the
variables of `BuildQueue` and takes it as `Queue == INSTANCE BuildQueue`, so a
build, a retry, a cancel and an approval of one pipeline interleave in one state
space. `Planning` ends where `BuildQueue` begins (PLAN_READY); `DatasetPaging`
and `Purchase` see of the others only whether a dataset is live.

### How `BuildQueue` corresponds to the code

- `pstate`, `activeVersion`, `specStart` are columns of `pipelines`;
  `versionStart` (a row exists when it is not `None`) and `packaged` stand for
  `pipeline_versions`; `run[p][v][stage]` is the status of the row of
  `pipeline_runs`. `older[p][v]` stands for `createdAt`: the jobs that were
  waiting when the run was created. Rows created by overlapping transactions
  are unordered, since milliseconds and random ids decide between them.
- `client[c]` is the handler of a request in flight, one `pc` per `await`:
  `RequestBuild` (snapshot) → `SaveSpec` (a retry with a start block) →
  `EnqueueRead`/`RenderFails` → `EnqueueCommit`/`EnqueueAborts` →
  `RespondBuild`; `RequestCancel` → `CancelJob` → `CancelPendingRuns` →
  `CancelRead` → `CancelWrite`.
- `worker` is the call of `processNext` in progress: `Claim` → `Activate` →
  for each transition `WorkerRead` and `WorkerWrite`, for each stage
  `CreateStageRun` → `Spawn`/`PrepareFails` → `ChildExits` → `FinishRun`, then
  `CheckOutput` → `SaveArtifacts`. Errors go through `Throw` to `Catch`. If
  the transition inside the catch block is refused too (`WorkerRejects`),
  the rejection is unhandled and the process ends.
- `phase` is the process: `Shutdown` (SIGTERM clears the timer and aborts the
  job), `Exit`, `Crash`, `Restart` (`recoverInterruptedJobs`).
- A transition is two steps because its transaction is: `findUnique`, check,
  then `update` by id. The primary key of `pipeline_versions`
  (`VersionFree`) is checked when the second half of `enqueueBuild` commits.
- A child is an environment: it may succeed, fail or time out at any moment.
  `aborted` is the abort signal, `cancelled` whether the running child heard it.

Abstracted: prompts, specifications beyond the start block, file contents,
hashes, captured output, error texts, the history table `pipeline_transitions`.

### How `Deployment` corresponds to the code

- `deployment[d]` is a row of `deployments` by order of creation, with the start
  block the request carried; `product` stands for `api_products`.
- `approval[a]` is `ApprovalService.approve` and the `SinkManager.deploy` it
  calls, one `pc` per `await`: `RequestApproval` (snapshot, hashes) →
  `ApproveRead` (files hashed again, then the check of the transition) →
  `ApproveWrite` → `CreateDeployment`/`CreateFails` (before the `try`) →
  `SpawnSink`/`StartFails` → `MarkLive` → `LiveRead` → `LiveWrite` →
  `UpsertProduct`; the catch block is `MarkFailed` → `FailedRead` →
  `FailedWrite` and leaves a sink it finds running.
- `child[d]` is a sink: `"running"` while it is in `#sinks`, `"told"` once it is
  in `#intentionalStops`. Its close handler starts two updates that nobody
  awaits: `exitRow` (`ExitMarksRow`) and `exitPc` (`ExitSnapshot` → `ExitRead` →
  `ExitWrite`). A refused transition there is an unhandled rejection, so
  `ExitRejects` ends the process.
- `Shutdown` is SIGTERM: the worker's part, then `stopAll`, whose updates are
  `stopWrites`. `Exit` needs an idle event loop, which a running child prevents.
- `boot` is the start: `BootStart` (products, list of LIVE rows), `BootSpawn` and
  `BootMark` per row, then `Listen`, which includes the worker's recovery.
- A cancel, a retry or a build is the one of `BuildQueue`; none of them calls the
  sink manager, in the code as in the model. `stop(id)` itself is called by
  `stopAll` alone.

### How the other modules correspond to the code

- `BuildCache`: `Start` (fingerprint and `#cacheMatches`) → `Compile` → `Pack` →
  `Stamp`; `Abort` at any point is a failing, cancelled or timed out child or the
  end of the process. A build whose project has its own target directory skips
  the cache and is not in the module.
- `Planning`: `handler[r]` is `PipelineService.plan` with `GeminiPipelinePlanner.plan`
  inside. An error is the sequence of its causes, outermost first, each a class
  the code can tell apart; `IsTransient`, `IsProviderCall` and `HttpStatus` are
  the decisions the code takes on it. A reply is a status, whether the schema
  accepts it, and a specification. `Accept` applies the caller's overrides and
  validates again; `recordReadyPlan` is returned and not awaited, so what it
  throws goes past the catch block (`RecordRead`, `RecordFails`).
- `DatasetPaging`: `rows` is `vault_events`; `Decoded` and `DbOut` are the
  template's map modules; hourly flows and top depositors are computed from
  `rows` as the views are. A cursor is the sort key of the last row of a page.
  `ORDER BY ... DESC` is `Descending`: the i-th row of the result is the one with
  i - 1 rows before it. `LogsOf[b][f]` are the logs of the f-th version of block b.
  `Start` → (`CheckLive` → `ReadPage`)\*; `ReadPage` is one SQL statement.
  `SinkWrites` appends a block, `SinkUndoes` takes the last one back, as the
  sink's undo handling does. `stable` is a history variable.
- `Purchase`: `web[r]` is the POST of the demo route, `agent[r]` the child it
  runs, `call[r]` the last HTTP call of the agent, with the steps of the API:
  `CheckLive` → `Gate` → `ReadPage` → `Settle`. The x402 middleware and client
  and the facilitator are not in the repository; they are modelled from how the
  code calls them, and the facilitator may refuse, or settle and lose its
  answer. `paid` is the ledger, `served` and `fault` are history variables.
  Restarts of the web process are left out: its limit is per process.

## Runs

| Run | Instance | Shows |
| --- | --- | --- |
| `queue_races` | 1 pipeline, 2 requests, 2 versions, 1 shutdown or crash | all safety properties, `QueueInv`, refinement of `BuildJobs` |
| `queue_of_two` | 2 pipelines, 1 request, 1 version, fairness | `PendingIsServed`, `ActiveBuildSettles` with a queue longer than one |
| `queue_lost_cancel` | 1 pipeline, 2 requests | `TransitionsLegal` is violated |
| `queue_lost_abort` | the same | `CancelledChildIsKilled` is violated |
| `queue_stuck_claim` | 1 pipeline, 1 request, 1 crash | `InterruptedJobIsRetryable` is violated |
| `deploy_races` | 1 pipeline, 1 version, 2 approvals, 1 other request, 2 deployment rows, 1 shutdown or crash | safety of `Deployment`, `DeployInv` |
| `deploy_ends` | the same with 1 approval, fairness | `ShutdownEnds`, `ExitIsSeen` |
| `deploy_start` | 2 start blocks, 2 versions, no stop | `DeployedStartIsValidated` is violated |
| `build_cache` | 1 builder, 2 sources | `PackageIsOfItsSources` is violated by a build that ends early |
| `planning` | 1 request, 41 replies, 9 kinds of provider errors, 6 sets of overrides, 1 crash | all properties of `Planning` |
| `paging` | 1 reader, 3 blocks, 2 alternatives, 7 queries, 2 undone blocks | all properties of `DatasetPaging` |
| `purchase` | 1 browser, 2 POSTs, 4 offers, 1 restart of the API, 1 tick | all properties of `Purchase` |

The properties of the build queue:

- `LiveJobIsActiveVersion`: a queued or executing job builds the newest version
  of its pipeline, in spite of stale snapshots and unlocked transactions.
- `QueueInv`: `JobInv` and `StageInv`, the inductive invariants (see Proofs),
  checked before they were proved. `DeployInv`, `PlanInv`, `PagingInv` and
  `PurchaseInv` are their likes in the other modules.
- `ApprovableIsValidated`: AWAITING_APPROVAL implies four successful stages and
  a recorded package for the active version.
- `ActiveStateHasWorker`, `OrphanRunIsCancelled`: while the process lives,
  a BUILDING or VALIDATING pipeline has the worker on it, and a RUNNING run
  belongs to the job the worker holds; the exception are runs that a winning
  cancellation left behind, which stay RUNNING until the next start. This is so
  among builds, retries and cancels: an approval can leave such a run, too (see
  below, after the findings).
- `RunsEndOnce`: a recorded result is final.
- `OnlyCancellationIsLost`: the weaker statement that survives where
  `TransitionsLegal` does not.
- `ImplementsBuildJobs`: one job at a time; each version submitted once, in
  order and only when no earlier one waits or executes; ready only by its own
  execution.

Of deployment:

- `LiveHasProduct`: a LIVE pipeline on which nobody works any more has its API
  product; the gap after a crash is closed by the next start.
- `StoppedHasNoSink`: a deployment recorded as STOPPED has no sink but one on its
  way out, although deploy marks rows LIVE whatever they say by then.
- `SinkStartsForOpenRow`: a sink starts only for a STARTING or LIVE row without
  one, and only for a packaged version.
- `ListensWithSinks`: when the server starts to listen, every LIVE row of a LIVE
  pipeline has a sink or a close handler at work, also after starts that failed
  half way.
- `ShutdownEnds`: a shutdown ends, unless a deployment under way starts its sink
  after `stopAll`; that sink keeps the process alive.
- `ExitIsSeen`: a pipeline that is LIVE at any moment while the close handler of
  a sink of it is at work is moved on. It is not when deploy writes LIVE after
  the handler has written; such a LIVE stays (see below).

Of planning:

- `RecordedPlanIsSound`: a recorded plan has one to three different contracts
  (whatever their spelling), those and the block the caller named, and filter
  and contract rows that agree with it.
- `ReadyHasPlan`, `AnswerMatchesRow`: state, plan and HTTP status fit together
  under cancel and crash, and an answered pipeline is PLANNING only if the
  database refused its plan.
- `CallerIsBlamedForHisFields`: 400 is never the answer to what the model said.
- `PlanningEnds`: no answer, override or cancel leaves a pipeline PLANNING for
  ever; a crash, or a database that refuses the plan, does.

Of paging:

- `WalkDescends`: positions of a walk strictly descend across pages.
- `NothingStableIsSkipped`: a finished walk has every row that kept its position
  from first page to last. It says nothing of a depositor whose sum changes
  meanwhile: such a row may be missed or come twice, with different sums.
- `AggregatesAgree`: hourly flows and sums of depositors add up to the events.
- `WalkEnds`: a walk ends although the sink goes on writing.

Of purchases:

- `SpendingIsBounded`: the demo payer loses at most `maxAttempts * MaxAmount`,
  whatever the API asks and however purchases overlap.
- `PaysOnlyExpected`: what is settled is the one payment the agent signed, to the
  configured recipient, with a fee payer and within `MaxAmount`, although the
  terms may change between the 402 and the paid call. An offer of the same
  amount that names somebody else is among the offers of the run.
- `ChargedForAPage`: a charge is for a page that was read in the same call. Its
  answer carries the page and the receipt of that payment; if the facilitator
  settled and its confirmation was lost, it is a 402 without data, and the buyer
  has paid for nothing he sees. Errors of the route (500, 503) cost nothing.
- `SuccessIsPaid`, `PaidIsShown`: shown and settled agree unless there was a
  timeout, a broken connection or a lost answer.
- `CooldownIsKept`: two attempts of one session at one resource are a cooldown
  apart. The session is that of the cookie, which is set on success only.
- `PostIsAnswered`: the POST is answered even if API and facilitator never do.

### Findings

- **Lost cancellation** (`queue_lost_cancel`): a cancel that commits between
  the read and the write of another transition is overwritten, so CANCELLED is
  left although the table has no transition from it
  (`store.ts:288`, against `docs/architecture.md:55`).
- **Lost abort** (`queue_lost_abort`): the runner adds its listener to a signal
  that may already be aborted and never looks at `signal.aborted`; the next
  child of a cancelled job runs on (`substreams-runner/src/index.ts:359`).
- **Stuck after a crash at the claim** (`queue_stuck_claim`): the run is
  recovered, the pipeline stays BUILD_QUEUED, and a retry is answered without
  queueing (`store.ts:487`). Only a cancel ends this.
- **Start block without validation** (`deploy_start`): a retry with a new start
  block saves it before it renders; if that fails, the old version can still be
  approved and its sink starts at the new block (`pipeline-service.ts:132`,
  against `docs/end-to-end-flow.md:519`).
- **Stale stamp** (`build_cache`): the stamp of the shared Cargo directory is not
  removed before a compilation, so one that ends early leaves its binary under
  the stamp of other sources (`substreams-runner/src/index.ts:177`, against
  `docs/end-to-end-flow.md:426`).

Other behaviour is reachable in the models, but no run of the project is about it.
Three texts can be read against it:

- A sink exits after deploy has checked the transition to LIVE; its handler writes
  DEPLOYMENT_FAILED, deploy writes LIVE over it (`sink-manager.ts:114`), and the
  pipeline stays LIVE with a failed deployment and no sink.
  `ETHOnline-Implementation-Specification.md:789` has the SinkManager update the
  status when the process exits. `ExitIsSeen` does not reach this case.
- SIGTERM marks every deployment STOPPED, its pipeline stays LIVE, and a start
  revives rows that are LIVE only, so an orderly restart leaves it without a sink
  (`sink-manager.ts:140`; `docs/demo.md:45` and line 790 of the specification
  speak of a restart). After a crash the rows are still LIVE and are revived.
- The paid route looks once, before the gate, whether the dataset is live; one that
  goes down during verification, page or settlement collects the payment all the
  same (`app.ts:374`; `docs/phase-2-x402.md:20` says an unavailable dataset cannot).
  The buyer does get the page.

Two builders of one cache break the property of `build_cache` even if neither fails,
since nothing locks the directory (`substreams-runner/src/index.ts:200`).

The rest contradicts nothing written: cancelling a LIVE pipeline leaves its sink
running; two approvals that overlap give one pipeline two sinks; a failure between
the DEPLOYING transition and the `try` leaves DEPLOYING for good. The properties
above are stated so that they say what holds beside all this.

### What approvals do to a queued build

The properties of the build queue, and the theorems about them, are about builds,
retries and cancels against each other and against worker and process. They do
not carry over to a system with approvals. An approval that was checked before a
retry queued its build writes DEPLOYING over BUILD_QUEUED
(`approval-service.ts:88`, `store.ts:293`; `ApproveWrite` in `Deployment`):

- `OrphanRunIsCancelled` (and `OrphanIsAlone` of `StageInv`, hence `QueueInv`): the
  job of the overwritten BUILD_QUEUED is claimed, its transition to BUILDING is
  refused, the catch block finds no failure state for DEPLOYING, and the run is
  left RUNNING with nobody cancelled, until the next start ends it.
- `OnlyCancellationIsLost`: what is lost is BUILD_QUEUED.
- `LiveJobIsActiveVersion`, `JobInv` and the refinement: when the deployment fails
  before the worker claims the job, DEPLOYMENT_FAILED lets a second retry in, and
  two versions of one pipeline are queued. `ActiveStateHasWorker` and
  `ApprovableIsValidated` rest on the same invariants and are not claimed with
  approvals either.

Of `BuildQueue`, `Deployment` therefore carries over the types, that a recorded
package stays, and that no handler of a build makes a pipeline LIVE, and its own
properties rest on these only.

### Bounds

`MaxVersion` bounds the builds of a pipeline, `MaxStops` shutdowns and crashes,
`Clients` the requests in flight, `StartBlocks` the start blocks. Two requests
are what a race needs: one writes between the read and the write of the other,
or of the worker. With two versions there is a build, its retry, and a stale
second retry. One stop puts a crash or SIGTERM at every step of the above, and
the model then continues after the restart. One pipeline is enough for these
races because handlers and the worker touch only rows of their own pipeline;
the one thing pipelines share is the worker slot and the order of the queue,
which is what the second instance has two of. It allows one request at a time
and no stop, so that liveness stays small; `PendingIsServed` speaks of an up
process only. Pipelines and requests are symmetric, and symmetry is used for
safety only.

The instances of `Deployment` have one version, since builds are covered above
and only one package matters to the races of approval, sinks and process; two
approvals and two rows give a deployment, its redeployment and their overlap.
`deploy_start` needs the second version and block for a retry. One request is
enough for `Planning`: requests own their rows, and what they share (the
database's unique ids) is not in question; the inputs take every branch of every
decision. In `DatasetPaging` the three blocks hold equal positions in different
orders, a tie and an overtaking depositor, and an alternative that moves a
transaction; limits 1 and 2 put page ends at every row. A second reader would
share nothing with the first. In `Purchase` two POSTs of one browser give the
limit of one, the limit of two, the cooldown and a payment overlapping another;
of the four offers one is acceptable, one too expensive, one pays the same to
somebody else and one asks for nothing. Symmetry of approvals is used for safety only.

Deadlock is checked in every run of `BuildQueue`, `Deployment` and `BuildCache`:
as long as the process is up the timer can poll, and a stopped process can be
restarted. `Planning`, `DatasetPaging` and `Purchase` may come to rest, when all
requests are answered, so it is not checked there; their liveness properties say
that nothing else stops half way.

### Fairness

`FairSpec` assumes weak fairness of the worker's steps (the event loop runs
continuations, the database answers, and each child ends: the runner sends
SIGTERM when its wall-clock timeout passes, which the Substreams CLI obeys) and
of the interval timer. Nothing makes a client send or finish a request, cancel,
or restart the process: no restart policy is part of the repository. The
worker never waits for anything that is enabled only now and then, so weak
fairness is enough.

`Deployment` assumes the same of a request once it is under way, of the worker,
of the updates that close handlers and `stopAll` have started, of a sink that was
told to stop, and of the process's own end; not of a running sink, which may run
for ever. `Planning` assumes it of the handler: the call to the model has a
timeout. `DatasetPaging` assumes that a client follows the cursors it gets and
that the API answers. `Purchase` assumes only the timeout of the child and the
answer that follows its exit, which are both in the web process.

## Proofs

The theorems hold for all values of the constants that satisfy the assumptions
of the modules: bounds are natural numbers, `None` is different from everything
it stands in for, and in

- `Planning`, an error of the provider has at least one layer and its outermost
  one is not `zod`'s, since the provider's client validates nothing with `zod`;
  the overrides of a request hold at most three contracts, as the request's
  schema demands;
- `DatasetPaging`, a block has finitely many logs, every query of a client is one
  that the schemas accept, with a limit of at least one, and every block has an
  hour;
- `Purchase`, what the API offers is a payment requirement or nothing, and the
  requests of a run of the web process are finitely many, since
  `SpendingIsBounded` is a sum over them.

| Module | Theorems |
| --- | --- |
| `BuildQueueProofs` | `TypeCorrect`, `JobsFitTogether` (`JobInv`), `LiveJobIsNewest` |
| `BuildStagesProofs` | `StagesFitTogether` (`StageInv`), `QueueFitsTogether` (both), `ApprovalIsSafe`, `NoPipelineLeftBehind`, `OnlyCancelledBuildsLeaveRuns`, `ResultsAreFinal`, `OnlyCancellationsAreLost` |
| `BuildRefinementProofs` | `QueueImplementsJobs`: `Spec => ImplementsBuildJobs` |
| `DeploymentProofs` | `DeploymentFitsTogether` (`DeployInv`), `DeploymentTypeCorrect`, `StoppedStaysStopped`, `SoldIsServed`, `SinksStartForOpenRows`, `ServerStartsWithSinks` |
| `PlanningProofs` | `PlanFitsTogether` (`PlanInv`), `PlanningTypeCorrect`, `PlansAreSound`, `PlansAreReady`, `AnswersAreTrue`, `BlameIsDeserved` |
| `DatasetPagingProofs` | `WalksFitTogether` (`PagingInv`), `PagingTypeCorrect`, `PagesNeverRepeat`, `PagesNeverSkip`, `ViewsTellOneStory` |
| `PurchaseProofs` | `PurchaseFitsTogether` (`PurchaseInv`), `PurchaseTypeCorrect`, `SpendingStaysBounded`, `PaymentsAreExpected`, `ChargesAreForPages`, `ShownIsPaid`, `SettledIsShown`, `AttemptsAreApart` |

Every invariant and every action property that a passing run checks has its
theorem, and so has the refinement. Each module follows the same plan: an
inductive invariant, written in the model as named parts and checked by TLC as an
invariant of the run; one lemma per action, or per kind of action, that the action
preserves it; and the properties as consequences, action properties with the step
in addition.

### Jobs and versions (`JobInv`)

`TypeOK` alone is not inductive, since a handler writes to the pipeline and
version it carries; `Typed` adds that those are real (`LocalsAreReal`).
`LiveJobIsActiveVersion` is not inductive either. The argument of `JobInv`:

1. the version rows of a pipeline are exactly 1..`activeVersion`
   (`VersionRowsContiguous`), so an enqueue that gets past the key builds a
   version beyond the active one;
2. while a job waits or executes, its pipeline is BUILD_QUEUED, BUILDING,
   VALIDATING or CANCELLED (`LiveJobBlocksRequeue`), and from none of these the
   table leads to BUILD_QUEUED, so an enqueue passes its check only when no job
   lives;
3. after that check a job can appear only through another enqueue, which takes
   the same version number, so the key turns the first one away
   (`EnqueueFindsNoLiveJob`);
4. a process that is down holds no job and runs no handler (`DownIsIdle`), so
   recovery cannot take the state from under a live job.

Most actions create no job, no version and no enqueue transaction and are
covered by `JobFrame`; the interesting ones (`EnqueueRead`, `EnqueueCommit`,
`Claim`, `WorkerWrite`, `Restart`) have a proof of their own.

### Runs and stages (`StageInv`)

What the worker has behind it is only in the rows of its runs and in the state
of the pipeline, and a cancel may take the state away at any await. `StageInv`
says, for each `pc` of the worker, which stages of its job have succeeded and
which one runs, and that the pipeline is in the state the worker has put it in
or CANCELLED (`StageIsRecorded`, `ChangeIsPrepared`). Two parts are about the
others: a RUNNING run that the worker has let go belongs to a CANCELLED pipeline
with no live job (`OrphanIsAlone`; approvals, which could break this, are not in
`BuildQueue`), and an enqueue that can still commit finds
no such run (`EnqueueFindsNoRun`). It is inductive relative to `JobInv`, which
rules out that a second job of the pipeline moves the state meanwhile.
`OnlyCancellationIsLost` follows from the `pc`s that hold a checked transition:
the state they were checked against is still there, or CANCELLED.

### Refinement

`QueueImplementsJobs` shows that the initial states agree and that every step is
a step of `BuildJobs` or a stutter: `EnqueueCommit` is `Submit` (`JobInv` gives
that earlier versions are settled) or a stutter when it only moves states,
`CancelPendingRuns` is `Drop`, `Claim` is `Start`, `SaveArtifacts` is `Publish`,
the worker's release, `Crash` and an unhandled rejection are `End`, and all else
leaves jobs, execution and packages as they are.

### Deployment (`DeployInv`)

The proofs of the build queue are used as they are: `DeploymentProofs` takes
them with `Proved == INSTANCE BuildQueueProofs` and shows that its steps are
steps of `Queue`. What it needs of them is `Typed` and `KeepsToBuilds` (packages
stay, no build makes a pipeline LIVE); see above for why not `JobInv`. The
argument of `DeployInv`:

1. rows are numbered without a gap and requests in flight leave room
   (`RowsAreNumbered`), so a new row is new, and each approval has a row of its
   own (`RowsAreTheirOwn`) that nothing touches until its sink starts
   (`ApprovalFollowsRow`);
2. close handlers and stop updates belong to rows, and a row is only marked
   STOPPED after its child was told (`SinksHaveRows`);
3. a process that is down has no handler and, until it boots, no sink
   (`DownIsQuiet`), so the rows it lists at its start have none;
4. while it boots, the rows that wait are LIVE and untouched, and every other
   LIVE row of a LIVE pipeline has had its sink or has a close handler at work
   (`BootFollowsRows`). `ListensWithSinks` is this with nobody waiting;
5. a LIVE pipeline has its product, or an approval that is about to write it, or
   the process is down and the next start writes it (`LivePipelinesAreSold`).

### Planning (`PlanInv`)

The row is where its handler has put it, or CANCELLED (`RowFollowsHandler`), the
answer says what the row says (`AnswerSaysRow`), and the plan on its way to the
database has passed the second validation with the caller's overrides in it
(`PlanIsChecked`). `BlameIsDeserved` needs in addition that an error whose
outermost cause is a validation error is about a contract the caller named twice
(`ErrorHasCause`): merged overrides fail to parse for no other reason, which is
a lemma about `ApplyOverrides` and `ParsePipelineSpec`.

### Paging (`PagingInv`)

`NothingStableIsSkipped` speaks of the end of a walk only. The invariant says
the same of every moment: what is returned are keys of the resource, the last
of them the cursor (`CursorIsLast`); what could have been returned all along is
in the table still (`StableIsThere`), and it is returned already or comes after
the cursor (`StableIsAhead`). A page then has to be shown to return the first
rows after the cursor, in order, and to leave none out:

1. `Less`, the order of SQL's row values, is a strict total order on the keys of
   a resource (`LessIsTotalOrder`);
2. so among finitely many keys, each number below their count is the number of
   keys before exactly one of them (`PlacesAreTaken`: the places are different
   and as many as the keys, hence all are taken, without an induction), and
   `Descending` lists each key once, in descending order (`DescendingSorts`);
3. the items of a page descend, lie after the old cursor, and the new cursor is
   the last of them; a key after the old cursor is among them or after the new
   one, and there is no new cursor only if they are all (`PageProperties`);
4. the pages of a walk join (`PagesJoin`, `PageKeepsWalk`), and the sink only takes
   keys from `stable` that are gone from the table (`SinkStep`).

### Sums (`AggregatesAgree`)

`ViewsTellOneStory` needs of the table only that it is finite and of its type;
the insertions and removals of the sink do not matter, since the views are
computed from the rows. The hourly flows of a vault partition its rows, the
depositors partition the deposits, and a sum over a set is the sum of the sums
over its parts (`NaturalLemmas!SumOfParts`). The sums of the community modules
are folds that pick elements by CHOOSE; `SumTake` shows that any element may be
taken out first, from which the rest follows by `SubsetInduction`.

### Purchases (`PurchaseInv`)

A POST that is let through has one child (`AnswerFollowsChild`), the child makes
one call without and one with a payment the policy allows (`CallFollowsChild`),
and the ledger holds that payment or nothing (`LedgerFollowsCall`): what is settled
was read in the same call, and its answer is the page with that receipt or, after
a lost confirmation, a 402. `PaymentsAreExpected` and `ChargesAreForPages` are
these parts. The limiter
counts each of them once and remembers a time no earlier (`LimiterInv`).
`SpendingStaysBounded` then bounds the sum: at most `maxAttempts` requests have
paid, each at most `MaxAmount` (`NaturalLemmas!BoundedSum`). The induction over
the number of summands is done on the set of the numbers for which the bound
holds (`SetInduction`), and the sum itself is unfolded along the choice its
definition makes.

### What is only model-checked

- Liveness: `PendingIsServed`, `ActiveBuildSettles`, `ShutdownEnds`,
  `ExitIsSeen`, `PlanningEnds`, `WalkEnds`, `PostIsAnswered`. They rest on
  fairness and hence on ENABLED, which the prover does not support.
- The runs that end in a violation show a counterexample, which is their proof.

## Plan

The modules of the plan are written, and each has its proofs but for
`BuildCache`, whose run shows a violation. What a next step would take up:

1. `BuildCache`: the cache once it is stamped after, and cleared before, a
   compilation; the property of its run would then be an invariant to prove.
2. More than one API process on one database. The code runs one: recovery at the
   start ends whatever another would be doing.
3. The runner's capture of output and its limit, if anything but the preview
   comes to depend on it.

## Not modelled

- Generator and artifact verification: sequential work on files, without state
  of its own and without a decision that depends on an interleaving. Its outcome
  is free where its callers use it (`RenderFails`, `ApproveRead`).
- Pages and components of the web application, its proxy routes and the GET
  routes only read. Templates beyond what makes the rows, the generated golden
  project and `spike` are code for another runtime.
- `memory-store.ts` is a test double of the control store that no deployment uses.
- Scripts, fixtures and the parsing of the environment run outside the service.
- In the runner, the capture of output, its cut at 2 MiB and redaction.
- The text of slugs, schemas and package names, which are made of the unique
  pipeline id; widths of integers (assets and blocks are decimals and bigints).
- Failures of the database, but for the one that `Planning` and `Deployment` name
  and the death of the process. Sinks that outlive a crashed process: the model
  only knows that nobody watches them, so a second writer to the same schema is
  not seen.
