# Verification of the lead-gen video workflow

This directory holds TLA+ models of the parts of the repository in which several
actors share state, or one actor passes through many steps: the runs of the video
pipeline under Temporal, the leases on media assets, the event stream, calls to
providers and their limiter, the batches that publish videos and the desktop
application that posts them, and a dozen smaller protocols around them. TLC
checks each model on small instances. TLAPS proves the main properties of
twenty-one of them, three refinements among these, for every value of their
constants.
Paths below are relative to `src/`; a line is written `file.py:line`.

- [1. The system](#1-the-system)
- [2. Modules](#2-modules)
- [3. Runs of TLC](#3-runs-of-tlc)
- [4. Fairness](#4-fairness)
- [5. Proofs](#5-proofs)
- [6. What the runs found](#6-what-the-runs-found)
- [7. What is not modelled](#7-what-is-not-modelled)
- [8. Plan](#8-plan)

## 1. The system

A FastAPI process (`apps/api`) accepts jobs and controls runs. A run is a
sequence of nodes (planning, speech, lip-sync, rendering, export ...). In
deployment every run is a Temporal workflow, and a worker process executes each
node as an activity. PostgreSQL holds the durable state, Redis carries events
between API replicas and holds the shared limiter and the login windows, and
object storage holds files.

The same in-memory `Repository` class serves everywhere. The API process keeps
one for as long as it lives. Every activity makes a fresh one, fills it from the
database (`hydrate_workflow_runtime_snapshot`), works on it for as long as the
node lasts, and writes it back in one transaction (`sync_workflow_snapshot`).
Rows are written whole, and nothing locks them between the read and the write.
Most hazards of this system come from there. The services around the runs have
the same habit on a smaller scale: one transaction reads, some work follows, and
another transaction writes.

### Inventory

| Component | State it keeps | Operations | Interacts with | What is hard | Module |
|---|---|---|---|---|---|
| Run requests of the API (`apps/api/services/jobs_runs.py`) | `Repository` in memory: jobs, runs, node errors | create, retry, resume, cancel, force-cancel, compensate, delete | writes rows, calls Temporal | memory is never refreshed, a call to Temporal may have happened although it failed, a write follows the call | `RunLifecycle`, `RunRecords` |
| Temporal workflow and activities (`packages/core/workflow/temporal_adapter.py`) | position in the node loop, cancel flag, attempt | `run`, `cancel` signal, five activities | activities on workers | lost workers, heartbeats that stop while the thread lives, cancel between nodes, activities without a retry limit | `RunLifecycle` |
| Pipeline runtime (`packages/production/pipeline/digital_human.py`) | run, job and node statuses in the snapshot of an activity | execute a node, reuse, complete, fail, cancel, reconcile, collect files | activities call it | statuses decided on a snapshot that may be old | `RunLifecycle`, `RunFiles` |
| Reuse planning (`packages/production/pipeline/reuse.py`) | none | which prefix of nodes a resume keeps | API calls it | chains of resumes, files that runs share | `RunLifecycle`, `RunFiles` |
| Run store (`packages/production/sqlalchemy_repository.py`) | rows of jobs, runs, nodes, artifacts, leases, events, videos | hydrate, sync, delete | API and workers | whole rows from stale copies, numbers chosen before they are written | `RunLifecycle`, `RunRecords`, `FinishedVideos` |
| Selection reservations (`material_pack_planning.py`, `_selection.py`, run store) | a lease per run and asset, with a TTL | reserve, commit, release, expire | planning, last node, failure, cancel | two runs that plan at once, nodes longer than the TTL, late writers | `SelectionReservations` |
| Outbox, dispatcher, hub, socket (`packages/core/observability/events.py`, `jobs_runs.py:848-910`, `useRunEvents.ts`) | outbox rows, one queue per connection, listeners, the page's cursor | create, sync, dispatch, replay, subscribe, reconnect | every replica, Redis, page | at-least-once publishing, order, gap between replay and subscription, Redis loss | `EventStream` |
| Node graph (`packages/production/pipeline/node_sequence.py`) | none | topological order, validation, ready nodes | templates | repeated edges, unknown names, cycles | `NodeGraph` |
| Provider gateway, budgets, circuit breaker (`packages/ai/gateway`, `packages/ops`) | invocations in a node's memory, later rows | invoke, budget and circuit checks, sync | plugins, limiter, pricing | checks that look at rows which concurrent nodes have not stored | `ProviderCalls` |
| Provider limiter (`packages/ai/gateway/provider_limiter.py`) | leases and tokens in Redis, a semaphore per process | acquire, release, degrade, reconnect | every provider call | lost answers, dead processes, leases shorter than calls | `ProviderLimiter` |
| Publishing batches (`packages/publishing/sqlalchemy_repository.py`, `publish_executor.py`) | batch, items, attempts | create, submit, dry run, retry, select, delete | desktop connector posts to platforms | posts outside any transaction, requests that overlap, edits meanwhile | `PublishBatch` |
| Desktop connector (`packages/publishing/connectors/xiaovmao_cdp.py`) | accounts and tasks of an external application | publish, poll, log an account in | publishing, login requests, sockets | commands that take effect although they fail, an application that works on, threads that outlive their request | `DesktopConnector`, `DesktopLogin` |
| Idempotency keys (`apps/api/dependencies.py`) | a record per key | get, put around a request | every write request | requests with one key, expiry, answers that do not fit | `IdempotentRequests` |
| Accounts and sessions (`packages/core/auth`) | users, sessions, registration codes, attempt windows | register, log in, patch | API, Redis | check then act on counters, administrators who patch each other | `SignIn`, `AdminGuard` |
| Uploads (`apps/api/services/uploads.py`) | upload sessions, objects | prepare, complete, cancel | object store | the row and the object change in separate steps, retries of a completion that died | `Uploads` |
| Planning and editing algorithms (`packages/planning`, `pipeline/_editing_agent.py`) | none | cut, chunk, assign windows, quantize; place B-roll, align it to cuts; cover a narration; check and materialize the selection of a model | pipeline nodes, model calls | boundaries of frames and lengths, a beam that drops what it needs later, inserts that move each other, a model that answers anything | `FrameGrid`, `CutPlanning`, `CutAlignment`, `InsertPlanning`, `CoveragePlanning`, `EditingAgent` |
| Media annotation (`packages/media/annotation`, `apps/api/services/annotation_*.py`, `media_processing.py`) | media rows and annotation rows | annotate, patch, replace a source, re-clip | model calls, editors, planning | rows written from what was read before a model call; timestamps against another source | `AssetAnnotation` |
| Creative cases (`packages/creative`) | case records, scoring cards, proposals | edit, learn, accept, scrape | planning | decisions that read in one transaction and write in another | `CaseRubric` |
| Rendering, audio, video (`packages/media`) | files | ffmpeg | pipeline nodes | I/O | |
| Provider plugins (`packages/ai/providers`) | none | submit and poll a vendor's job | gateway | I/O | |
| Draft export, editor handoff (`packages/production`) | files | translate a timeline | finished videos | formats | |
| Prompts, settings, stores, web pages, metrics, scripts | configuration, files | read, write | all | none of the kind treated here | |

### What makes each part correct

- **Runs.** A success has every node behind it. Rows never skip a node. A run
  that was persisted ends, and stays ended. A cancel request stops the node
  loop. A node that pays a provider is not executed twice at once. A run failed
  by reconciliation can be resumed. The job names a run that exists, whatever
  was deleted. A file that a run took over is there when it exports it.
- **Reservations.** An asset is leased to one run at a time. What a material pack
  lists stays leased until its TTL. A run that ended holds nothing.
- **Events.** Every stored event is published. A page shows it once and misses
  nothing.
- **Graph.** The order respects the edges; a template is rejected for a cycle if
  and only if it has one.
- **Provider calls.** Spend passes a budget by no more than what was in flight.
  An open circuit closes again. Calls in flight are bounded, also without Redis,
  and capacity held by the dead comes back.
- **Publishing.** A row never claims a post that did not happen. A batch is
  completed exactly when its items are. The connector reports success only of
  what the platform has. A login ends, and its socket with it.
- **Requests.** A request takes effect once under its key, and a replay answers
  the question that was asked. Attempts in a window are bounded. Somebody can
  always administrate. A completed upload has its object.
- **Planning.** A track fills the narration, uses no asset twice and shows no
  frame outside its windows. Shortage is reported only when there is one. An
  insert shows its clip, near its sentence, and what was accepted is planned. What
  a model selects is rejected or can be rendered.
- **Annotation and cases.** A failed analysis never enters the usable pool. A
  replacement that says it preserved an annotation leaves one that fits. A case
  has one active scoring card. A finished video keeps its number.

## 2. Modules

| Module | Content | Extends or instantiates |
|---|---|---|
| `StateMachines` | the job and run tables of `state_machines.py`, `Allowed` for `assert_transition`, reachability | |
| `RunOutcome` | abstract: what others are promised about the durable status of a run | `StateMachines` |
| `RunLifecycle` | API process, database rows, workflows, activities and abandoned executions of the runs of one job | `StateMachines`, `RunOutcome` as `RunContract` |
| `SlotLock` | abstract: each asset is a lock | |
| `SelectionReservations` | leases of the runs of one case | `SlotLock` as `Lock` |
| `EventStream` | outbox, dispatchers, hub, Redis, socket and page for one run | |
| `RunRecords` | which run the job row names, while runs are made, written and deleted | |
| `RunFiles` | the generated file that runs of one job share | `StateMachines` |
| `FinishedVideos` | numbers of the finished videos of one case | |
| `NodeGraph` | topological sort and validation of one template | |
| `ProviderCalls` | invocations of one provider profile past budget and circuit | |
| `ProviderLimiter` | leases, tokens and semaphores of one concurrency key | |
| `PublishBatch` | one batch, its items and the requests on it | |
| `PublishPort` | abstract: what an adapter promises of each post | |
| `DesktopConnector` | posts through the desktop application | `PublishPort` as `Port` |
| `DesktopLogin` | login threads, their sessions and sockets | |
| `IdempotentRequests` | requests that share an idempotency key | |
| `SignIn` | login and registration windows, uses of a registration code | |
| `AdminGuard` | patches of accounts and the guard of the last administrator | |
| `Uploads` | one upload session and its objects | |
| `Orders` | a finite set as the sequence that sorts it | |
| `FrameGrid` | frames, slices of a source, the check of a track | `Orders` |
| `CutPlanning` | the portrait track of one video | `FrameGrid` |
| `CutAlignment` | inserts moved to the cuts under them | `FrameGrid` |
| `InsertPlanning` | B-roll over one portrait track | `CutAlignment` |
| `CoveragePlanning` | a video of B-roll alone | `FrameGrid` |
| `EditingAgent` | one selection by a model, and its tracks | `CutAlignment` |
| `AssetAnnotation` | one media asset, its annotation and its source | |
| `CaseRubric` | scoring cards and proposals of one case | |
| `RunLifecycleProofs` | proofs about `RunLifecycle` | that module, `TLAPS` |
| `RequestProofs` | proofs about requests: `AdminGuard`, `IdempotentRequests`, `SignIn`, `Uploads` | those, `TLAPS` |
| `StoreProofs` | proofs about stored rows and shown events: `RunFiles`, `CaseRubric`, `RunRecords`, `FinishedVideos`, `EventStream`, and about leases: `SelectionReservations` | those, `FiniteSums` |
| `ProviderProofs` | proofs about `ProviderLimiter`, `ProviderCalls` | those, `FiniteSums` |
| `PublishingProofs` | proofs about `PublishBatch`, `DesktopConnector` | those, `TLAPS` |
| `PlanningProofs` | proofs about `NodeGraph`, `AssetAnnotation`, `CoveragePlanning`, `InsertPlanning`, `EditingAgent` | those, `FiniteSums` |
| `CutPlanningProofs` | proofs about `CutPlanning` | that module, `FiniteSums` |
| `FiniteSums` | lemmas: the least and the greatest of a set, sums over finite sets, sorted sets, functions defined along a rank | `Orders`, `TLAPS` |
| `MCRunLifecycle`, `MCSelectionReservations`, `MCEventStream`, `MCPublishBatch` | constants for TLC | the module they are named after |
| `MCServices` | nineteen parts in one model, and their constants | those parts |
| `MCPolled` | five parts in which something polls or waits, with fairness | those parts |

`PROJECT.json` maps every definition to the lines it stands for. Only a part
whose state another part writes is composed with it in one module: the API with
the workflows, planning with the run store, the outbox with the socket. The
nineteen parts of `MCServices`, and the five of `MCPolled`, share no variable, so
nothing is lost by moving one of them in each behaviour: `part` is chosen in the
initial state, the others rest in one of their own (`Rests`), and `Turn` gives the
step to the part that moves.

### RunLifecycle

| Variable | Code |
|---|---|
| `memJob`, `memRun`, `memRetry` | the API's `Repository`: job and run status, whether a node error of the run is retryable |
| `dbJob`, `dbRun`, `dbNode`, `dbRetry` | the rows; the output of a node is the run that owns its artifact, or `NoRun` |
| `src`, `plan` | `resume_from_run_id`, and how many nodes the reuse plan keeps |
| `req`, `cancelSync` | how far `_start_submitted_run` and `cancel_run` are; each write is a step |
| `wf` | what `DigitalHumanVideoWorkflow.run` awaits, the node, the attempt, `cancel_requested` |
| `act` | the activity awaited: scheduled, working on a snapshot, or reported |
| `zombies` | executions Temporal gave up on whose threads go on and will write |

`AdmitRun`, `PersistAdmitted`, `PlanReuse`, `CallStart`, `PostStartSync` and
`Compensate` are the steps of `_start_submitted_run`. A resume goes through
`PlanReuse`, which loads the source run into the API's memory. `CallStart` may
fail with or without a workflow. `WorkflowStep` is the code between two awaits
of the workflow. `StartActivity` loads a snapshot, `FinishActivity` computes the
outcome from that snapshot and writes it. `LoseActivity` is a dead worker,
before or after its write; `TimeOutActivity` turns an execution into a zombie;
`FinishZombie` is its late write. `RestartApi` forgets memory and requests.

A write replaces the rows of the job and the run; node rows have fresh keys, so
`SyncFromWorker` adds outputs and never removes one. Which prefix a resume keeps
is open (`ReusePrefixes`), as are success and failure of a node.

Data left out: node kinds, options, artifact files, degradation notices, times.
All templates of the repository are linear, so a node is its place in the order.

`RunOutcome` says: a run appears as admitted, and moves along the run table,
several moves of a transaction being one step. The mapping is `status <- dbRun`.

### SelectionReservations

`row` has a row for each run and asset, with the ticks its lease has left and
the attempt that made its key. `act[r].mem` is what the activity loaded and
changed; `api` is what the API's memory holds, and `syncs` the cancel requests
that will write it. `Accepts` states both unique constraints of the table;
`Sweep` is `_expire_stale_selection_reservations`, part of every write, hence of
every action that writes. `Conflict` is a write that violates a constraint: it
costs the attempt. `StartPlanning` picks any shortlist that avoids leases loaded
from other runs. Nodes between planning and the last one are the stage `work`,
which may repeat. The model has one medium, as slots of different media never
meet. `Faults` says for each run what may happen to it, so that one model holds
a run with late writers beside one without.

`SlotLock` is a lock for each asset; `Holder` maps a live lease to its run.

### EventStream

An event is its place in the order of `(created_at, id)`, so the replay cursor
is a number. `Create` makes an event in a writer's memory and `Sync` stores it
with the rest of the writer's snapshot, later than it was created. `Claims` is
`FOR UPDATE SKIP LOCKED`. `Dispatch` claims, publishes and marks in one step;
`DispatchFails` is the same transaction failing before or after the fan-out,
which ends the task. `Connect`, `SendReplayed`, `Subscribe` and `SendLive` are
the steps of `run_websocket` between awaits, and `Show` the page's handler.
`due` is a history variable: what was published while the page was subscribed
and, if by another replica, while the hub listened to Redis.

### RunRecords, RunFiles, FinishedVideos, NodeGraph

`RunRecords` keeps of a run whether it is open, ended or deleted, and looks at
one column: `active_run_id` of the job. Three writers have a copy of it: the API
(`memActive`), each activity (`snapshot`) and `delete_run_record`, which
recomputes it in the database (`DeleteRun`) and again in memory (`ForgetRun`).

`RunFiles` follows the template `seedance_t2v_v1`, in which a run generates a
file, exports it at the same address and finishes. `address[r]` says whose file
the run names after a resume; `Collected` is `gc_ephemeral_artifacts`, which
spares what the run's own durable artifacts name. `AdmittedAs` is the part of the
job table that decides whether a run may follow another.

In `FinishedVideos` a writer chooses a number from committed rows
(`ChooseNumber`), flushes under the unique index (`Flush`, which waits for an
open transaction with the same number) and commits. `Clashes` and `MayTryAgain`
are the retry loop of `_FINISHED_VIDEO_NUMBER_RETRY_LIMIT`.

`NodeGraph` runs `_kahn_order` a node at a time (`VisitNode`) over a list of
edges, which may repeat an edge and name unknown nodes; `Validate` is the verdict
of `validate_graph_structure`. `ReadyNodes` is `ready_nodes`, written
independently in the code, and here the reference definition.

### ProviderCalls and ProviderLimiter

`call[n].mine` are the invocations in the memory of a node, `rows` the bag of
those that were stored. `Invoke`, `ValidateProfile`, `BudgetGuard`,
`CircuitBreaker`, `MarkPolling`, `PluginEnds` and `PluginRaises` are the stages
of `ProviderGateway.invoke`; every change of a status passes the provider table
(`Moves`). `SyncNode` makes rows of them; `LoseNode` is a worker that dies before.
An invocation keeps its age up to the circuit's window and whether the budget's
period still covers it, and is dropped when neither sees it.

In `ProviderLimiter` a thread is idle, polling Redis, queueing for the semaphore
of its process, or in a call through either. `lease[t]` is what is left of its
lease, `orphans` counts leases that nobody will remove, by what is left of them.
The script is one step (`Acquire`). `AcquireFails` and `Release` include a
command that took effect although the client saw an error.

### PublishBatch, DesktopConnector, DesktopLogin

A submit is `Submit` (transaction A), `Post` once for each item and account with
no transaction open, `Reload` (the reads of transaction B) and `Write` (its
flush and commit). A retry is `Retry`, `Post`, `RetryFlush` and `RetryCommit`
inside one transaction, and holds the row of its item in between (`Locked`).
`Write` follows the session: a column is updated only when its value differs
from what was read, and an update of a deleted row fails the transaction.
`posted` counts what the platform has seen, `recorded` what the rows say.

`DesktopConnector` is one level down: a `Post` there is `ChooseAccount`,
`CreateTask`, `StartTasks` and `Poll` here. Every command may fail with or
without its effect; the application moves its tasks (`AppWorks`), and users log
in and out of it, at any time. `PublishPort` says what a caller may rely on:
`published` is only told of what the platform has, and a call posts once at most.
The mapping takes the answer from the end of a call, and the platform from the
application's tasks, also of calls that gave up on them.

`DesktopLogin` has a thread for each login, which looks for a new account in the
application, and binds it; its session (`loginStatus`, `events`) which the API
may forget (`Forget`) while the thread goes on; and the socket that streams the
events (`TakeEvent`, `PollSession`).

### IdempotentRequests, SignIn, AdminGuard, Uploads

The middleware of `IdempotentRequests` is `LookUp`, `Execute` and `StoreAnswer`,
each with a transaction of its own. `hazards` is chosen in the initial state, so
that a property can say which of them it excludes.

`SignIn` has the sliding windows as counters, one in Redis and one for each
process. A check and a record are two commands (`Check`, `Record`); a process
that met an error of Redis goes by its own window from then on. A registration
reads the code's `used_count` (`ReadCode`) and writes it later (`AddUser`).

`AdminGuard` has a patch as `LoadAccount`, `GuardLastAdmin` and `WritePatch`. The
guard locks every active administrator `FOR UPDATE` and counts the others;
`RowLocked` is what it waits for. `Patched` writes only columns that differ from
what was loaded.

`Uploads` follows a completion through every write to the object store and the
row: `MarkUploading`, `Verify`, `Normalize`, `Stabilize`, `CopyToFinal`,
`NameFinal`, `DropStaging`, `MarkCompleted`, `Register`, and `Fail` from any of
them. A crash leaves the session as it is, for the next completion to pick up.

### Planning, AssetAnnotation, CaseRubric

`CutPlanning` is a pure algorithm with one action, `PlanStage`, for each stage of
`_plan_with_escalation`. `Boundaries` are the cuts a narration offers, `Chunks`
the pieces between them, `Beams` and `Search` the assignment of windows, and
`Slice` the frames. Times are milliseconds, as `round_time` keeps them. The lists
of cuts that the code builds are sorted and without repetition, so they are sets
here, and `Rising` makes the sequence of one; each loop that goes along them is a
recursive function on its places. Scores only order windows, so the order is
input, and what a beam keeps is any choice of its width: whatever holds for every
choice holds for the scores.

`FrameGrid` is the grid of 30 frames in a second that the tracks of all planners
share: `Frame` rounds half a frame up, `Slice` is `slice_source_window`, and
`ValidTrack` the check by which `TimelinePlanning` fails a run.

`InsertPlanning` is `plan_insertions` clip by clip: `MatchClip` places those that
matched a sentence, `SpreadFillers` and `FillGap` put the others into sentences
without one, `FinishInserts` aligns all of them once more. Each placement tries
several starts, aligns the whole list to the cuts (`Align`) and is dropped when
the portrait would flash up for less than two seconds (`Flash`). A hash of the
run's id permutes clips of similar rank and says where in its slack an insert
begins: both are any choice here, of a slack its ends and its middle.

`CoveragePlanning` is `plan_coverage`, one clip a step (`CoverNext`), with the
phases in which the wish for different assets and looks is given up, and what
`BrollTimelinePlanning` makes of the result (`Conclude`).

`EditingAgent` has the numbered slots and candidates of the prompt. A reply is
any member of `Replies`; `AskAgent` checks it (`Valid`) and asks again;
`ProviderFails` and `NoProvider` are the other ways out, the second with the
deterministic selection (`Fallback`). `PortraitPlan` and `BrollPlan` materialize
what was chosen, and `VerifyTracks` is the check of `TimelinePlanning`. Which
fonts and music a reply names is one bit, whether they are candidates.

`AssetAnnotation` has a rerun (`BeginRerun`, `AnalyzeWindow`, `Persist`), a patch
(`ReadForPatch`, `WritePatched`), a replacement of the source (`MeasureSources`,
`SwapSource`, `CompareDurations`, `ReadForReclip`, `SetReclipped`) and processing
that changes the source alone. Each step is a transaction or a model call.

`CaseRubric` has readers that store a first card, requests that propose a fitted
one, and decisions about a proposal; each reads and writes in transactions of its
own, and the partial unique index on active cards is the guard `Refused`.

## 3. Runs of TLC

Each run asks one question. Two runs of a job or a case are the
least that disturb each other; two nodes are a node that is followed by another,
and a last one. `MaxLosses` counts activities that are lost in a behaviour, and
stays below `MaxReconcile`, the 5 attempts of `mark_run_failed`. The other
counters are bounded by the code, or named as bounds in their modules
(`MaxEvents`, `MaxDrops`, `MaxQueue`, `MaxRows`, `CallsPerNode`, `MaxNumber`,
`MaxRuns`, `MaxJobRuns`, `Requests`).

| Run | Bounds | Checks |
|---|---|---|
| `RunFaults` | 2 runs in turn, 2 nodes of one attempt, 1 loss, new, resume, cancel, forced cancel, every fault but `slow_api` | `NodePrefix`, `SuccessIsComplete`, `UpstreamLoaded`, `SingleAttemptRunsOnce`, `NoNodeAfterCancel` |
| `RunSettles` | 2 overlapping runs, 2 nodes of 2 and 1 attempts, 2 losses, new, retry, resume, start failures, fair | `EveryRunSettles`, `ImplementsRunOutcome`, `ReconciledIsResumable` |
| `ReserveMixed` | 2 runs, 1 asset, TTL 2, 2 attempts; one run with zombies, forced ends and API writes, one with lost workers | `PackIsBacked`, `EndedHoldsNothing`, `ImplementsSlotLock` |
| `Services` | the table below | `ServicesTypeOK` and the safety properties below |
| `Polled` | provider with 2 nodes; limiter with 2 × 2 threads; 2 items, 2 accounts and 3 requests in turn; 1 login; 2 events of 2 overlapping writers, 2 replicas that fail and restart, 2 lost connections, Redis lost; fair | `CircuitRecovers`, `CapacityComesBack`, `BatchTellsAll`, `StreamsEnd`, `TailShownOnce`, `EveryEventPublished` |

The parts of `Services`:

| `part` | Bounds | Checks |
|---|---|---|
| `accounts` | 3 users in any initial roles, 2 patches that repeat | `AnAdminRemains` |
| `sign_in` | 3 requests in 2 processes, windows of 2, a code for 1 use, 2 addresses | `AttemptsBounded` |
| `requests` | 3 requests, 2 bodies, every set of hazards | `TakesEffectOnce`, `ReplaysAreMine` |
| `uploads` | 3 completions one after the other, each of which may die, with or without processing, a cancel between them | `CompletedHasObject` |
| `records` | 4 runs in turn, deleted in any order, an API that restarts | `ActiveRunExists` |
| `videos` | 3 writers, 3 tries, numbers up to 4 | `NumbersStay` |
| `provider` | 2 nodes, limit 1, window 1, 3 rows | `SpendBounded` |
| `limiter` | 2 processes of 3 threads, limit 1, 2 tokens, TTL 2, failing commands, crashes | `CapacityBounded` |
| `publishing` | 2 items, 1 account, 2 overlapping requests, edits, deletions, crashes | `HonestPublished` |
| `connector` | 1 account of the application, 2 calls | `NothingFabricated` |
| `login` | 1 account, 1 login | types; its property is in `Polled` |
| `cuts` | narrations with 0 to 4 sentences and 0 to 4 pauses, 4 inventories of windows, beam of width 1 | `TrackIsWhole`, `ShortageIsReal` |
| `inserts` | 4 scripts of 3 sentences with 3 or 4 cuts, 3 sets of up to 4 clips in any order | `InsertsFit`, `AcceptedStays` |
| `coverage` | 4 durations, 3 sets of up to 4 spans in any order | `CoverIsHonest` |
| `agent` | 2 narrations, 3 material packs, all replies of up to 3 portraits and 2 inserts, right and wrong, 1 repair | `AgentRenders` |
| `annotation` | 3 requests, 3 durations (two of them within the drift), 1 window, 1 semantic retry | `FailedStaysOut`, `ReportedFits` |
| `graph` | 4 nodes, every set of up to 4 edges, lists of 2 edges with unknown names, every 3 edges written twice | `SortIsRight` |
| `files` | 4 runs of the job, new, retry and resume | `ExportHasFile` |
| `rubric` | 2 readers, 2 proposals, 2 decisions | `OneActiveCard` |

Why these bounds are enough for the case to happen: a window is exceeded by two
requests of two processes, and a third shows that the excess is not two; three
writers make one lose twice, and thus use the retry after the first; a completion
that dies and a second one, which finishes what the first began, need a third to
fail on it; three threads of a process fill the limit, wait and time out; four
runs let a resume of a resume fail and be followed by one more; a beam of width 1
drops what it needs in most inventories, so that the rescue decides; the scripts
have cuts a few frames on either side of a sentence's end, so that an insert is
pulled across it. Every
property has a mutant that violates it within these bounds.

`RunFaults` leaves `slow_api` out, which only delays the last write of a request
past steps of the worker: TLC meets it in `CancelOrphans`, and the theorems of
section 5 hold with it.

Some properties hold only where a fault is absent, and say so by a premise or by
the constants of their run. `RunSettles` keeps API writes ahead of the worker (no
`slow_api`), restarts no API and cancels nothing. `PackIsBacked` and
`EndedHoldsNothing` speak of runs whose own writes are on time, while another
run's are not. `EveryEventPublished` needs one dispatcher that goes on, and
`CapacityComesBack` processes that no longer lose Redis. `TakesEffectOnce` has
the premise that no hazard is there. `Services` takes from its constants that a
user is patched by one request at a time (`StalePatches`), runs of a job are
created in turn (`OverlapRuns`), deleted videos are not synced again
(`StaleCopies`), edits of an annotation do not overlap (`OverlapEdits`), the API
knows the job's status when it admits a run (`StaleJob`), and requests on an
upload come one after the other; `Polled` takes the same of those on a batch. Section 6 says what happens otherwise.

Symmetry is used where all checked properties treat the members alike and
nothing is liveness: for the runs in `RunFaults`. `CHECK_DEADLOCK FALSE` stands where a behaviour may end: every
run is over, every event shown, every request served, every stage planned.

Every property of a passing run has a mutant: a changed definition of the code
(a dropped guard, a forgotten reset, an off-by-one) under which TLC finds that
property violated. Mutants stand in the modules, marked as such, next to what
they replace.

## 4. Fairness

- `RunLifecycle`: weak fairness of the steps of a request and of the steps of a
  workflow and its activity, for each run. A request is served by one thread
  that waits only for calls with timeouts; Temporal keeps workflows and
  schedules activities; each activity has a `start_to_close_timeout`. Users,
  faults, restarts and zombies are owed nothing.
- `EventStream` (`StreamFairness`): weak fairness of each dispatcher while its task lives (it polls
  in a loop), and of the steps of an open page, which reconnects on close. No
  writer must create or store anything, and nobody must restart a replica.
- `ProviderCalls` (`ProviderFairness`): time passes. No node must call or store
  anything, so a circuit recovers also if nobody asks.
- `ProviderLimiter` (`LimiterFairness`): weak fairness of waiting threads (they
  poll), of the end of a call (it has a timeout) and of time. Weak only: nothing
  orders the waiting threads, so no thread is promised a slot, and
  `CapacityComesBack` does not say so.
- `DesktopLogin` (`LoginFairness`): a login thread takes its next step, and its
  search runs out of time (`BreakOff` is one of these steps); a socket takes an
  event or polls. `Look`, which may find the account, the user and the
  application are owed nothing.

The other modules state safety only. `Polled` assumes these together: a part that
rests owes no step, except that the dispatchers of the stream poll from the start,
so that `StreamFairness` is assumed of behaviours in which the stream moves.

## 5. Proofs

The theorems below are proved for every value of the constants that the named
assumption of their module admits (`ConstantsAssumption` of `RunLifecycle`,
`ReservationConstants`, `WriteConstants`, `AdminConstants`, `GraphConstants`, ...:
sets are finite, bounds are numbers); TLC evaluates these in every run. An
`ASSUME` in the statement of a theorem is a restriction that the run of the
property has too; section 6 says what happens without it.

`RunLifecycleProofs`, for any set of runs, any template length, any attempts, all
requests and all faults:

| Theorem | Statement |
|---|---|
| `TypeCorrect`, `Typed` | `Spec => []TypeInv`, `Spec => []TypeOK` |
| `Inductive` | `Spec => []IInv` |
| `PrefixAlways` | `Spec => []NodePrefix` |
| `SuccessAlwaysComplete` | `Spec => []SuccessIsComplete` |
| `OutputsAlwaysLoadable` | `Spec => []OutputsAreLoadable` |
| `UpstreamAlwaysLoaded` | `Spec => []UpstreamLoaded` |
| `SingleAttemptAlwaysOnce` | `Spec => []SingleAttemptRunsOnce` |
| `CancelStopsNodes` | `Spec => NoNodeAfterCancel` |
| `OutcomesAlwaysKept` | `ASSUME Orderly PROVE Spec => ImplementsRunOutcome` |
| `ReconciledAlwaysResumable` | `ASSUME Orderly PROVE Spec => ReconciledIsResumable` |

None of these is inductive. A stale write is harmless only for what its writer
held, so the invariant must speak about every copy of a run. `IInv` has five
parts besides the types.

- `RowsSound(r)`: the rows of `r` are a prefix, owned by `r` and the run it
  resumes, and complete if row or memory says succeeded.
- `StatusSound(r)`: which statuses a row or the memory can show, and that a
  workflow has a row to load.
- `FlowSound(r)`: the outputs of all nodes before the awaited one are in the
  database, also for a result that is reported and not yet taken.
- `ExecutionSound(e)`: the same of the snapshot of an execution, live or given
  up, however old it is.
- `ZombieSound(e)`: a zombie belongs to a workflow past its node, or at a further
  attempt of it. From this follows that a node with one attempt has no zombie
  beside it.

That outputs are only ever added (`SyncFromWorker`) makes facts about an old
snapshot last. The step lemma has one case for each action.

The last two are about the durable status, which many write. Without a
restriction they are false: a write that comes late puts an older status back
(section 6). `Orderly` says that the row has one writer at a time: nobody cancels,
the API's write after a call to Temporal is in time and its answers arrive, and
an execution that Temporal gave up is dead. Workers still die, activities time
out, the API restarts and runs are retried and resumed. Under it the row belongs
to the request until the workflow may act and to the awaited execution then
(`OrderInv`), so that each write finds the status its copy was loaded with, and
maps to a step of `RunOutcome` or to none; and a write that finds outputs missing
marks run and job for a retry in the same transaction.

`StoreProofs` about `SelectionReservations`, for any runs, assets, TTL, attempts and
faults:

| Theorem | Statement |
|---|---|
| `Inductive` | `Spec => []IInv` |
| `LeasesAlwaysDisjoint` | `Spec => []LeasesDisjoint` |
| `LeasesAreLocks` | `Spec => ImplementsSlotLock` |
| `PackAlwaysBacked` | `Spec => []PackIsBacked` |
| `EndedAlwaysFree` | `Spec => []EndedHoldsNothing` |

`LeasesDisjoint` is not inductive, because a lease that has run out still blocks
the index until it is swept, and a late writer brings back leases of any age.
The invariant is `ReservedDisjoint`: rows marked reserved never meet, live or
not. For the refinement, each step either leaves a holder, frees the asset, or
gives away one that nobody held: no write passes a live lease from run to run
(`NoHandover`), since the unique index refuses it. The last two speak of runs
whose own writes are on time, beside runs whose writes are not. `Owned(r)` is what
such a run keeps whatever the others do: nobody else will write its rows, its
activity knows every live lease of the run and has reserved what its pack lists.

The other modules:

| Theorem | Statement | Invariant and argument |
|---|---|---|
| **`RequestProofs`** | | |
| `AdminAlwaysRemains` | `ASSUME ~StalePatches PROVE AdminSpec => []AnAdminRemains` | what a patch loaded is still in the row (`LoadedIsCurrent`); one guard at a time has passed, as all lock every administrator (`OneGuard`); and a guard that passed holds another administrator than the one it changes (`GuardHolds`) |
| `ReplaysAlwaysMine` | `WriteSpec => []ReplaysAreMine` | a record was made by a request that took effect, and has its body (`RecordIsHonest`) |
| `AlwaysOneEffect` | `WriteSpec => []TakesEffectOnce` | without hazards at most one request is unanswered, and the one that took effect is about to store its answer or has stored it (`OneEffect`) |
| `AttemptsAlwaysBounded` | `SignInSpec => []AttemptsBounded` | by counting: uses recorded, and requests past their check that will record one (`OnTheirWay`), are together within the cap, for a request read a use that was left (`ReadsAUseLeft`) |
| `CompletedAlwaysHasObject` | `ASSUME "overlap" \notin UploadFaults PROVE UploadSpec => []CompletedHasObject` | a completion knows, at each of its steps, which object is there (`KnowsItsObject`), also one that goes on where another died |
| **`StoreProofs`** | | |
| `OneCardAlwaysActive` | `RubricSpec => []OneActiveCard` | the unique index allows one active card, and no step leaves a case without (`AtMostOneActive`, `SomeActive`), for which a decision must still know a card that exists (`RefersToRows`) |
| `ExportAlwaysHasFile` | `ASSUME ~StaleJob PROVE FileSpec => []ExportHasFile` | unless the job was cancelled, every file a run names is stored (`FilesKept`); a cancelled job has no open run and admits none (`CancelledIsOver`) |
| `ActiveRunAlwaysExists` | `ASSUME ~OverlapRuns PROVE RecordSpec => []ActiveRunExists` | the only run that can be open is the last one made (`OpenIsLast`), what an API process remembers is stored or was never (`KnownIsStored`), and an activity found its own run named (`SnapshotNamesIt`), so that its write puts no other back |
| `NumbersAlwaysStay` | `VideoSpec => NumbersStay` | numbers differ (`NumbersDiffer`), and one that is flushed and not committed is free, as the index locks it (`FlushedIsFree`) |
| `TailAlwaysShownOnce` | `StreamSpec => []TailShownOnce` | while a page replays, no event is shown from the wire (`ReplayFirst`); after that an event that was shown is before the cursor, and is dropped |
| **`ProviderProofs`** | | |
| `CapacityAlwaysBounded` | `ASSUME "long_calls" \notin Faults PROVE LimiterSpec => []CapacityBounded` | every call on Redis holds a lease that is still alive (`CallsHoldLeases`) and leases, orphans included, are within the capacity (`LeasesBounded`); local calls hold the semaphore of their process (`LocalBounded`). |
| `SpendAlwaysBounded` | `ProviderSpec => []SpendBounded` | by summing over the nodes: the rows of a period, and what each node has called and not stored (`Unseen`), are together within the budget and one burst of all nodes (`UnseenFits`) |
| **`PublishingProofs`** | | |
| `AlwaysHonest` | `BatchSpec => []HonestPublished`, whatever `Ops` | by counting: the publications recorded of an item, and the requests that hold a post not yet recorded (`Holders`), are together no more than the posts each account has made (`Backed`) |
| `NeverFabricated` | `ConnectorSpec => NothingFabricated` | refinement of `PublishPort`; a call has no task before it asked for one (`NoTaskYet`), so a task that is made anew never takes a publication back |
| `BatchAlwaysTells` | `ASSUME Ops \subseteq {"dry_run"} PROVE BatchSpec => []BatchTellsAll` | one request is at work at a time (`OneInFlight`); nothing is posted of an item that it has not come to, and what it holds of the others will be written by transaction B (`FreshUnposted`, `RequestSound`) |
| **`PlanningProofs`** | | |
| `SortAlwaysRight` | `GraphSpec => []SortIsRight` | an indegree counts the edges from nodes not visited (`CountsOpen`), and a node is ready when it is 0 (`ReadyIsOpenless`). Sound: upstreams are visited first (`UpstreamsFirst`). Complete: of a cycle the node that is visited first would have an upstream, on the cycle, that was visited before it |
| `FailedAlwaysOut` | `ASSUME ~OverlapEdits PROVE AnnotationSpec => []FailedStaysOut` | a request that writes works on what is stored (`EditsAlone`), and an edit of a failed annotation leaves it failed (`EditsKeepFailure`) |
| `ReportedAlwaysFits` | `ASSUME ~OverlapEdits PROVE AnnotationSpec => ReportedFits` | what is stored and what a request holds fit their own duration (`Fits`), and the duration follows the media of the analysis (`Follows`) |
| `CoverAlwaysHonest` | `CoverageSpec => []CoverIsHonest` | spans are offered once and shown once (`OfferedOnce`, `ShownOnce`), in a chain (`Chained`); that giving up is right follows from sums of footprints over sets of spans, the shown ones being all there are |
| `InsertsAlwaysFit` | `InsertSpec => []InsertsFit` | what was padded on a side begins or ends on a cut (`FitsIn`) and is not moved on that side again, so that a pad never grows past `MaxPad`; rounding is lost once, because aligning again finds the same frames (`FrameOfMs`) |
| `AcceptedAlwaysStays` | `InsertSpec => AcceptedStays` | aligning is idempotent (`AlignAgain`): nobody gets shorter by it, so a neighbour that was in the way still is; what was accepted is therefore aligned and without a flash already (`Right`) |
| `AgentAlwaysRenders` | `AgentSpec => []AgentRenders` | a reply that is accepted (`Valid`) has one portrait for every slot, by the pigeonhole principle (`FilledIs`), and sources that fit its windows (`SourcesFit`); aligning overlays to cuts keeps their order (`RisingIs`, `NoCrossing`), so none overlaps the next (`AlignedLie`). What the fallback picks is acceptable: a pool has an asset that is not used up as long as there is room in it, by counting uses (`SpareAsset`, `PickedFair`), so only an empty pool stays without an edit |

`CutPlanningProofs`, for any narrations, any inventories of windows and any width
of the beam:

| Theorem | Statement |
|---|---|
| `CutSafe` | `CutSpec => []CutInv` |
| `CutTypesAlwaysOK` | `CutSpec => []CutTypeOK` |
| `TrackAlwaysWhole` | `CutSpec => []TrackIsWhole` |
| `ShortageAlwaysReal` | `CutSpec => []ShortageIsReal` |

`CutInv` says that a plan is whole and that no variant of a stage which was passed
could be covered. Both are about the algorithm more than about its steps, and are
proved along it.

- *Whole.* What a sentence or a pause offers is inside the narration
  (`CutsSound`); what is kept of it is more than 80 ms apart (`KeptApartIs`); a
  split stays 1.5 s from both ends of its gap (`SplitGapIs`), the chunks take some
  of these cuts in turn (`ChunkEndsSpaced`), and merging the tail only takes one
  away (`MergeTailSpaced`). So the cuts of every variant ascend from 0 to the end
  with more than 80 ms between them (`TiersAre`): two frames (`FramesApart`), so
  that no chunk vanishes on the grid, and a window that is a millisecond short
  still has a frame to give (`SliceInside`, `QuantizedIs`).
- *Real.* Beams and rescue choose windows that fit (`BeamsFit`, `SearchIs`), and
  the rescue is complete. The search does not enter a node that has failed, by a
  signature of depth, last asset and the windows used. `Honest` says of what it
  returns: a failure means that nothing below the place can be completed, and
  everything in `visited` is dead or still open above. It holds because two
  choices with one signature can be completed alike (`SameNode`), and because the
  test of the hardest chunk left is necessary (`HardestIs`).

The recursive functions of the model are defined by `CHOOSE`. That one exists is
proved from a rank that falls with each call (`RecursiveByRank` in `FiniteSums`):
the distance to the end for splits and chunks, the chunks that are left for the
beam, and for the search the chunks that are left and then the windows still to
try for this one (`Remaining`).

`LeasesDisjoint` and `OutputsAreLoadable` are proved and not listed in a run: the
first is part of what `ImplementsSlotLock` says, the second takes three runs to
break.

The library proves facts by induction with theorems that take an operator, which
no prover here can instantiate. `FiniteSums` does without: among the subsets of a
finite set that refute a fact there is a least (`SmallestSet`, from the
well-foundedness of strict inclusion), and its elements give the contradiction.
`Max`, `Min` and the sums of the community modules, which are folds, become usable
by it. In the same way a least rank gives induction and recursion along a rank
(`RankInduction`, `RecursiveByRank`). It does not reach folds over sequences.

Out of the prover's reach, and left to TLC: `EveryRunSettles`,
`EveryEventPublished`, `CircuitRecovers`, `CapacityComesBack` and `StreamsEnd`,
which are liveness. `ServicesTypeOK`, which joins the type invariants of the parts
of `MCServices`, is proved part by part where a part has an inductive invariant,
and not as a theorem about their composition.

## 6. What the runs found

Each of these runs shows a behaviour of the code that a text of the repository
excludes. `PROJECT.json` quotes the text.

| Run | Violates | Behaviour |
|---|---|---|
| `CancelOrphans` | `EveryRunSettles` | the write after a cancel signal puts admitted over cancelled, and nobody drives the run |
| `ResumeChain` | `EveryRunSettles` | a resume of a resume names artifacts that are not loaded, and is retried for ever |
| `EventGap` | `EveryEventArrives` | an event published between replay and subscription is never shown |
| `PublishClosed` | `FailsFast` | an item of a completed batch is posted before the batch is refused |
| `VideoLost` | `FinishedHasFile` | a run generates a video and fails; one that resumes it exports the video and fails in its last node; another that resumes the first is cancelled and deletes the file of the finished video |
| `InsertOverlap` | `InsertsDisjoint` | a cut pulls the end of an insert past its sentence, the filler of the next one begins before that, and `TimelinePlanning` fails the run |
| `CoverageRounding` | `CoverageRenders` | a narration that ends on half a frame is covered to a frame more than its total, which rounds to even, and the run fails |

The same models show further deviations when the constants of a passing run are
changed, or when a property is checked that the modules state and no run has.

| Change | Property that fails | Behaviour |
|---|---|---|
| `slow_api` in `RunSettles` | `ImplementsRunOutcome` | the write after `start_workflow` (`jobs_runs.py:412`) puts admitted over the outcome of a fast run |
| `NeverReuse` empty in `RunSettles` | `EveryRunSettles` | a resume that keeps every node awaits none, and stays admitted (`temporal_adapter.py:157`); `seedance_t2v_v1` has only reusable nodes |
| `api_restart` in `RunSettles` | `EveryRunSettles` | a run persisted by an API that died before starting it stays admitted |
| `OnTime` widened to runs with zombies, in `ReserveMixed` | `EndedHoldsNothing` | a late write puts a released lease back (`sqlalchemy_repository.py:447`) |
| no premise in `EveryEventPublished` | `EveryEventPublished` | one database error ends the dispatcher of a replica (`events.py:310`) |
| `long_calls` in `Faults` of the limiter | `CapacityBounded` | a call longer than its lease stops counting (`provider_limiter.py:50`) |
| `overlap` in `Ops` of `Polled` | `BatchTellsAll` | two retries at once leave a batch publishing for ever (`publishing/sqlalchemy_repository.py:612`); a second submit that fails overwrites a published item (line 331) |
| `StalePatches` true | `AnAdminRemains` | a patch loads a disabled account, which other patches make the last administrator; it then passes the guard by its early return and demotes it (`sqlalchemy_service.py:200`) |
| `OverlapRuns` true | `ActiveRunExists` | the snapshot of an activity puts back the id of a run that was deleted meanwhile, and the next run of the job cannot be created |
| `StaleJob` true | `ExportHasFile` | the API admits a resume on the queued status it remembers of a job that was cancelled since; the files are gone (`jobs_runs.py:86-113`) |
| `OverlapEdits` true | `FailedStaysOut`, `ReportedFits` | a patch that was read before a rerun or a replacement overwrites it |
| `overlap` in `UploadFaults` | `CompletedHasObject` | a cancel that loaded the session before a completion finished deletes its object afterwards (`uploads.py:362`) |
| two accounts in `DesktopConnector` | `RightAccount` | a post that names an account the application does not list goes to the first candidate |
| `Services` with `SupersedesItsBase` | `SupersedesItsBase` | a proposal fitted against a card that was superseded meanwhile is accepted; a rejection may also overwrite an acceptance |
| `Services` with `OnlyRealCallsTrip` | `OnlyRealCallsTrip` | calls refused by the budget, or for the profile, count as failures and open the circuit (`provider_usage_metrics.py:114`) |

Some behaviours are visible in the models without a property of their own.

- A node other than planning that outlives the TTL of a lease writes it back, and
  meets the conflict when another run took the asset (`Conflict` with `stage`
  after `plan`).
- An event stored late lies before the cursor of a page that saw a younger one,
  and `Replay` leaves it out.
- An exception other than `ProviderRuntimeError` leaves its invocation submitted
  (`PluginRaises`). A budget with a limit of zero is never exceeded.
- Overlapping registrations read the same `used_count`: a code serves more
  accounts than `max_uses`.
- The number of the latest video is given out again after it was deleted, a sync
  from memory may store a deleted video again under a new number (`StaleCopies`;
  `NumbersStay` allows it), and a fourth writer may lose all its tries.
- A post that is reported failed may be on the platform, and its retry posts it
  again. `PublishPort` allows it on purpose: the code promises nothing of a
  failure.
- A login thread binds its account although it was cancelled between the check
  and the patch; two logins may bind the same account; one that was known and
  logged out is never recognised as new; a socket may close before it showed the
  outcome.
- A slice of a source may be a frame or two shorter than its place in the track,
  as `_quantize_plan` drops `pad_end_frames`, while the docstring of `plan.py`
  says exactly as long.
- The selection of the editing agent loses `pad_end_frames` in the same way
  (`_editing_agent.py:637`), where the fallback takes a window that is too short.
- Of a clip that is offered with two spans for a coverage only one is used, so
  that a narration may be short of material which the other would cover.
- Sources that are trimmed, stabilized or matched by name are never re-clipped,
  and `duration_sec` of an asset keeps the first value. An editor's stub, once
  patched, has no duration and thus no bounds. Re-clipping may drop every usage
  window of an asset that stays usable. An exception other than
  `NodeExecutionError` ends a whole batch of annotations
  (`annotation_batch.py:137`).

## 7. What is not modelled

The map covers about an eighth of the implementation's lines: those in which steps
of several actors meet, and the planners that decide whether a run can be rendered. What is left out, and why:

- The local runtime, which executes nodes in a thread of the API process and
  stores its events again with every sync. Deployment uses Temporal.
- Temporal, PostgreSQL, Redis, the object store and the desktop application
  themselves: a transaction is a step, or as many steps as it has points at which
  others can interfere. Signals and answers arrive once, heartbeat timeouts may
  be wrong.
- Bodies of most nodes, provider plugins (`packages/ai/providers`), rendering,
  audio and video (`packages/media/video`, `audio`, `rendering`): one thread that
  calls ffmpeg or a vendor and ends in success or an error. The models take that
  outcome as a choice, and what is inside are numerics, formats and I/O.
- Ranking and matching of material (`packages/planning/material`): scores with
  floating-point weights in functions without state; the planners take their
  result, the order of windows and clips, as input.
- Draft export and editor handoff, publishing copy and covers, prompt versions,
  case memory, reference extraction, import batches, metrics: they read one
  record and write another, and no step of somebody else comes between that a
  property would be about.
- The scripts by which the connector drives the application's pages: selectors
  and waiting, of which `DesktopConnector` keeps that a command may fail.
- Sessions, passwords and hashing; provider balances, alerts and dashboards;
  listings and reports of the API; schedules and packages of publish items.
- The web application, except for the hook that shows events.
- Configuration, scripts and migrations.

## 8. Plan

All modules that were planned exist. What would come next, by what a fault would
cost:

1. Abstract specifications: a counting semaphore for `ProviderLimiter`, a stream
   that shows each event once for `EventStream`, an execution for each key for
   `IdempotentRequests`.
2. A workflow whose run was ended by a zombie while `mark_run_cancelled` is
   retried: the step is in `RunLifecycle`, and a run that closes every workflow
   would be a liveness property of its own.
3. Composition of `PublishBatch` with `PublishPort` in the place of `Post`, so
   that a failed answer whose post appears later meets the retry of its item.
