# A TLA+ model of EviDelta

EviDelta (`src/src/feishu_agent_bot`) is a chat bot that runs research jobs: it
plans a search, fetches sources, extracts quoted evidence, synthesises claims,
writes a report, renders and delivers it, and then keeps the report up to date
by monitoring. The modules here model the parts in which several threads,
processes and retries work on the same SQLite rows, check them with TLC on small
instances, and prove the main properties of the local backend, of the chat
intake and of the update decision for every instance with TLAPS.

Paths below are relative to `src/src/feishu_agent_bot` unless they start with
`src/`.

## 1. The system

Two processes share one SQLite file:

* the **gateway** (`main.py`): a WebSocket client, an `EventQueue` of two
  threads that handle chat messages (`event_handler.py`), and, with the local
  backend, a `JobQueue` of worker threads (`job_queue.py`);
* with the Temporal backend, the **worker** (`temporal/worker.py`), which runs
  workflows (`temporal/workflows.py`) and activities (`temporal/activities.py`)
  on a pool of threads, driven by a Temporal service.

An operator's command line (`cli.py`) is a third process that writes some of the
same rows. Every method of `Repository` takes the lock of *its own process* and
opens a connection of its own. One method with one `UPDATE` is atomic for
everybody; a method that reads and then writes is atomic for the threads of its
process only, because the `SELECT` before the first write opens no transaction.

### Inventory

| Component | State | Operations | What is hard | What makes it correct | Modelled |
|---|---|---|---|---|---|
| Local execution backend (`job_queue.py`, `execution/local_executor.py`) | bounded queue, worker threads, `jobs` row | submit, reject, run, cancel, recover, stop | threads, full queue, crash at any point, failing repository calls | a job id is in one place; nothing queued is lost; outcomes final and announced truthfully | yes |
| Research agent (`agent/research_agent.py`) | stage, report row | the stages in order, cancellation check before each | cancellation and pause between stages | a completed job has a report | partly |
| Temporal backend, gateway side (`execution/temporal_executor.py`) | row projection | submit, status, cancel, pause, resume, recover | calls that fail, read-modify-write across processes, restart | a cancellation that is acknowledged was asked for; a closed workflow has an ended row | yes |
| `ResearchWorkflow` (`temporal/workflows.py`) | position, pause flag, cancellation | activities in order, two gathers, pause gate, failure and cancellation paths, validation loop | cancellation during any await, one branch of a gather failing | it ends | partly |
| Activity execution (`temporal/worker.py`, `retry_policies.py`) | attempts | pick, retry, time out, crash | an attempt that was given up goes on | the environment of the others | yes |
| Source acquisition (`acquisition/`, `research/`) | sources, assets, tables, datasets, heartbeats | plan, search, fetch, download, parse, profile | resume after a checkpoint, duplicates, attempts that overlap | nothing fetched twice, every table profiled | partly |
| Evidence extraction | evidence, heartbeat checkpoint | per source: ask, store items, beat | resume after a checkpoint | no source is skipped | yes |
| Report pipeline (`temporal/activities.py`, `artifacts/store.py`) | claims, report version, file | synthesize, generate, validate, publish, reset, complete, fail | late attempts, restart of the loop | workflow and tables agree; a published version stays | partly |
| Analysis skills and tools, report rendering (`analysis/`, `reporting/`) | runs, cached results, files, stamps, artifact rows | analyse, render, validate | two branches at once, a file made of a stale input | all files of a report show one analysis | partly |
| Notifications and artifact delivery | `notification_deliveries`, `artifact_deliveries` | try_start, send, mark sent or failed | crash between sending and marking, two attempts at once | what the chat gets it gets once; a notified job was notified | partly |
| Report updates (`/update`, update and validate activities) | patches, versions, change events | detect, patch, approve, reject, publish, mark applied | two publishers, retries that store the same patch again | patch published once, no change lost | partly |
| Monitoring schedules (`temporal/monitoring.py`, `/monitor`, `cli.py`) | Temporal schedule and `monitoring_configs` row | create, register, pause, resume, update, delete, run, cancel-current, reconcile | two stores changed one after the other by three processes | row and schedule agree; words survive the way to a schedule and back | yes |
| Monitoring cycle (`MonitoringCycleWorkflow`) | `monitoring_runs`, snapshots, failure count | start, recheck, search, extract, detect, decide, complete, notify | retried start, cancelled run, failure threshold | run rows end, failures are counted once, no change is lost | partly |
| Delta analysis (`monitoring/`) | change events and their impacts | change detection, impact, decision | boundaries of the decision table, evidence of unknown age | only harmless changes are taken over unasked | partly |
| Chat commands and intake (`event_handler.py`, `event_queue.py`) | event queue, `processed_messages`, drafts | claim, route, draft dialogue, commands | two event threads, redelivery, crash after claim | a message acts once, what was confirmed is what runs | partly |
| Tables (`repository.py`) | rows | every statement named above | statement boundaries | modelled inside their users | partly |
| Parsers and profiling, model clients and prompts, deployment checks | none | parsing, HTTP, display | sequential | - | no |

`PROJECT.json` lists every component with its sources, its status and what is
left out of it, and under `hazards` each place where the code is hard to test,
with the property that covers it or the reason why none does.

## 2. Modules

| Module | Models | Uses |
|---|---|---|
| `JobContract` | what any backend promises the owner of a job: statuses, messages, finality | |
| `LocalExecution` | local backend: queue, workers, handlers, recovery, stop, crash | `JobContract` (refined) |
| `LocalExecutionProofs` | proofs about it and the contract, refinement included | `LocalExecution` |
| `MessageIntake` | event queue, message claim, the dialogue of a research draft | |
| `MessageIntakeProofs` | proofs about it | `MessageIntake` |
| `ActivityTasks` | how a workflow's activities are attempted, given up, retried, one at a time | |
| `ParallelActivities` | the same for activities awaited together | |
| `TemporalResearch` | a job on Temporal: gateway commands, workflow, activities that write the row | `ActivityTasks` |
| `TemporalResearchProofs` | proofs about it | `TemporalResearch` |
| `EvidenceExtraction` | evidence extraction with heartbeats | `ActivityTasks` |
| `ResearchSources` | from the plan to the profiled tables | `EvidenceExtraction` |
| `ReportPipeline` | synthesize, generate, validate, reset loop | `ActivityTasks` |
| `ResearchWorkflowProofs` | proofs about `ResearchSources` and `ReportPipeline` | both |
| `ReportDelivery` | analysis, files, end of the job, messages to the chat | `ParallelActivities` |
| `ReportDeliveryProofs` | proofs about it | `ReportDelivery` |
| `ReportHistory` | what the owner of a report may expect of its updates, whoever publishes them | |
| `ReportPublication` | patches of the finished report: monitoring cycle against `/update` | `ActivityTasks`, `ReportHistory` (refined) |
| `ReportPublicationProofs` | proofs about it | `ReportPublication` |
| `ScheduleSpecs` | the words of a schedule, its Temporal spec and back | |
| `MonitorSchedule` | row, schedule and cycles of a monitor under commands of three processes | `ScheduleSpecs` |
| `MonitorScheduleProofs` | proofs about it and `ScheduleSpecs` | `MonitorSchedule` |
| `ChangeImpact` | detector, analyzer and decider as operators | |
| `DeltaAnalysis` | what one monitoring cycle finds out and decides | `ActivityTasks`, `ChangeImpact` |
| `DeltaAnalysisProofs` | proofs about both | `DeltaAnalysis` |
| `MC...` | instances for TLC | the module named |

The path of a job is `MessageIntake` (until the executor has it), then
`LocalExecution` or `TemporalResearch` for its row and its workflow; the
contents of the workflow are `ResearchSources`, `ReportPipeline` and
`ReportDelivery`, one after the other. A finished job is watched:
`MonitorSchedule` says when a cycle runs, `DeltaAnalysis` what it finds,
`ReportPublication` what becomes of it. The modules meet at the tables: each
takes the rows of the one before as given, in any state that one can leave.

### LocalExecution

`status`, `cancelReq`, `paused` are the columns of `jobs`; `published` counts
the report versions of a job. `queue` is `JobQueue.queue`, with `Pill` for
`None`; `pc`, `held`, `at`, `claim` are where each worker thread is, its
`job_id`, its stage and the outcome it is about to announce; `hpc`, `hjob` the
same for the handler threads; `phase` is where `main.run` is, `recovering` the
list `recover()` walks. One action is one repository call or queue operation:
`TakeJob`, `StartJob` (the conditional `UPDATE`) or `SkipJob`, `EnterStage`
(a cancellation check and the stage behind it), `PublishReport`, `LastCheck`,
`EndJob` (the `_set_terminal` with its condition), `Notify`. `WorkerFaults` is
a repository error anywhere in a run, which ends in `FailUnhandled`, where a
second one kills the thread. `Crash` forgets everything but the tables;
`Start` requeues and lists (`list_recoverable_jobs`), `BeginShutdown`,
`EventsDrained`, `PutPill`, `Exit` are the graceful stop. `QueryFaults` and
`RecoverFaults` are a call of `recover()` that raises: nothing catches it,
`main.run` ends (`main.py:194`), and because the workers are not daemon threads
the process lives on with whatever was enqueued so far (phase `stranded`) until
an operator ends it. What a stage computes, progress messages and texts are left
out.

`JobContract` sees only `status` and the messages sent (`told`). The refinement
maps each variable to itself: the work is in showing that no thread of the
local backend ever leaves the moves the contract allows or announces an outcome
that is not recorded.

### MessageIntake

`posted` is what one user writes in one chat, `queue` the `EventQueue`,
`worker[w]` what an event thread handles, where it is and the locals of its
handler; `claimed`, `drafts`, `jobs` are the tables `processed_messages`,
`research_drafts` and `jobs` with `monitor_registration_requests`. The messenger
delivers a message at least once (`DeliverFirst`, `Redeliver`), and what a full
queue refuses later. `Stop` is `EventQueue.shutdown`: what comes while the
gateway is not `accepting` is acknowledged and forgotten (`Dropped`), because
`submit` returns without an error; the workers finish what was queued, and
`StartAgain` is the next process. `Take` and `Claim` start the handling; `DraftMade`
(`upsert_research_draft`), `DraftRead`, `OptionsUpdated`, `DraftClosed` are the
dialogue, one repository call each, with the other worker in between;
`JobCreated`, `MonitorAsked`, `JobSubmitted` the submission; `Reply` the answer.
`Raised` is any of these calls raising (the user is told), `RaisedUnheard` one
outside `_route` (only logged), `Crash` the end of the process. Options are the
set of choices that differ from the defaults; text is left out.

### ActivityTasks and ParallelActivities

The workflow awaits one `task`; a `thread` has an attempt. `TimeOut` gives the
attempt up and leaves the thread running - an activity here is a synchronous
function on a thread, and nothing interrupts it. `WorkerCrash` forgets the
threads, `LossNoticed` is the timeout after it. `Raise`/`RaiseFinal` are the
retryable and the non-retryable errors of `retry_policies.py`.
`ParallelActivities` is the same for `asyncio.gather`: several activities are
awaited, the first that fails for good fails the workflow, and nobody stops the
others. The service itself is not part of the repository and is modelled from
its use.

### TemporalResearch

`status`, `bound` (has `temporal_workflow_id`) are the row; `wf`, `step`,
`asked`, `paused`, `says` the workflow: its state at the service, the next
activity of `Plan`, whether a cancellation is pending or delivered, the pause
flag, and the status it answers to queries. `cmd[h]` is the command a handler
thread is in the middle of, one position per call that another process can come
in between: `CancelAuthorize`, `CancelAsk` (the call to Temporal), `CancelSelect`
and `CancelUpdate` (the two statements of `cancel_job`), `CancelReply`;
`CreateJob`, `StartWorkflow`, `BindReply`, `StartRefused`; `StatusRead`,
`StatusQuery`, `StatusEnd`. `GatewayStart`, `RecoverList`, `RecoverInspect`,
`RecoverApply` are `recover()`. `Forgotten` is the service not knowing the
workflow any more (its retention is over, or its store was lost): `wf` is then
`missing`, and `StatusQuery` and `RecoverApply` act on NOT_FOUND as the code does
(`_mark_workflow_missing`). `EndJob` is any activity that ends the row. The
research activities in between are one `Research` step each; display columns are
left out.

### EvidenceExtraction and ResearchSources

`source`, `asset`, `tables`, `dataset` and `plan` are the rows of the job's
sources, downloaded files, parsed tables and datasets; a page is reduced to its
text, a file to its content. `evidence[s]` is what is stored for source `s`,
`checkpoint` the last source id in the heartbeat details, `todo[t]`, `got[t]`,
`hashes[t]` the locals of the attempt on thread `t`. A heartbeat may get lost
(the SDK sends them at intervals) and one of a given-up attempt is ignored.
`Serves` says what the web may answer for each source: a page, the page of
another source after a redirect, a file, or nothing. Workflows from before
`split-source-assets-v1` (`split = FALSE`) run one activity where later ones run
five; both are followed. Each transaction is a step, so an attempt can fail, be
given up or die between any two - in `fetch_sources` also between saving a table
(`TablesSaved`) and making its dataset (`DatasetSaved`). `examined`, `stray` and
`cut`, the tables an attempt left behind between those two, are history.

### ReportPipeline

`claims`, `row`, `file` and `completed` are the tables and the report file; a
report is the set of claims it cites. `Synthesize`/`AddClaim` add claims one
transaction at a time; `Generate`, `WriteReport`, `InsertReport`; `Validate`,
`Judge`, then `Publish` or `Refuse`; `Reset`; `Complete`, `MarkFailed`. Behind
`complete` come the registration for monitoring, which has one attempt, a stage
message, the delivery and the last stage message (`Closing`); here they only
succeed or fail (`CloseStep`, `DeliveryRefused`). What they do is in
`ReportDelivery` and `MonitorSchedule`. The
workflow side is `Proceed`, `ValidationFailed`, `ActivityFailed`; `mark_job_failed`
has one attempt, which may be lost. The validator
is an open verdict that must refuse a report with an uncited claim.

### ReportDelivery

`plan` is the analysis plan the workflow hands to both analysis activities,
`result` the rows of `analysis_results`, `runs` the two `analysis_runs`; `file`
has, for each of analysis JSON, charts, LaTeX, PDF and workbook, what it was
made of (the results, and the charts), `stamp` the input hash next to the PDF,
`row` the artifact rows with their content; `delivery` the delivery rows of
text, Markdown, PDF and workbook, `told` the notification status. `RunStarted`,
`CacheRead`, `ResultSaved`, `RunCompleted` are both analysis activities;
then come the files, some of them next to each other, the artifact validation,
the completion, the registration for monitoring and the stage messages
(`CloseStep`), and the delivery: claim a delivery row, send, mark it. When any of
them fails for good the workflow awaits `mark_job_failed` (`MarkFailed`), an
activity with one attempt like the others. A request
of the messenger may fail after the chat has the item, and `doubled` and `cut`
record the deliveries in which that, or a crash, has happened.

### ReportPublication

`versions`, `patches` and `event` are the tables `report_versions`,
`report_patches`, `change_events`; `cmd[h]` the `/update` command of a gateway
thread, `task`/`thread`/`work` the attempt of the cycle's current activity,
`cycle`, `draft`, `decision` the monitoring run. `publish_pending_report_patch`
is three steps (`PublishCheck`, `PublishNumber`, `PublishInsert`, and the same
for the worker), because its three accesses are three transactions;
`GatewayFree` is the lock that keeps other gateway threads out meanwhile. The
decision of the decider and the verdict of the validator are open.

`ReportHistory` is what all of this promises the owner, without tables, threads
or activities: `history` is the updates in the report in the order of its
versions, `fate[p]` says whether the p-th update is on offer, withdrawn or
published, `running` which updates the running cycle has made. A step makes an
update, withdraws one on offer, publishes one on offer, or offers a withdrawn one
again - the last only in the cycle that made it, because a retry of the activity
that stores a patch sets its row back to waiting (`repository.py:3374`), a
rejection of the owner included. The mapping reads `history` off the versions
after the first (`Carried`), `fate` off the status and version of each patch
(`Fate`) and `running` off their cycle numbers (`OfThisCycle`). What it has no
step for is a second version of one patch, be it from two commands or from a
command and a retry, a version of a patch the owner has rejected since it was
checked, a rejection of what is in the report already, and a version changed or
gone.

### ScheduleSpecs and MonitorSchedule

`ScheduleSpecs` has the parser of `/monitor create` as operators: `Legal`
(what it refuses), `SpecOf` (the Temporal spec), `RowOf` (the words the row
keeps), `Summary` (`_spec_summary`, the way back from a spec). A request is a
record; splitting text into words is left out.

In `MonitorSchedule`, `config` is the row, `sched` the schedule with the start it
has buffered, `caller[c]` the command a chat handler, the command line or the
worker executes and the call it is at, `token` the delete token in the memory of
the gateway, `request` the registration request, `cycle` the running workflow,
`runs` the run records. A command is read the row, call Temporal, write the row,
with the roll-back the code has for each: every call is a step and can fail, and
the other callers go on in between. `Tick` and `StartBuffered` are the
starts the schedule makes; `StartRun`, `Work`, `CompleteRun`, `CheckThreshold`,
`PauseSchedule`, `PauseRow`, `Notify` and `Close` are `MonitoringCycleWorkflow`
with retried activities, the pause after `Threshold` failures and the
pause-on-failure of the schedule. `late` is an attempt of
`complete_monitoring_cycle` that was given up and runs on (`RunsOn`, `LateStep`).
A call of the schedule may fail with or without having taken effect; a failing
pause of the threshold is swallowed (`PauseFails`), a failing registration goes
into the row (`RegisterFails`). The row of a monitor and the mark of its
registration are two transactions (`Mark`). `CallCancel` cancels by the newest
running row, as the handler does, whichever cycle that row is of.
`Reconcile`, `Describe` and `Repair` are `monitor reconcile --repair`; a
description that fails, for whatever reason, marks the row as not registered
(`unreachable`). Search, extraction and the report are the one step
`Work` here. One cycle runs at a time, as the schedule's overlap policy has it;
that a schedule deleted and created again may start a cycle next to one still
running is left out.

### ChangeImpact and DeltaAnalysis

`ChangeImpact` has the pure half of the monitoring package: `EventType`,
`Contradicted` and `Candidate` (change detector), `Touched` and
`Analyze` (impact analyzer), `Decide` (update decider).
`MayUpdateAlone` is the reference: when an update without asking is harmless.

`DeltaAnalysis` runs them on rows. `source`, `assets`, `targets`, `snaps`,
`evidence`, `events`, `claims`, `rows` are the tables; a page is reduced to the
one value it states about the one fact all sources speak of, so text and content
hash are that value. Its actions are the activities of a cycle - recheck, search,
extraction, detection, decision, completion - transaction by transaction, with
heartbeats (`beat`), the model call budget (`llm`) and the event limit.
`Overlap` says whether an attempt that was given up may still run when its
activity is over.

## 3. Runs

| Run | Question | Bounds | Distinct states |
|---|---|---|---|
| `local_safety` | Does the local backend keep the contract and lose at most one job to a failing call, but for those of `recover()`? (`TypeOK`, `OnePlace`, `NoJobLost`, `Implements`) | 2 jobs, 2 workers, 2 handlers, queue of 1, 1 stage, 1 restart, 1 failing call | 455,090 |
| `local_progress` | Does every job settle, every cancellation end? (`EveryJobSettles`, `CancelEnds`) | 2 jobs, 2 workers, 1 handler, queue of 1, 1 restart, no failing call | 301,372 |
| `intake` | Does a message act once, is what the user confirmed what runs, is every message answered that the gateway took? (`OneJobPerMessage`, `OneActiveDraft`, `MonitoringNotForgotten`, `AsConfirmed`, `EndedDraftsStay`, `Answered`) | 2 workers, queue of 2, 6 dialogues of 3 messages, 2 troubles, graceful stops among them | 239,230 |
| `temporal_safety` | Are cancellations asked for, outcomes final, closed and unknown workflows found? (`CancelReachesWorkflow`, `FirstOutcomeStands`, `RecoveryHeals`) | 2 handlers, 2 activity threads, 1 restart, 1 refused call, 1 timeout | 2,537,854 |
| `temporal_progress` | Does the workflow end? (`WorkflowSettles`) | 1 handler, 1 thread, 1 timeout, 1 loss, 1 restart | 114,895 |
| `sources` | Is nothing fetched twice, skipped or left unprofiled, from plan to tables? (`Unrepeated`, `NoSourceSkipped`, `TablesProfiled`) | 3 sources, pages, redirects and a file, 2 attempts on 2 threads, 2 troubles | 1,945,780 |
| `report` | Do workflow and tables agree, does a published version stay, does the loop end? (`OutcomesAgree`, `PublishedStays`, `EndsEventually`) | 2 claims, 2 threads, 3 rounds, 1 timeout, 2 losses | 163,938 |
| `delivery` | Do all files show one analysis, is everything sent once, is a notified job notified? (`OneAnalysis`, `SentOnce`, `ToldTheTruth`, `Settled`) | 3 analysis tasks in 2 branches, PDF or PDF and workbook, 2 threads, 1 attempt for `register` and `fail`, 2 for the others, 2 troubles | 390,604 |
| `publication` | Two owners' commands against two cycles: does the report keep its history? (`KeepsHistory`, `LinearPerProcess`, `AppliedIsReported`, `PublishedIsApplied`) | 2 handlers, 2 events, 2 cycles, 1 crash or failed attempt | 300,458 |
| `publication_linear` | Does every version build on its predecessor? Not when both processes publish (`LinearHistory`) | 1 handler, 2 events, 2 cycles, no failures | violated |
| `monitoring` | Do row and schedule agree, are failures counted once, does `reconcile` repair, do words survive? (`StoresAgree`, `CountsFailures`, `RunRowsEnd`, `ConversionsAgree`, `RepairAgrees`) | 3 callers, 2 requests, 2 commands, 2 cycles, threshold 2, 2 attempts, 2 troubles, 3 commands and troubles together | 1,810,360 |
| `delta` | Is no change of a watched page lost and no candidate skipped, does the budget hold, is an automatic update harmless? (`ChangeKept`, `AllExamined`, `AllReported`, `BudgetKept`, `AloneOnlyIfHarmless`) | 2 sources, 2 values, 1 cycle, 2 attempts, 2 model calls, 3 events, 2 troubles | 1,185,790 |

A *trouble* is an attempt that raises, dies, is given up and runs on, a lost
answer or a crash, whichever the module has; the bound counts them together.

Why the bounds are enough to be interesting:

* with a queue of one, two jobs fill it in submission, in recovery and in
  shutdown; two workers and two handlers are the smallest number for every
  pairwise race; one restart puts a crash at every position, and recovery is a
  function of the tables alone, so a second one meets no new situation;
* the dialogues of `intake` are those in which two handlers can meet on one
  draft: confirm twice, confirm and cancel in both orders, replace and confirm,
  choose and confirm, a direct command next to a topic; two troubles are a
  message delivered again after the first delivery was cut short;
* three sources are one before, one at and one behind a checkpoint, with two
  pages of the same text, redirects onto other sources and one file found twice;
  two attempts on two threads show a late attempt next to its retry;
* `MAX_VALIDATION_ATTEMPTS` is 3 in the code;
* two tools and one skill are a branch with a task saved and one missing next to
  a branch that ends; the activities have three attempts in the code
  (`temporal/workflows.py:79` for the delivery), of which two show a first attempt
  and its retry; those with one attempt have one here;
* two cycles are one patch waiting and one being published (`publication`), and
  a failure that reaches the threshold (`monitoring`); two commands after a
  registration are every pair of callers that can interleave. `MaxEvents` bounds
  commands and troubles together in `monitoring`: two commands meet one fault,
  or one command two;
* in `delta` one source is watched and one is found by the search, either a page
  or a file; the model call limit and the event limit are both reached. An
  attempt given up does not outlive its activity there (`Overlap`), which it may
  do in `sources` and `delivery`. What the decision does with every other
  evidence, claim and mode is proved (`AutoPatchIsHarmless`);
* `ConversionsAgree` is a fact about operators, evaluated over every request of a
  set of clocks, days, zones and intervals up to 150 (the constant `Compared`; the
  commands of the run itself ask for two).

Threads are symmetric in `local_safety`, `temporal_safety`, `sources` and
`delta`, which check no liveness.

Deadlock is checked in the local runs only: elsewhere a closed workflow, an
answered dialogue or an exhausted bound is a legitimate end.

Each property of a passing run has a mutant in `PROJECT.json`: a plausible bug
in the modelled code (a dropped guard, a swapped order, a missing reset) under
which TLC reports that property. The mutated operators stand next to the
definitions they replace, marked "Mutant of".

### Where the code disagrees with itself

`publication_linear` refutes what the code means to exclude
(`repository.py:3454`, "base report version changed"): two patches of the same
base, one published by the owner in the gateway and one by the worker, are both
published. Each version builds on the base alone, so the history forks, and the
version with the higher number, which becomes the current one, lacks the changes
of the other. The check and
the insert are separate transactions under a lock of one process only.
`LinearPerProcess` in `publication` shows that the lock is enough within the
gateway.

Further behaviours the models have and the properties above step around, each
with the exception named in the property's comment:

* a job in status `cancel_requested` when the process dies is taken up by no
  recovery (`repository.py:5252`); `CancelEnds` is stated for no restart;
* the `UPDATE` of `cancel_job` does not repeat the condition of its `SELECT`, so
  `/cancel` can overwrite an outcome the other process has just stored
  (`repository.py:5330`); `FirstOutcomeStands` names it as the one statement
  that can;
* a synthesize attempt that was given up can add claims after the report was
  made (`temporal/activities.py:1309`), so that a completed report need not cite
  every stored claim;
* a crash between two items of a source leaves it half stored, and the retry
  takes any evidence for all of it (`temporal/activities.py:1256`);
  `NoSourceSkipped` is about sources, not items;
* a call of `recover()` that raises ends `main.run` but not the process: the jobs
  it had not enqueued wait until an operator restarts it (`job_queue.py:49-56`);
  `NoJobLost` exempts such a start, and the invariant shows that the next one
  takes these jobs up;
* a message that arrives during a graceful stop is acknowledged and dropped
  (`event_queue.py:38`); `Answered` exempts it, and no other;
* a failure behind `complete_job` - in the registration for monitoring, which has
  one attempt, in a stage message or in the delivery - fails the workflow of a
  job that has completed (`temporal/workflows.py:74-83`), and `mark_job_failed`
  has one attempt as well (`temporal/workflows.py:104-109`), so that a job may end
  neither failed nor told; `OutcomesAgree` and `Settled` name both;
* an attempt of `fetch_sources` that ends between saving a table and making its
  dataset leaves a table that nobody profiles, if the retry gets something else
  from the source (`temporal/activities.py:891-895`); `TablesProfiled` names it
  (`cut`). It concerns workflows from before the split only;
* `monitor reconcile --repair` takes any error of a description for a missing
  schedule (`cli.py:497-508`) and marks the row as not registered, next to a
  schedule that may be there and run; `RepairAgrees` says so;
* an attempt of `start_monitoring_run` that was lost leaves a second running row,
  and `/monitor cancel-current`, which goes by the newest running row
  (`event_handler.py:799`), may ask for a cycle that is over; `RunRowsEnd` exempts
  such rows (`strays`);
* a watched *file* is stored before it is parsed (`temporal/activities.py:1047`),
  so an attempt that dies in between leaves a file the retry calls unchanged;
  `ChangeKept` is about watched pages;
* the schedule is paused by pause-on-failure before the row is
  (`temporal/monitoring.py:349`); `StoresAgree` compares existence and times, and
  `RepairAgrees` the pause after a repair.

### Fairness

All of it is weak fairness, of one group of steps per thread or process.

* Local backend: every worker and handler thread, and the main thread, keeps
  taking its next step (they block on a queue or on SQLite only, with a busy
  timeout); a process that died is started again
  (`Restart=on-failure` in `src/deploy/feishu-agent-bot.service`). A stranded
  process does not die by itself, and nobody is forced to end it. Commands, faults,
  crashes and SIGTERM are never forced.
* Intake: the event threads run, and the messenger delivers each message once at
  least, unless the gateway is stopping - what the queue refuses it delivers
  later. Nobody has to post, and neither repeated deliveries, failing calls nor
  the start after a stop are forced.
* Activities (`temporal_progress`, `report`, `delivery`, `publication`): an
  activity on a thread goes on; the service delivers tasks
  and notices lost ones; the workflow reacts; a started command goes on; a
  gateway that is down is started. Timeouts, losses and refusals are not forced.

## 4. Proofs

### The local backend

`LocalExecutionProofs` proves, for any number of jobs, workers, handlers and
stages, any queue size and any number of crashes and failing calls:

* `TypeCorrect`: `Spec => []TypeOK`;
* `JobsInOnePlace`: `Spec => []OnePlace`;
* `LocalImplementsContract`: `Spec => Implements`, i.e. every behaviour of the
  local backend is one of `JobContract`;
* `Invariance`, the inductive invariant below all three;
* `NoJobForgotten`: `Spec => []NoJobLost`.

The assumptions are those of `LocalExecution` on its constants
(`SizesAssumption`): the bounds are naturals, the queue has room for at least
one id, and the set of worker threads is finite. Nothing is assumed of the
handlers. TLC evaluates them in every run.

`OnePlace` alone is not inductive. `TakeJob` removes an id from the queue, and
that the id is nowhere else needs the cross conditions for queue, worker,
handler and recovery list together; recovery needs that before `Start` all of
them are empty; and `CreateJob` needs that an id nobody has created is held
nowhere. `Implements` needs more: a worker that is about to announce an outcome
must hold a row with that outcome, and a handler that is about to reject must
hold a row that is still queued. The invariant states these as named conjuncts,
and the proof has one lemma per group of actions. The refinement then maps each
action to a move of one job, to an announcement, to `Requeue`, or to a stutter.

`NoJobForgotten` needs two more facts (`LInv`): a cancellation that was asked for
shows in the status (`CancelMarked`), so that no job with one is taken for a
waiting one; and the stop markers of the queue are put after all jobs, when no
handler can submit any more (`MarkersLast`), so that a worker that takes a marker
has seen the last job go. `Lost` grows only in the steps in which a repository
call fails, by the one job the thread holds (`OneLost`) - but for the calls of
`recover()`, after which whatever was still on its list is lost to this process.
From then on the phase is `stranded`, where the property claims nothing, until
the end of the process empties the threads and `Start` lists these jobs
again. The attempt to prove an
earlier form of the property - that a process which exited left no job in its
queue at all - failed for a reason: with one worker that died of an unhandled
error, three queued jobs stay behind a graceful stop, and the next start
recovers them from the table. The property now says so.

What the contract is worth to its user follows: `ContractTruthful` (no message
sent is ever contradicted by the row) and `ContractFinality` (an ended job keeps
its outcome) are proved of whatever implements it, and `LocalTruthful` of the
local backend, through the refinement.

### The intake of messages

`MessageIntakeProofs` proves, for any number of workers, any queue size, any
options, any dialogues and any number of repeated deliveries, failing calls,
graceful stops and crashes:

* `TypeCorrect`: `Spec => []TypeOK`, the bound of the queue included (`TypeOK`
  is in no run: the proof covers it);
* `MessagesMakeOneJob`: `Spec => []OneJobPerMessage`;
* `OneDraftActive`: `Spec => []OneActiveDraft`;
* `MonitoringRecorded`: `Spec => []MonitoringNotForgotten`;
* `EndedDraftsUntouched`: `Spec => EndedDraftsStay`;
* `JobsAsConfirmed`: `Spec => []AsConfirmed`.

The assumptions are that dialogues are sequences of known kinds of messages, that
an option is none of the other kinds, and that the size of the queue is a natural
number. The inductive invariant is
`IInv`. `OneJobPerMessage` is not inductive by itself: that the message a worker
makes a job of has none yet follows from `ClaimedOnce`: a worker past the claim
holds a claimed message, two such workers hold different ones, every job is of a
claimed message, and a worker that has not made its job finds none of its
message. That a claim is kept through a crash, when the worker forgets its
message, is what makes this true of redeliveries. `WishesKept` says the same of
the monitoring wish: it is recorded before the worker gets to the submission.
`EndedDraftsStay` speaks of a worker that read a draft, and holds because the
`UPDATE` repeats the condition the worker has read. The proof types each action
(`...Typed`), then keeps the claims (`...Claims`) and the drafts (`...Drafts`).

`AsConfirmed` speaks of a user who waits for each answer (`~hasty`), and its
invariant (`CInv`) says what waiting is worth: one worker at most is busy, with
the last message posted (`OneAtWork`, from `AnsweredInTurn` and the claims). For
it the draft it read is still what it read (`WorkFits`), and every active draft
has the options accepted since its topic (`DraftsConfirmed`). `Confirmed` is the
same sentence for a draft, for a worker and for a job, and each step hands it
from one to the next. Repeated deliveries and crashes do not disturb it: a
message is answered at most once.

### Research on Temporal

`TemporalResearchProofs` proves, for any number of handlers, activity threads,
stages, crashes, refused calls and attempts that are lost or given up:

* `TypeCorrect`: `Spec => []TypeOK`;
* `CancellationsAsked`: `Spec => []CancelReachesWorkflow`;
* `OutcomesStand`: `Spec => FirstOutcomeStands`;
* `RecoveryEnds`: `Spec => RecoveryHeals`.

The assumptions are that `Stages` is a natural number and that the words that say
where an activity waits name no thread (`ThreadsAssumption`). That a cancellation
the owner was told of has reached the workflow is inductive only with
`BoundFirst`: the job is bound to its workflow before its owner can know it and
before any activity that could end it is handed out, so that a `/cancel` that
finds the job also finds whom to ask; and with `AskedFirst`: a `/cancel` past the
call to Temporal has asked. `Listened` says which attempt the service still
waits for. `FirstOutcomeStands` then needs the types alone: each `UPDATE` but
that of `cancel_job` repeats its condition.

### From the plan to the tables

`ResearchWorkflowProofs` covers the two halves of a research workflow up to its
report. It extends `ResearchSources` and `ReportPipeline`, which share the task
and the threads of `ActivityTasks` (hence the names `ReportInit`, `ReportSpec`
and so on in the latter). Of the first half it proves, for any
sources and what they serve, any files, facts, threads and retry policies, and
any number of attempts that fail, are given up, end between two transactions or
lose heartbeats:

* `TypeCorrect`: `Spec => []Typed`;
* `NothingRepeated`: `Spec => []Unrepeated`;
* `SourcesExamined`: `Spec => []NoSourceSkipped`;
* `AllTablesProfiled`: `Spec => []TablesProfiled`.

The assumptions are that there is a source and an attempt (`SourcesAssumption`),
that what a source serves is a page whose text can be compared, a file there is,
or nothing (`ServesAssumption`, `FilesAssumption`), and that thread names are no
places. None of the three properties is inductive, and they hold under different
conditions, which `IInv` keeps apart. Always: the types, and that whatever has
evidence was put to the model (`EvidenceExamined`); in a workflow that runs
`fetch_sources`, a table has a dataset, or its attempt is about to make it
(`Between`), or was cut short before it could (`MadeOrMaking`).
While no attempt outlived its activity (`~stray`): who works, works on the
awaited activity (`InStep`); the sources up to the checkpoint and those an
attempt has behind it were examined (`Progress`) - a heartbeat names the source
that is done, so a retry that goes on after any earlier heartbeat skips nothing;
and what has no dataset yet, and was not cut short, is left for the attempt that
makes or profiles them (`Datasets`, `Made`). While none was given up
(`timeouts = 0`): one thread at a time is at work (`Alone`), and it knows the content of every fetched source from before
its first comparison until it ends (`Compared` in `Distinct`); that is what
makes the check in one transaction and the write in a later one safe. That the
sources are gone through in the order of their ids needs a least element of each
nonempty set (`LeastSource`), which the library's theorem on `<` over `Nat` gives.

### The report pipeline

Of the second half `ResearchWorkflowProofs` proves, for any claims, activity
threads and rounds of validation, and any number of attempts that fail, are lost
or time out:

* `OutcomesHold`: `ReportSpec => []OutcomesAgree`;
* `PublishedVersionStays`: `ReportSpec => PublishedStays`.

The assumptions are that there is a round of validation and that a thread is named
like none of the places a task may be at. Neither property is inductive, and both
are about executions in which no attempt runs on after its timeout; the inductive invariant `ReportInv` keeps
that condition (`timeouts = 0 => Calm`). `Alone`: an attempt that runs is the
one the workflow awaits. `PublishedLate`: a report is published only at the end
of a validation, which has one attempt, or after it - so neither `Refuse` nor
`Reset`, nor a second validation, ever meets a published row. `CompletedLate`
counts: `complete_job` finds the published version, so each of its three
attempts that brings no result was lost, and attempts left and losses together
are three at least. What fails after that failed in one of the calls behind it
(`Closing`), and the error that `mark_job_failed` quotes says which; these two are
the exceptions of `OutcomesAgree` (`Excused`). `Ending` is the activities from
`complete` on: no report is made or withdrawn in them.
The steps of an attempt come in two shapes, one that goes on (`ReportGoesOn`)
and one that ends (`ReportEnds`), and the lemma of each action names the shape
and its condition.

### The delivery of a report

`ReportDeliveryProofs` proves, for any plans, output options, threads and retry
policies, and any number of attempts that raise, die or are given up:

* `TypeCorrect`: `Spec => []TypeOK`;
* `FilesShowOneAnalysis`: `Spec => []OneAnalysis`;
* `ItemsSentOnce`: `Spec => []SentOnce`;
* `NotifiedMeansTold`: `Spec => []ToldTheTruth`.

The assumptions describe the constants: a plan has a set of tools and one of
skills, the options are non-empty sets of deliverable kinds, every activity has
one attempt at least (`AttemptsAssumption`), and the words that say where an
activity waits name no thread. Nothing is made of the results before all of them
are there (`Analysed`, `FinalResults`), so everything is made of the same; an
attempt given up writes what its retry writes (`FilesGood`, `Rendered`).
`SentOnce` rests on `OneSender`: whoever sends an item has put its delivery into
`sending`, and nobody else takes it from there; and on `SentKnown`, which relates
the row of the delivery to what the chat has. `ToldTheTruth` needs `Dealing` -
a delivery has dealt with all but what it still has to do - and `CutCounted`:
a delivery row left in `sending` has a sender or was cut short, and so was a file
that is still written by an attempt nobody listens to - unless the workflow has
already failed next to it and only `fail` is awaited. `DeliveredLast` says that in
a delivery and after it nothing is awaited that writes a file.

### The publication of updates

`ReportPublicationProofs` proves, for any number of chat handlers, worker
threads, events and monitoring cycles, and any number of crashes and attempts
that fail:

* `TypeCorrect`: `Spec => []TypeOK`;
* `OneVersionPerPatch`: `Spec => []PublishedOnce`;
* `ProcessesBuildOnTheirOwn`: `Spec => []LinearPerProcess`;
* `AppliedEventsReported`: `Spec => AppliedIsReported`;
* `PublicationImplementsHistory`: `Spec => KeepsHistory`, i.e. every behaviour of
  gateway and worker on these tables is one of `ReportHistory`;
* `ReportOnlyGrows`: what follows from that for the owner - the report carries
  the published updates and no others, each once, and goes on carrying them.
  It is proved of `ReportHistory` alone (`HistoryStep`) and carried over.

No run checks `PublishedOnce` of its own: it is what `KeepsHistory` says of the
versions, and the inductive invariant below contains it.

The only assumptions are that `MaxCycles` is a natural number and that thread
names are no places. Versions and patches point at each other (`Linked`), and a
patch waits for the owner or for the worker, as its kind says (`ByKind`). Who has
passed the check of a patch may publish it, and if the report has moved on, the
*other* process has moved it (`Cleared`): that is what the lock of one process
gives, and why `LinearHistory` is violated. The refinement needs the converse as
well: until it has published it the patch stays publishable. For the gateway that
is again the lock, since `/update reject` takes it too (`GatewayFree`); for the
worker, that a patch is of one kind and the commands take up the other (`ByKind`).
The step lemmas then say what each group of actions does to the mapped state:
`RowReported` (the activity that stores a patch is a `Suggest`, a `Renew` or, if
its row is as it was, a stutter), `StatusReported` (validation and rejection are
`Withdraw` or a stutter), `StoreReported` (the last of the three steps of a
publication is `Publish`), `FirstReported` (a new cycle is `Begin`), and
`NothingReported` that all else leaves versions and patches alone.
`AppliedIsReported` needs that the
patches are made cycle by cycle and that one of this cycle has all events that
are still open (`CyclesInOrder`), and that an automatic update has its patch
until its validation has begun (`DecisionBacked`). The proof of `Alone` - an
attempt that runs is awaited - showed that the workflow could go on from an
activity that was still being retried; `Advance` now waits for its end, as the
code does.

### Monitoring schedules

`MonitorScheduleProofs` proves, for any number of event workers, any legal
schedules asked for, any failure threshold, and any number of commands, cycles,
lost answers, failing calls and crashes:

* `StoresStayEqual`: `Spec => []StoresAgree`;
* `RepairsAgree`: `Spec => RepairAgrees`;
* `FailuresCounted`: `Spec => []CountsFailures`;
* `RunRowsClosed`: `Spec => []RunRowsEnd`;
* `ConversionsLoseNothing`: `WordsMean(Words)`, for every clock, day, zone and
  interval; `ConversionsAlwaysAgree`: `Spec => []ConversionsAgree`, its instance
  for the requests a run compares.

The assumptions: the requests are legal ones (`RequestsAssumption`), the event
workers are finitely many and are neither the command line nor the worker
(`HandlersAssumption`), and what is compared are requests (`ComparedAssumption`).
The invariant has a part for the cycle and a part for the
two stores. `Counting`: a failed cycle is counted again only for an attempt whose
answer was lost, the attempts that are still about to count included - the one
awaited (`CycleReserve`) and one that was given up and runs on (`LateReserve`,
`LateFits`); `CycleFits`: from its start on a cycle has a row, and when it is
past its completion the row is not running any more. For the stores `rivals`
remembers whether commands overlapped, and `Watched` says that it does: whoever
is told apart is alone at work (`Company`, which takes a fact about the
cardinality of sets with less than two members). `Pairs` says that row and
schedule are both there or neither, but between the two steps of a create and of
a delete, and that whoever is about to write the row as alive has a schedule.
It is kept by each call while no delete overlaps another command; `Times`, the
same for the times the schedule runs at, needs that no commands overlap at all.
So does `Pauses`: a row that is paused has a paused schedule, unless a resume is
between its two steps. The other direction is false by design, because
`pause_on_failure` pauses a schedule whose row stays active. `Pauses` is kept
because a pause, of a command or of the cycle that reaches the threshold, goes to
the schedule first and to the row second, and because in between nobody resumes
it (`PausedRests`): the only one who could would be another command, or, for the
cycle and for the late attempt of one, a command at all (`PausesAlone`). A pause
that fails and is swallowed counts as a fault, and nothing is claimed after it.
`Repairing` says what `reconcile` has seen of a monitor is still so, the absence
of a schedule included; what it could not describe it marks. That a
schedule whose summary is the row's words needs no repair is a fact about the
conversions: the words of the row mean what was asked for, and the summary of a
schedule means the schedule (`MeaningKept`).

### The monitoring cycle and its decision

`DeltaAnalysisProofs` proves, for any sources, page values, report, limits,
threads and number of cycles, and any number of failed attempts, crashes, lost
heartbeats and attempts given up:

* `ChangesKept`: `Spec => []ChangeKept`;
* `CandidatesExamined`: `Spec => []AllExamined`;
* `EvidenceReported`: `Spec => []AllReported`;
* `BudgetRespected`: `Spec => []BudgetKept`;
* `UpdatesAloneWhenHarmless`: `~Overlap` implies `Spec => AloneOnlyIfHarmless`;
* `AutoPatchIsHarmless`: if the decider says `auto_patch` on detected events,
  the mode is "safe" and every change is harmless (`MayUpdateAlone`);
* `DetectionIsStable`: what detection says of a piece of evidence does not
  change when evidence is appended.

The assumptions describe the constants: some first sources are known and the
first of all is watched, `"none"` is no page value, the limits are natural
numbers, and thread names are no places. The first four properties are about
cycles without an attempt that was given up and runs on, as they say themselves
(`timeouts = 0`); the last needs that such an attempt ends with its activity.

The invariant `IInv` has two halves. `Firm` holds always: types, which cycle an
activity belongs to (`InCycle`), that an attempt busy with an item has one, that
evidence is of snapshots the model was asked about, that events are what
detection makes of the evidence there is (kept by `DetectionIsStable`), and that
who decides has read the events that are open (`InStep`). `Calm` is what holds
while no attempt was given up: one thread at a time is at work on the awaited
activity (`Alone`), the stage of the run says which (`StageOf`), and for each
loop what its position means. `Rechecking`: the hash an item was listed with is
still that of its row, and an attempt about to write a row has its snapshot.
`Extracting`, `Reporting`: whatever is not left to do is done, and whatever the
heartbeat is past is done, so that a retry that begins there skips nothing; that
needs that places in the order are distinct (`PlacesDiffer`), and for the
extraction that an attempt which finds a checkpoint of the second loop does not
fetch (`FetchingOn`). `Counting`: between the counted call and the call itself
there is one call less than counted, in the row and in the attempt alike.

The decision is argued backwards through its three parts: an automatic update has no
doubtful impact; each event has an impact, and one for each claim it touches;
hence no event is of low or conflicting confidence and none overturns a core
claim; an event not marked as conflicting has no newer or equally old
observation with another value (`NoConflictUndisputed`), which needs that the
last earlier observation of a fact is unique.

### Only model-checked

All liveness (`FairSpec => ...`) and `ENABLED`, which are out of the prover's
reach. Every invariant and every action property the passing runs check is also
a theorem.

## 5. Not modelled

* Texts, prompts, layout, progress and display columns.
* What models, search engines and web servers answer: open choices where a
  caller is modelled. Model clients, planner and prompts are therefore out.
* The content checks of the two validators and of URLs and file bytes.
* Document parsers, dataset profiling and the numeric tools of the analysis:
  sequential, without state; their callers are modelled with an open result.
* Files of a report are modelled by what they are made of, not by what they look
  like; the renderers' layout is out.
* The `workflow.patched` branches that keep old histories replayable, but for
  `split-source-assets-v1`.
* `profile_datasets`, `run_incremental_analysis`, the artifacts and the
  notification of a monitoring cycle: they use the activities of the first
  research with the same tables.
* `add_report_revision` and the approval path of draft revisions, which nothing
  in the program creates any more.
* Read-only commands (`/report`, `/evidence`, `/sources`, `/help`, displays of
  the command line), settings and logging; the deployment check, an operator's
  script that drives a live service.

## 6. What is next

1. An abstract schedule - deleted, paused or active at given times - which row
   and service implement when no call fails and commands do not overlap.
2. Two overlapping cycles' worth of `DeltaAnalysis` with `Overlap = TRUE`; its
   composition with `ReportPublication` instead of an open decision there.
