# A TLA+ model of dsh-projects

This directory specifies and checks the core logic of the `dsh-dashboard`
plugin host: the services under `src/src/` that take a goal, plan it, run its
tasks with agents and bring the result home. Paths below are relative to
`src/src/` unless they say otherwise.

## 1. Inventory

The host is one Node process. Its services share one storage domain
(`@deepseek-ai/dsh-storage-domain`): tables of records with `get`, `put`,
`entries()` (a snapshot) and `update(key, fn)`, which applies `fn` atomically
in the table's write chain. Everything else interleaves at `await`. The
services call each other directly, through hooks passed to constructors, and
through events on the host context (`dsh-projects/run/completed`, ...).

| component | state it keeps | operations | talks to | hard because | correct when |
|---|---|---|---|---|---|
| **Project Tasks** `tasks/` | task records; the tick flags; one abort controller per task in flight | tick (timer, after a settlement, after a retry), begin, execute, settle, operator retry, retire, reconcile after restart, completion pipeline, budget checks | Runs (transitions, events), Plans (activation hook), workers, Git worktrees, Approvals | every step is cut by awaits; ticks work on a snapshot; results come late; restarts orphan sessions | a task starts only after its dependencies, within the limit, with one writer; its attempts are bounded; it always settles; a run ends only with its tasks done |
| **Task workers** `tasks/*-adapter.ts` | live sessions, controllers per session | start, stop | the agent runtime | stop may precede the session | one result per start |
| **Git integration** `tasks/integration.ts`, `git-workspace.ts` | worktrees, branches, the integration branch | provision, commit, merge in order, verify, remove | git | crash between merge, event and phase move | never merges twice, succeeds only verified |
| **Project Runs** `runs/` | run records (phase, suspendedFrom, active plan, budget, usage), the event log | create, transition, append event, set budget | emits phase events | any client may ask for any phase at any time | the phase machine; a suspended run returns to where it was |
| **Run Plans** `plans/` | plan versions per run | create (version = max + 1), transition, supersede | Runs (`activePlanId`), hooks to Coordinator coupling and Tasks | plan, run and tasks change in separate writes | at most one active plan, and it is the run's |
| **Approvals and budgets** `approvals/` | approval requests, warned budgets | request (idempotent while pending), resolve, expire, check | Tasks (merge gate), Plans (plan gate) | the answer races the thing it approves | nothing gated happens unapproved |
| **Coordinator** `coordinator/` | coordinations in flight | coordinate, settle, couple plan status to run phase | Runs, Plans, agent session | duplicate starts, stale sessions | one coordination per run |
| **Triggers** `triggers/` | triggers, fire records | fire, poll, pause | Runs (`createRun`) | the dedupe record is written after the run | one run per external event |
| **Project Memory** `memory/` | memory entries | create, supersede, update, distill | Runs (completed) | two writes per supersession | one active entry per subject |
| **Artifacts** `artifacts/` | artifact records | collect, report | Runs, Tasks | idempotence over restarts | one artifact per source |
| **Issue orchestrator** `orchestrator/` | running records, retry queue, manual stops | poll, reconcile, dispatch, retry, stop | task sources, workspaces, agent runner | tracker, agent and operator move the issue independently | an issue runs once at a time, within capacity |
| **Agent runner** `agent/` | one session per issue | run, continue, abort | agent runtime | turn limits, aborts | reports one outcome |
| **Runtime coordinators** `runtime/` | orchestrator per project, selection, timeline | start, switch, refresh, dispose | orchestrator, catalog | switching while polling | no two orchestrators on one project |
| **Catalog** `catalog/` | projects, workflows | register, select, remove | storage, workflow store | file and record may disagree | the selection exists |
| **Workspaces** `workspace/` | directories, worktrees | create, run hooks, remove | file system, git | path escapes, partial removal | stays below its root |
| **Workflow** `workflow/` | last valid definition | reload, subscribe | file system | invalid edits | keeps the last valid one |
| **Local source** `local/` | task files | create, update, delete, claim | file system | concurrent writers | revisions never lost |
| **Remote sources** `linear/ github/ jira/ asana/ gitlab/` | none | fetch page by page, look up, update, the agent's tool | HTTP | the tracker changes between two pages; a closed issue keeps its labels | a list is whole, a closed issue is over, a tool stays in its project |
| **Browser** `client/` | the snapshots, lists and editors it shows | poll, load on demand, save, delete | RPC | replies in any order, edits over a moving board | it shows what it says it shows; no edit over something unseen |
| **RPC** `rpc/`, **composition** `index.ts` | - / start order, hooks | one endpoint per operation | all services | requests during startup, hooks that throw | requests wait for startup |

`PROJECT.json` lists under `hazards` what of this is hard to test, at its line.

## 2. Plan

Each module takes its parameters as CONSTANTS with named assumptions and
avoids recursive operators where it is to be proved about. In order of weight,
all of it written:

1. `RunLifecycle`, `TaskService`: the phase machine and the scheduler.
2. `RunCompletion`, which implements `CompletionPromise`.
3. `RunPlans`, `PlanContent`: plan versions, coordinations, coupling, gate.
4. `IssueOrchestrator` on `WorkspaceManager`: the desk of one project.
5. `ProjectCatalog`, `RuntimeCoordinator`, `ProjectScan`: the projects.
6. `Triggers`, `RunBudgets`, `ProjectMemory`, `ProjectArtifacts`: read, await
   and write on small tables.
7. `LocalTaskSource`, `DashboardClient`, `MemoryView`, `Overview`: the browser.
8. `RemoteSources`, `AgentSessions`, `IssueTimeline`, `WorkflowStore`,
   `MemoryRetrieval`: the sides of the desk and the pure parts.

Proofs, written: the safety of all of it that is about behaviours, and the pure
parts of plans, scans and retrieval (section 5). Left: the overview, and liveness. One module that joins
`RunPlans` with the worktrees of `RunCompletion` would show the adoption of a
worktree by a new plan version, which no module has.

## 3. Modules

One action is one piece of an async function between two awaits, everywhere: it
starts after an await, reads and writes, and ends at the next. What the code
reads before an await and uses after it is a variable. The header comment of
each module names its abstractions; what follows says how its state and
actions correspond to the code.

### RunLifecycle

The phase machine of `runs/state-machine.ts` as a set of edges: `CanMove` is
`allowedTransitions`, `OriginAfter` the `suspendedFrom` field of the next
record. It is constant-level; the services use it as a guard.

### TaskService

| variables | code |
|---|---|
| `phase`, `suspendedFrom` | run records |
| `status`, `attempt` | task records |
| `tickPc`, `snap`, `todo`, `cur`, `decided`, `picked`, `beginning` | the locals of `tickOnce`; `tickPc = "idle"` is `ticking = false` |
| `inFlight` | the `inFlight` map: 0, or the attempt whose controller is on record |
| `exec[t][a]`, `stopped` | each call of `executeTask` and its session |
| `retirePc`, `retiring`, `retireAgent` | the locals of `retireTasksForRun` |
| `recPc`, `recTodo`, `recAgent`, `recTask` | the locals of `reconcileAfterRestart` |
| `restarts` | bound on restarts |

| actions | code |
|---|---|
| `TickStart` .. `TickEnd` | `tick`, `tickOnce`, `deadDagCheck`, `beginExecution`, `provisionTaskWorktree`, `detectAllSucceeded` |
| `SessionCreated`, `WorkerReturns`, `WorkerRejects`, `CommitFails`, `Settle`, `CloseExecution` | `executeTask`, `settleResult`, `commitTaskWork`, the local adapter |
| `RunTransition`, `TaskRetry` | the RPCs of the operator |
| `RetireStart`, `RetireStop`, `RetireCancel`, `RetireEnd` | `retireTasksForRun` on the `run/completed` event |
| `Restart` | the process ends (crash or `stop()`) and `start()` runs again |
| `ReconcileRun`, `ReconcileStale`, `ReconcileEnd` | `reconcileAfterRestart`, `isStaleTask`, `reconcileStaleTask` |

Abstractions. Session ids and abort controllers are represented by the number
of the attempt that made them. Tasks of one plan share `createdAt` and are
ordered by random ids, so the order of every loop over tasks is
nondeterministic. The retry backoff is a nondeterministic delay: a ready task
with attempts behind it may or may not be due. Events and their wording are
left out except that an append may throw (`Faults`). `tickQueued` and the
timer are one thing: another `TickStart` may follow. A restart is possible
between any two steps. A retry that the operator asks for is checked and
applied in one step, because the code re-checks inside its update.

Outside the module: budgets (`RunBudgets`), plan replacement (`RunPlans`), the
completion pipeline after the first transition (`RunCompletion`), unavailable
workers, projects missing from the catalog.
`OperatorTargets` excludes `CompletionPhase`: an operator who moves a run into
completion by hand is not covered by `CompletionSound`.

### RunCompletion

One run of a Git project with an approval service, from the first worktree to
its end. The tasks are shown only as Git sees them, and `TaskService` says when
they run. An action is the piece between two awaits of the completion pipeline
(`driveCompletionPipeline`, `runIntegration`, `finalizeRun`), one Git command
of the strategy (`tasks/integration.ts`), or one step of a task worktree.

| variables | code |
|---|---|
| `phase`, `suspendedFrom`, `head` | the run record; `head` compares `integrationHead` with the branch: the tip as it is, or an older one |
| `approval` | status of the newest merge approval |
| `completed` | the event log holds `run.integration.completed` |
| `work`, `based` | task records: how far an attempt is, and whether `baseCommit` is recorded |
| `branches`, `trees` | Git: task branches and worktrees |
| `intBranch`, `intTree`, `merged` | Git: the integration branch, its worktree, what it contains |
| `made`, `leaving` | locals of `provisionTaskWorktree` and of the removal after a success |
| `pc`, `seen`, `todo`, `clean` | the tick: where it is, the phase it read, the tasks left in its loop, `cleanupOk` |
| `restarts` | bound on restarts |

| actions | code |
|---|---|
| `ProvisionTask`, `RecordIdentity`, `AttemptFails`, `TaskSucceeds`, `RemoveTaskTree` | `provisionWorktree`, `provisionTaskWorktree`, `settleResult`, `commitTaskWork`, `removeSucceededTaskWorktree` |
| `VisitExecuting`, `Gate` | `detectAllSucceeded`, `requestApproval` |
| `VisitIntegrating`, `Discard` .. `IntegrationFails`, `Attach`, `Announce`, `Advance` | the integrating leg, `MergeInOrderStrategy.run`, `runIntegration` |
| `VisitValidating`, `Verify`, `Accept`, `ReportFailure`, `Block` | `verifyRunIntegration`, `verifyIntegration` |
| `VisitFinalizing` .. `Conclude` | `finalizeRun`, `removeBranch` |
| `TickThrows` | an event append that throws out of `tickOnce` |
| `OperatorTransition`, `ResolveApproval`, `Restart` | the RPCs, `reconcileAll` |

Abstractions. A commit and the move to `succeeded` are one step, and so is the
retirement of the tasks of a canceled run (`TaskService` has them apart).
Attempts are unbounded. `Empty` fixes which tasks leave a branch without
commits; the repository's own `HEAD` does not move, nobody else touches the
branches, and the storage does not refuse a write (`Faults` covers Git, the
strategy and event appends). Git is modelled by what the code relies on: a
checked-out branch cannot be deleted, an absent one counts as deleted, a merge
either includes the branch or changes nothing. `OperatorMoves` may not push a
run past a step of the pipeline (into `finalizing` or `succeeded`, or from
`executing` into integration): the assumption `RunCompletionAssumptions` says
so and the theorems need it. Projects without Git skip the pipeline
(`executing`, `finalizing`, `succeeded`) and are not in this module.

### CompletionPromise

What completing promises, in three variables and three actions: merging and
re-merging while every task branch exists, dropping branches when all is merged
and never re-merging after that, and one decision, `succeeded` only when all is
merged. `RunCompletion!Promise` is the refinement mapping: the outcome is the
phase once terminal, a task is dropped when it has succeeded and its branch is
gone, and a branch-less integration counts as nothing merged.

### RunPlans, PlanContent

One run, its plan versions, the coordinations that submit them, and the hooks
an activation fires. A version with tasks has one task, which stands for each of
them: the tick readies and begins it, its execution settles it, the operator
retries it, also while a retirement works through the list it read before.

| variables | code |
|---|---|
| `phase`, `suspendedFrom`, `activePlan` | the run record |
| `plans` | the plan records, the tasks made of each, the approval object whose payload names it |
| `frame` | the awaits of each caller: an operator's request, or the settlement of a session; `todo` is the list of a retirement, with the status each task had when it was read |
| `session`, `submitted`, `inFlight` | the coordination, what its session submitted, the in-flight map |
| `sweeping` | the list of `retireTasksForRun` after a cancellation |
| `torn`, `chosen`, `spared` | history: what overlapped or was cut short; plans the operator activated; plans whose task a retirement passed over |

| actions | code |
|---|---|
| requests | `createPlan`, `transitionPlan`, `runTransition`, `planApprove`, `coordinate`, a restart |
| call steps | the queued updates: insert, move, `applyRunCoupling` (retire the prior plan, point the run), `firePlanApproval`, `PlanRunCoupler.handle`, `handlePlanStatus` with retirement and materialization |
| `RetireTask`, `SweepTask` | one turn of the loop of `retireTasksForRun`: the compare-and-set cancels the task, or finds it moved or failed and passes over it |
| `TaskReady`, `TaskBegins`, `TaskSettles`, `OperatorRetries` | `tickOnce`, `settleResult`, `taskRetry`, as far as they move the task |
| coordinator steps, `SubmitPlan`, `SessionEnds` | `coordinator/coordinator-service.ts` |

The tick looked at the run awaits ago and at the plan never, so neither guards
the moves of a task here. A storage update that throws is not told apart from a
restart at that place.

`PlanContent` has the checks a submitted plan passes (`createPlan`), the record
that is put (`PlanRecord`), what the table takes (`Storable`, `plans/spec.ts`)
and the check of the graph when the plan is made into tasks
(`validateTaskGraph`), pure functions compared for every small submission.

### IssueOrchestrator, WorkspaceManager

The desk of one project: it polls a task source, launches an agent per eligible
issue, aborts agents whose issue moved, retries, removes workspaces.

| variables | code |
|---|---|
| `tracker`, `over` | the state of each issue at the provider; history: done since its last launch |
| `run` | the running record: where the execution stands, the state it has seen, aborted, outcome |
| `retries`, `due`, `manualStops`, `terminalStops` | the maps of the orchestrator; a retry whose timer fired |
| `pollPc`, `dispatchEnabled`, `fetched`, `visited`, `removing` | the locals of `poll`, `reconcile`, `dispatch` |
| `timer`, `joined` | the timer is armed; a refresh waits for an overview poll to end |
| `active`, `paused`, `disposed` | `setActive`, `setPaused`, `stop` |
| `mutation`, `shown` | a Dashboard mutation under way; whether the board was read after it |
| `dir` | the directory of an issue: absent, fresh (`after_create` has to run), cut (initialization cut off), ready |
| `events` | bound on disturbances |

| actions | code |
|---|---|
| `TimerFires`, `ClientRefreshes`, `RefreshOverview`, `PollRead`, `PollFails`, `PollReconcile`, `PollRemoved` | `poll` and what it awaits |
| `RetryDue`, `ExecEnsure` .. `AfterRunFinal` | the retry timer; one execution: workspace, hooks, agent, look at the issue, settlement |
| `TrackerMoves`, `MutateTask`, `StopIssue`, `SetPaused`, `SetActive`, `Dispose`, `Restart` | people, the provider, the host |

The agent is one step with an outcome here; `AgentSessions` has its turns.

### Triggers

| variables | code |
|---|---|
| `triggers`, `fires`, `runs` | the trigger records, the dedupe records, the runs created |
| `now`, `board` | the clock in minutes, the ready state of the tracker's issue |
| `frame` | the awaits of polls, pushed events and the operator's edit |
| `wanted`, `torn` | history: the operator's last word; what overlapped or was cut short |

A poll walks the table with an await per adapter; its timer does not wait for
the previous poll. A fire is three writes (`createRun`, the dedupe record, the
trigger). `DueSlot` and `NextRun` are the schedule adapter's slot and announced
time. The service accepts any cron text that is not blank; a minute that no hour
has stands for those the adapter knows no slot of (`HasSlots`): they announce no
run and never fire.

### ProjectCatalog, RuntimeCoordinator, ProjectScan

`ProjectCatalog` has the tables and the serialized mutations of the catalog
(`projects`, `repos`, `root`, `setting`, `claims`, `writer`). `root` is the
discovery root over the directories: a root that is removed and added anew has
another id, and a token in `claims` carries the id of the root that was scanned.
`RuntimeCoordinator` extends it with the contexts of the projects: `pool` and
`contexts` are the objects ever made and the one in the table, `current` the
selection, `switch` and `queue` the serialized switches, `job`, `force`,
`timer` the global refresh, `reg` and `loading` what registrations and loads
hold over their awaits, `life` the host. `ProjectScan` is the bounded walk of a
discovery root over a disk with repositories and links that changes once on the
way, and the directory a token stands for when it is used.

### LocalTaskSource, DashboardClient, Overview

`LocalTaskSource` is the task file and its queue: a request reads, changes and
replaces the whole file. `DashboardClient` is the polling controller and the
editor of a browser over it (`open`, `view`, `calls`, `editor` ...), with the
poll of the host between them and an agent as the other writer; replies come in
any order, are lost, and the host crashes. As bounds, a browser has one read
and one save in flight. `Overview` has the columns of a board, the one board
made of all projects and the routes back from it as pure functions, checked for
every list of projects of an instance.

### ProjectMemory, ProjectArtifacts, MemoryView, MemoryRetrieval

`ProjectMemory` has the entries and the awaited writes of creating, superseding,
editing, archiving and restoring; `ProjectArtifacts` the end of one run, its
distillation and its final report, with the writes of the phase, the event, the
report and its event apart, each of which may fail; `MemoryView` the memory tab over both, whose
loads overlap. `MemoryRetrieval` has listing, ranking, packing and candidate
validation as pure functions, checked for every table, request and candidate of
an instance.

### RemoteSources, AgentSessions, RunBudgets, IssueTimeline, WorkflowStore

* `RemoteSources`: the five trackers' clients. `entries` change between the
  pages of `walk`; `IssueOf` is what each client makes of an entry; `tool` is
  the agent's tool.
* `AgentSessions`: one session of any of the five callers (local worker, team
  worker, coordinator, distillation, issue) from creation over turns, tool
  calls, aborts and failures to the answer.
* `RunBudgets`: `rec` is the budget part of a run record, `frame` the awaits of
  settlements, the tick and a raise, `events` the numbered event log.
* `IssueTimeline`: `ring` is the archive, `view` the runtime view, `reader` a
  client that takes page after page.
* `WorkflowStore`: `file`, the definition `current`, `reading` (overlapping
  reads), `watcher`, `debounce`; the documents carry what the parser decides by.

### MC modules

`MCTaskService`, `MCRunCompletion`, `MCIssueOrchestrator`, `MCRunPlans`,
`MCTriggers`, `MCRuntimeCoordinator`, `MCDashboardClient`, `MCMemoryView` and
`MCWorkflowStore` hold the instances. Four of them explore independent
specifications side by side: the initial state picks one of them by a variable
`part`, and from then on only its steps are taken. This multiplies nothing and
lets small modules share a run: `OrchestratorSides` (the desk and
`RemoteSources`, `AgentSessions`, `IssueTimeline`, `WorkflowStore`; its instance
is `MCOrchestratorSources`),
`MCCompletionBudgets` (`RunCompletion` and `RunBudgets`), `ProjectSides` (the
contexts and `ProjectScan`; its instance is `MCRuntimeCoordinator`).
`DashboardClient` (with `Overview`; its instance is `MCDashboardClient`),
`MemoryView` (with `MemoryRetrieval`; its instance is `MCMemoryView`) and `Planning` (its instance is `MCRunPlans`) put pure checks over constant sets beside a
specification.

## 4. Runs

| run | instance | question |
|---|---|---|
| `task_join` | 1 run, 4 tasks (t3 joins t1 and t2, t4 is free), 2 slots, 1 attempt, 2 by operator retry, pause; t1 and t2 symmetric | types, the limit, dependency safety, sound completion |
| `task_restart` | 1 run, chain of 2, Git, faults, 2 attempts, 3 by operator retry, pause, cancel, 1 restart | attempts, single writer and abortability (`ExecutionInv`), own settlement, terminal tasks |
| `task_progress` | 1 run, chain of 2, 2 attempts, cancel, 1 restart, fair | no orphan after reconciliation, everything settles, the run is decided, a canceled run comes to rest |
| `completion_faults` | 2 tasks with commits, `RpcMoves`, faults, 1 restart | nothing is lost, a completed integration is final, the promise is kept |
| `completion_progress` | 2 tasks, one empty, `RpcMoves`, 1 restart, fair; beside it `RunBudgets` with 2 settlements, 2 budgets, 2 results, 1 tick of 1 minute, 2 requests | no run stays in integrating or validating, a finalizing run ends once no task worktree is left; the budget |
| `orchestrator_poll` | 2 issues, 2 slots of which `todo` may use 1, worktrees, any 2 disturbances; beside it `RemoteSources` (5 entries, 3 at first, pages of 2, 3 changes), `AgentSessions` (5 kinds, 2 turns), `IssueTimeline` (capacity 2, 3 events, 2 times, pages of 1 and 2), `WorkflowStore` (2 overlapping reads, 2 writes, some 1300 documents) | the desk; its sides |
| `orchestrator_progress` | 1 issue, any 3 disturbances, fair | work is picked up, what is finished is removed |
| `plans_replan` | 1 operator, 2 coordinations, mode `plan`, 3 versions, 2 replans, 3 requests, tasks on the move, fair; small plan contents | tables, open tasks, gate, versions, coordinations; decisions stand; a coordination decides |
| `trigger_fire` | a schedule, a tracker, a webhook, 1 poll, 1 push, an hour of 3 minutes, 4 minutes, 3 runs, any 2 disturbances, fair | once per event, settings stand, nobody starves |
| `projects` | 2 directories, 2 ids, 2 registrations at once, any 3 requests or faults, fair; beside it 129 disks, depths 0 to 2, at most 5 directories and 2 candidates, 1 change of the disk | the tables, one active runtime, the refresh reaches everybody; scans and tokens |
| `client` | 1 browser, 2 mutations, 1 fault, a clock of 2 values, fair; some shapes of projects for `Overview` | own and others' edits, the saved is shown, the view catches up; the global board |
| `records` | 2 projects, 3 writers, 2 loads, any 2 changes or failing writes, 1 entry before, a crash, fair; 7 entries for `MemoryRetrieval` | supersession, report, the tab; ranking and packing |

Each run ends within minutes, the largest with about a million distinct states.

Bounds. *Tasks*: two attempts give every path of a settlement (retry, then
final), a third only the operator; `SessionBound` is never below the attempts
the budgets allow, and above them in `task_restart`, so that the attempt budget
could fail. One restart meets every step of the tick, of an execution and of a
retirement; a second differs only in that it meets the reconciliation, which
keeps nothing. A join is the least in which a task waits for two; two slots and
a third free task are the least in which the limit binds (section 5 proves it
for any number). *Completion*: two tasks are the least with an order of
merging, a conflict on the second and a half-finished deletion of branches; an
empty one is skipped by the merge and still verified. *Desk*: two issues and a
limit of a state below the capacity are the least that compete; two
disturbances meet in every pair of a stop, a move, a fault and a restart.
*Plans*: three versions are a superseded, an active and a drafted one; two
coordinations are the least that race. *Triggers*: with one poll and one push a
delivery may overlap another one and an edit; the clock passes a whole hour, so
every form of schedule has a slot and a slot after it. *Projects*: two
directories are the least to switch between, two registrations the least that
race; a scan of depth 2 with five directories meets each of its limits.
*Client, records*: two changes give a change under a read and a change under a
change; a clock that may stand still gives two stamps that are equal. The
counters are bounded by the guards named `Max...`.

`ExecutionInv` and `OwnAttemptSettles` are checked with one run only: with two
runs and a restart they do not hold (section 6), and the theorems name that
condition. `RunningHasExecution` is checked without faults (section 6).

Deadlock is checked in `task_*` and `client`, where a tick, a timer or a user
can always act. The other runs say `CHECK_DEADLOCK FALSE` because their system
really stops: a run that is over is visited by no tick, an answered call or a
walk that has ended has no next step, a host that was stopped does nothing, and
users, trackers and the clock stop at their bounds.

Fairness.

* `TaskService`: the timer starts a tick every five seconds and every piece of
  a tick is followed by the next (`WF(Tick)`); the backoff of a retry elapses
  while ticks go on, so picking something is not avoided for ever (`SF` of
  `TickPick` with picks); a session ends, by itself or aborted, and its
  settlement goes on (`WF` per execution); the loops of retirement and
  reconciliation go on. Nothing obliges the operator, no restart has to happen.
* `RunCompletion`: `WF(TickStep)` for the same timer, `WF` for the steps of a
  task after its worktree is made; failing again or answering an approval is
  not obliged. Its liveness run has no faults: a Git command that fails for ever
  keeps a run in `finalizing`, as `finalizeRun` says it should.
* `RunPlans`: something that waits goes on (one `WF` for all of it): a pending
  await resolves, or a session ends, whose turns are bounded.
* `IssueOrchestrator`: timers fire, the source answers or fails, hooks have a
  timeout, the turns of a session end.
* `Triggers`: the poll timer fires, pending awaits resolve.
* `RuntimeCoordinator`: timers fire, pending awaits resolve; users ask nothing.
* `DashboardClient`: intervals and the poll timer fire, the queue of the source
  goes on, the host answers and replies arrive. `SF(SaveRefreshes)`: who waits
  for `refreshing` resumes before the next timer can start another poll.
* `MemoryView`: `WF` of `CompletedAppended` and of `Answered` per generation: a
  pending append or write is answered. It may be answered with a failure at any
  time (`CompletedLost`, `ReportFails`, `FailureLost`), within the bound on
  changes.

## 5. Proofs

All theorems are about every value of the constants that the ASSUMEs of the
modules allow, and all are machine-checked to the last leaf. A property that a
theorem states is also checked by a run, on an instance.

| module | theorems |
|---|---|
| `TaskService_proofs` | `TypeCorrect`, `DependencySafetyHolds`, `TerminalTaskStaysHolds`, `CompletionSoundHolds`, `ConcurrencyLimitHolds`, `ExecutionInvHolds`, `OwnAttemptSettlesHolds`, `RunningHasExecutionHolds` |
| `RunCompletion_proofs` | `TypeCorrect`, `WorkKeptHolds`, `SucceededIsIntegratedHolds`, `HeadIsTipHolds`, `MergedOnceHolds`, `PromiseKeptHolds`, `BudgetsInvHolds` |
| `RunPlans_proofs` | `PlanIInvHolds`, `PlansInvHolds`, `PlanningInvHolds`, `DecisionsStandHolds` |
| `IssueOrchestrator_proofs` | `DeskInvHolds`, `DeskStepsHold`, `SessionsInvHolds`, `SidesInvHolds` |
| `RuntimeCoordinator_proofs` | `ContextsInvHolds`, `ProjectsInvHolds`, `CandidatesUnderRootHolds` |
| `DashboardClient_proofs` | `ClientInvHolds`, `BoardInvHolds`, `WritesKeepOthersHolds` |
| `Triggers_proofs` | `TypeCorrect`, `FiringsInvHolds`, `QuietWhenDisabledHolds` |
| `MemoryView_proofs` | `RecordsInvHolds`, `NotesInvHolds`, `ChangesAreInformedHolds` |

### TaskService_proofs

For all runs, finite sets of tasks, dependency graphs, limits and bounds allowed
by `TaskServiceAssumptions` (the graph stays within a run, limits are positive,
the completion phase is none the operator asks for):

* `TypeCorrect`: `TypeOK` is inductive; one lemma per group of actions.
* `TerminalTaskStaysHolds`: from `NextStatusStep`, which says of every step
  what it may do to a task: nothing, or one edge of the machine; `ready` from
  `pending` or `blocked` only on a computed verdict, `running` only by
  `TickBegin`. All compare-and-sets reduce to one lemma, `CasStatusStep`.
* `DependencySafetyHolds`: `DependencySafety` is not inductive, since verdicts
  are computed and applied in different steps. `DependencyInv` adds that a
  pending verdict "ready" is still true, which holds because succeeded is
  final.
* `CompletionSoundHolds`: `CompletionInv` adds that the verdict of
  `detectAllSucceeded` is still true when it is applied.
* `ConcurrencyLimitHolds`: `ConcurrencyInv` reserves a slot for each pick not
  yet begun: running plus picked tasks of the visited run are within the limit.

### TaskService_proofs: the executions

The attempts of a task and their executions. Two facts of the code bound the
theorems, and both are hypotheses on behaviours, not on constants.
`[]OneRunToReconcile` (a restart finds at most one live run): with two, a tick
that reconciliation starts begins a task which reconciliation then takes for
stale, and a task has two sessions. `~Faults` for `RunningHasExecution`: when
the append of `task.started` fails, a running task stays without an execution.
Section 6 has both. The runs satisfy them with one run, and all other faults
and restarts are in.

`AttemptInv` is inductive: an execution that can still settle belongs to the
attempt on record (`OwnAttempt`), the controller on record is the one of the
live execution (`OnRecord`), attempts stay within the budgets (`AttemptsLeft`),
what a tick has picked has no execution (`PicksIdle`), verdicts and boot are
fresh (`DecisionsFresh`, `BootFirst`), and what reconciliation holds for stale
still is (`StaleHeld`). `ServedInv` adds that who runs is served.

### RunCompletion_proofs

For all finite sets of tasks, empty ones, operator moves, faults and restarts
allowed by `RunCompletionAssumptions`, `PipelineInv` is inductive and gives
everything `completion_faults` checks. Its parts, one lemma each:

* `GateInv`: behind the gate (and in a suspension from there, and in the phase
  a tick remembers) every task has succeeded. `SucceededIsIntegrated` needs it
  because a verification only asks for the tasks that have succeeded.
* `PlaceInv`: which phase the tick has read at each program counter, and that
  while the run is finalizing the tick is idle or finalizing itself. A stale
  tick could otherwise discard the branch of a finalizing run.
* `MergeInv`: a task branch is missing only for a tick that is finalizing, and
  then the integration branch contains everything. `WorkKept` follows.
* `HeadInv`: a completed integration is past its rebuilding, so the recorded
  head stays the tip (`HeadIsTip`) and no step touches the branch again
  (`MergedOnce`).

`PromiseKeptHolds` is the refinement: the initial states map, and each step of
`RunCompletion` is, under the mapping, `Integrate`, `Drop`, `Decide` or a
stutter; `PipelineInv` supplies the guards of the abstract actions.

### RunCompletion_proofs: the budget

`BudgetIInv` for any number of settlements, any amounts and budgets: a check
under way that has seen no warning is alone or marked as overlapped (`Warnings`),
a run over its limit has a check that will still pause it (`OverAnswered`), an
event number that is queued is above every number it was computed from
(`Numbering`), and the usage is what was spent, since it is only added to inside
an update (`UsageCounted`).

### RunPlans_proofs

For any callers, mode, replan budget, number of requests and of versions allowed
by `PlanAssumptions`. `PlansInv` is the part of `PlanningInv` about behaviours;
`ContentInv`, the rest, is below. `PlansInv` is not inductive: it says
what holds between calls, and a call has up to seven awaits. `PlanIInv` adds:

* `FrameHolds`: what a call holds across each await (its plan is stored, the one
  it replaces is another, a put has a number that fits), with `InPlaces`,
  `RoomLeft` and `NumbersInOrder`: a queued put finds the place it counted.
* `SessionsFollow`, `OneStarts`: where a coordination stands is told by its
  frame, and one that starts is alone unless another start overlapped it.
* `GatedMoves`: in a mode that gates plans, an activation under way is the
  operator's and is on record before the run is pointed at the plan.
* `OneActing`, `TasksFollow`: if nothing overlapped, one call changes the active
  plan; until it has pointed the run, the active plans are its own and the one
  it replaces; and a task of another version is open only while it has still to
  be visited by that call's retirement, or if its version is in `spared`. A
  retirement spares a version only when the compare-and-set found its task moved
  or failed (`RetireTaskStep`); the moves of tasks open none that is not open
  (`TasksMove`).
* `LooksHold`: a coordination about to start planning finds the run created, and
  a queued coupling does not find the run standing where it moves it. Each move
  of the run is then an edge from an active phase, which is `DecisionsStand`.

`ContentInv` (`PlanContent`, for all submissions and all graphs) says that a plan
that passes the checks of `createPlan` can be made into tasks and is taken by the
table exactly if none of its assumptions is blank, and that the check of a graph
refuses exactly the graphs with tasks that would wait for ever. The check goes in rounds and takes off the tasks whose needs are
done. In an acyclic graph each round with tasks left takes one, so the rounds end
with none; and if none is left, the first round that took a task of a given set
took one that needs nothing of that set. The rounds are a recursive function;
that it is defined is proved by minimal counterexample (`WFMin`).

### IssueOrchestrator_proofs

`DeskIInv` adds to `DeskInv` that who waits for a retry has no agent
(`RetriesRest`), that a directory whose hook has still to run belongs to the
execution that runs it (`FreshGuarded`), that what a poll, an abort or an
execution holds for finished was finished since its last launch
(`FinishedIsOver`), that a mutation waiting for the board is shown by a poll
that read after it (`MutationRead`), and that a disposed desk rests. The dispatch of a
poll is a recursive function over the order of the issues; that it is defined
and that every launch of it is within capacity is proved by minimal
counterexample (`WFMin`), which needs no parameterised induction.

### IssueOrchestrator_proofs: the sides

`SidesInvHolds` proves `SidesInv` of `SideBySide`: whichever part the initial
state picks, its own invariant holds. `SidesIInv` joins the desk's invariant
with those of four modules:

* `RemoteIInv`: the walk of a poll over the pages of a host that changes between
  two of them has passed, or will still meet, each entry that was there
  throughout and has not moved (`NothingMissed`). Where an entry stands is the
  number of entries before it; `RanksFollow` says that such a rank and the
  cursor move together when entries are put in or taken out.
* `SessionIInv`: one turn at a time, a deadline armed exactly while something
  is waited for, no answer taken after the end.
* `TimelineIInv`: an event is captured once (`CapturedOnce`), the slots of the
  ring hold the last ones in order (`RingHolds`), and the pages one reader has
  seen are one history, read from a cursor that the ring may have passed
  (`ReaderHolds`).
* `WorkflowIInv`: a read that ends late tells what was in the file at its own
  time (`ReadsHold`), a change on disk has a reload to come (`ChangeIsNoticed`),
  the last good definition is kept (`LastGoodKept`). `ColumnsAreStates` is about
  the parser's order of the columns, for all documents.

### RuntimeCoordinator_proofs

For any callers, paths and bounds allowed by the constants' assumptions and
`CallerNames` (a caller is none of the names the modules use for nobody).
`ProjectsIInv` joins two invariants. `CatalogIInv`: one call mutates the catalog
at a time and writes what it read (`OneMutates`, `WriterHolds`), no clone is
left without a record or a call that holds it (`NoOrphans`), and a registered
path is a repository's root (`RepositoriesFound`, `Registered`). `RuntimeIInv`:
timers belong to the context on record (`TimerHolds`) and, unless two calls are
on record as overlapped, contexts, loads, disposals and the selection agree with
what each call under way has read (`ContextHolds`, `LoadsHold`, `DisposalHolds`,
`TargetHolds`, `SelectedHolds`).

`CandidatesUnderRootHolds` speaks of the moment when a project is put, some
awaits after the check of its root. `UnderRoot` is the invariant it needs: a
registration past the check holds the id of a root that is configured. No root
goes meanwhile, because removing one is a mutation and `OneMutates`; and a root
that comes has another id than those before it.

`ProjectsInvHolds` proves `ProjectsInv` of `SideBySide`: the contexts and, beside
them, the walk of a scan over any tree allowed by `ScanConstants` (the root is a
canonical path, and its own name is not looked at). `WalkHolds` says of a disk
that stays as it is: the directories in the queue lie apart and at most one level
from each other (`Apart`, `Levels`), everything found has been passed
(`FoundHolds`, `Passed`), and a project that should be found has been or lies
below one in the queue (`NoneForgotten`). That what is left out is never nearer
than what is kept follows from the levels, since the queue is taken from its head.

### DashboardClient_proofs

For any clients, columns and any set of numbers for the clock, under
`ClientNames`. `ClientIInv`: what a reply shows is a state of the board between
its request and its arrival (`RequestsHold`, by stamps that grow), edits reach
the file one by one and in the order in which they were queued (`InOrder`,
`OneMutation`), and an edit that is pending holds what it read (`SavesHold`,
`EverythingSeen`). `WritesKeepOthersHolds`: a write of one entry leaves the
bytes of every other as they are.

`BoardInvHolds` adds `OverviewInv`, for any lists of projects that
`OverviewConstants` allows: ids differ, the keys of issues and of runtime views
differ within a project, and every state name is in the alphabet. Sorting a
finite set by an order gives each element one place (`PlacesAre`, `SortedAre`),
so an issue has one place in the board of its project (`CellIs`, `PlacedOnce`),
and that place goes to one column of the board of all projects: a canonical one,
or the one of the first place with its state (`FirstsApart`, `OneColumn`). That
a finished issue is shown as finished holds because the three rules for finished
states stand before all others (`FinishedHolds`). The count of what needs
attention is a sum of cardinalities, compared by a bijection between the views
that wait and their global keys (`WaitingCounted`) and by the latest refresh of
a finite list (`StaleIs`).

### Triggers_proofs

Arithmetic of the slots first (division by the period), then types, then
`FiringInv`: two fires that would write the same record are known to have
overlapped (`FiresApart`, `FiresOnce`), a fire holds the trigger as it is or an
edit overlapped it (`FiresWanted`, `EditsWanted`), and the run a fire has put is
the one its records will name (`RunsRecorded`, `LastRecorded`, `RecordsSound`).
`NextRunIsNextSlot` is arithmetic alone.

### MemoryView_proofs

`RecordsInvHolds` proves `RecordsInv`, the part of `NotesInv` that is about
behaviours; `NotesInvHolds` adds `RetrievalInv`. `RecordsIInv`
joins the invariants of three modules. `MemoryIInv`: what a waiting call has
seen of an entry has since only become what is in the table (`Becomes`), every
entry that a supersession has written is marked, about to be marked, or cut.
`ArtifactIInv`: a generation that saw no report is alone, or recorded as
overlapped. `ViewIInv`: the rows shown, answered or still to be read cover the
last change made here (`Covers`), because a change cancels older loads. From the same
invariant, `ChangesAreInformedHolds`: every step that changes an entry changes
what its user saw.

`RetrievalInv` is proved for any finite set of entries with ids, ages and lines
in the naturals (`RetrievalConstants`), any requests, rooms and candidates. A
search is defined by places: an entry stands behind all that precede it.
`PriorOrders` says the comparison is an order, because it ends with the id, and
`PlacesAre` that the elements of an ordered finite set have the places 1 to n, so
what the limit cuts off is preceded by what is kept. A filter keeps the order of
what it takes (`KeptAre`), and a section of a packet is the longest beginning of
it that fits (`EmitAre`, with sums whose existence is shown by minimal
counterexample); `PacketBest` and `PacketFitting` combine the two. Accepting again
what was accepted rests on `DistinctStays`: tags that differ in case and have no
blanks are kept as they are.

### Only model-checked

* Liveness (`RunDecided`, `RunningSettles`, `CanceledRunRests`,
  `CompletionMoves`, `CleanFinalizingEnds`, `FinishedCleaned`,
  `WorkIsPickedUp`, `CoordinationDecides`, `ReadyIssueRuns`, `RefreshReaches`,
  `ViewCatchesUp`, `RunReported`): the prover has no rules for fairness and
  ENABLED.

## 6. Observations

What modelling the code showed. None of it is a run of its own: the properties
except these cases, by name (`torn`, `overlapped`, hypotheses), and say what
holds otherwise.

**Tasks and completion.**

* Retirement does not stop every worker of a canceled run, although its comment
  says so: a tick working on the snapshot of the run moves a task between the
  retirement's read and its compare-and-set. The task runs until its session
  ends.
* A tick that reconciliation itself starts may begin a task of another run,
  which reconciliation then takes for an orphan: two sessions work on one task.
* Only direct dependents of a failed task are blocked; a task further down
  stays pending and keeps the dead-DAG check from firing.
* When the append of `task.started` fails, the task stays running without an
  execution until the next restart.
* A restart between a task's success and the removal of its worktree leaves the
  worktree for good; Git refuses to delete its branch, finalization removes no
  task worktree, and the run never ends.
* A restart between the creation of a worktree and the recording of its
  identity loses the base commit; the merge then leaves the task out while the
  verification asks for it, so the run is blocked at every attempt.
* Comments in the Task and Approval services say that an approval moves the
  run; nothing is wired to do so, and the dashboard offers only to pause or
  cancel a run at the gate. The operator has to issue the transition by RPC.

**Budgets.** An exceeded runtime budget appends its event at every tick, even
of a paused run (the model keeps a set of warnings). A raise can be undone by a
check that began before it; a warning can be doubled or lost by overlapping
checks; two overlapping appends give two events one number; the phase guard of
`setRunBudget` is not checked again in its update.

**Plans and coordinations.** The tasks of a plan that was superseded directly
keep running, because `applyRunCoupling` has already cleared the run's
`activePlanId` when `handlePlanStatus` asks for it (task-service.ts:360-361 says
they are retired). When a new version is activated, the loop of `retireTasksForRun`
reads the tasks once and passes over (task-service.ts:1207) each that the tick,
a settlement or the operator has moved before its compare-and-set, and each that
has failed, of which there is no edge to `canceled`, although its comment says
"Retire every non-terminal task": such a task of the superseded version goes on
beside the new ones, can be retried, and counts for `detectAllSucceeded`.
`TasksOfActivePlan` excepts these by name (`spared`). A blank assumption of a
plan is copied as it is (plan-service.ts:266) and refused by the table
(plans/spec.ts:39): the put throws after all checks have passed. The session
tool and the RPC let it through; the form of the browser drops blank lines. The
approval hook has no `try`, although `index.ts:149` says
that the service guards it. Overlapping activations can leave two active plans;
overlapping creations give two plans one version and exceed the replan budget;
two requests before the in-flight entry is set start two coordinations, whose
`finally` blocks delete each other's entry. A run stays in `planning` when the
operator supersedes the draft of a live session. A pending plan approval is
reused for another version. Starting a plan may resume a paused run: of two
couplings queued toward the same phase, the second resumes a run that was
blocked after the first, so `DecisionsStand` leaves overlapping couplings out.

**Issue orchestrator.** `after_create` is not run "exactly once"
(`workspace/manager.ts:34`) when an abort meets `assertGitWorktree` or a crash
meets the hook: the directory is later used uninitialized. `after_run` may run
while a poll removes the workspace of a retry. An operator's stop during the
last `after_run` of an issue that goes on is ignored, and reconciliation paints
it as running again. An issue that was stopped by hand and is then finished
keeps its workspace.

**Triggers.** Overlapping deliveries, or a crash between the run and the dedupe
record, create two runs, although the comment promises one "across process
restarts" (trigger-service.ts:448). The last write of a fire reverts an edit
made during it, re-enables a trigger and even restores a deleted one. The poll
timer does not wait for the previous poll. When the period of a schedule
changes, its new slots may meet old records and not fire.

**Projects.** A registration that rebuilds the context of a project during a
switch to it leaves an active orchestrator that nothing refers to; after the
next switch there are two ("Only the selected graph polls and dispatches",
runtime/coordinator.ts:52). The same overlap can leave a selected project
without a live context or a leaked watcher. Registering a directory again
aborts its agents. A directory replaced by a link after it was queued is read
through the link and offered; its token is then refused. A deletion of an old
repository that fails (catalog.ts:363) leaves it in the table with no project
that refers to it, and the registration reports an error although its project
has been put.

**Browser and files.** After a late reply of `state` an older snapshot is shown
until the next read. A save whose reply is lost and that is repeated creates
two tasks. Deleting carries no stamp. Escape closes an editor whose save is
still under way, and the end of that save closes the editor that is open then.
In the global board a project is stale only when the most recently refreshed
one is; a running issue that left its board is counted but has no route. A
reload of a workflow overtaken by another leaves the older text in force until
the next change, and so does a change before the watcher is open. The kind of a
tracker keeps its case while its provider is looked up in lower case, so that
`GitHub` is accepted and then not found.

**Records.** The final report of a run is written before its distillation, so
what was learned is not in it until it is written again; overlapping
generations leave two. A run may end without a report: a generation that fails is
not tried again, only `run.report.failed` says so (artifact-service.ts:288,
asserted by tests/final-report.test.ts:302), and that append may fail too. When
the append of `run.completed` throws, nothing is emitted: the run has ended
without a report, a distillation or an event (run-service.ts:275).
`RunReported` asks for the report or the event that it failed, and excepts lost
events and restarts by name. A creation cut between its writes leaves two active
entries; a supersession replaces one of several overlapping entries; edits and
restorations are not compared with others. Distillation and report are not
resumed after a restart. The limit of an agent's packet holds for the pinned entries and for each kind,
not for the packet (retrieval.ts:137 says otherwise; `PacketFits` says no more
than what holds). The numbers beside the kinds leave archived entries out, also
while the list shows them (`CountsMatchList` is about the list without them).

**Sources and sessions.** A missing issue fails the whole lookup with GitHub,
GitLab and Asana and is left out with Linear and Jira. Pages that are numbered
may repeat an issue when one is created, or miss one when an entry before it
goes. Linear's agent tool is not restricted to the project. An abort while the
first prompt of an issue is rendered is not seen and the turn is prompted.
Stopping a local worker while its session is created does not cancel the
creation. An aborted team worker may answer with its success. A flush that
fails in a `finally` loses the report and the tokens.

### Not modelled

Rendering, locales and styles of the Dashboard; the text of prompts, reports,
titles and errors; parsing of YAML, configuration and requests; the expiry of
approvals; token sums of the desk; remotes and branches shown by the catalog;
the refusal of foreign worktrees and links by the Git integration; a directory
that cannot be watched. `PROJECT.json` says for every component what is left
out.
