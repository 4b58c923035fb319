----------------------------- MODULE TaskService -----------------------------
(***************************************************************************)
(* The Project Task service (src/src/tasks/task-service.ts): the scheduler *)
(* tick, the execution of one task by a worker, the settlement of its      *)
(* result, operator retry, retirement of a canceled run's tasks, and the   *)
(* reconciliation that follows a restart of the process.                   *)
(*                                                                         *)
(* The process is single threaded, so what interleaves are the pieces of   *)
(* its async functions between two awaits.  Each action below is one such  *)
(* piece: it starts after an await, reads and writes state, and ends at    *)
(* the next await.  A value the code reads before an await and uses after  *)
(* it is a variable here (snap, decided, picked, retiring, recAgent, the   *)
(* pc of an execution).  A storage update(key, fn) runs fn atomically.     *)
(*                                                                         *)
(* Tasks are those of each run's active plan, already materialized.  Plan  *)
(* replacement, the completion pipeline and budgets live elsewhere.        *)
(***************************************************************************)
EXTENDS RunLifecycle, Naturals, FiniteSets

CONSTANTS
  Runs,             \* the runs of the process
  Tasks,            \* the tasks of all runs
  RunOf,            \* RunOf[t]: the run a task belongs to
  Deps,             \* Deps[t]: the tasks t depends on
  Limit,            \* run.maxConcurrentAgents, as capped by the run's budget
  MaxAttempts,      \* task.maxAttempts
  RetryBudget,      \* run.budget.maxRetriesPerTask
  Git,              \* the project isolates each task in a Git worktree
  Faults,           \* appends may throw, worker.start may reject
  OperatorTargets,  \* phases the operator asks for through runTransition
  CompletionPhase,  \* where detectAllSucceeded sends a run
  MaxRestarts,      \* bound on the restarts of the process
  SessionBound,     \* bound on the executions of one task
  NoTask, NoRun

TaskStatuses ==
  {"pending", "ready", "running", "blocked", "succeeded", "failed", "canceled"}

\* ALLOWED_TASK_TRANSITIONS ("awaiting-review" has no edge in or out).
TaskEdges ==
  ({"pending"} \X {"ready", "blocked", "canceled"}) \cup
  ({"ready"} \X {"running", "canceled"}) \cup
  ({"running"} \X {"succeeded", "failed", "ready", "canceled"}) \cup
  ({"blocked"} \X {"ready", "canceled"}) \cup
  ({"failed"} \X {"ready"})

\* isTerminalTaskStatus: no edge leaves it.  A failed task is not terminal.
TerminalStatuses == {"succeeded", "canceled"}

AttemptBound == IF RetryBudget > MaxAttempts THEN RetryBudget ELSE MaxAttempts

\* The executions of one task, one per attempt; the attempt number also
\* stands for the session id and the abort controller of that execution.
Attempts == 1..SessionBound

\* Where an execution stands:
\*   starting     the task is running, its start event is being appended and
\*                its worktree provisioned
\*   provisioned  ready to be handed to the worker
\*   creating     worker.start is creating the session, which is not live yet
\*   working      the worker's session is alive
\*   commit       it reported success; the work is being committed
\*   retry        it failed with attempts left; running -> ready is queued
\*   final        it failed on its last attempt; running -> failed is queued
\*   closing      settled, the finally block has still to run
ExecPcs == {"none", "starting", "provisioned", "creating", "working", "commit",
            "retry", "final", "closing"}

TickPcs == {"idle", "runs", "deps", "blockRun", "pick", "begin", "complete"}

ASSUME TaskServiceAssumptions ==
  /\ RunOf \in [Tasks -> Runs]
  /\ Deps \in [Tasks -> SUBSET Tasks]
  /\ \A t \in Tasks : \A d \in Deps[t] : RunOf[d] = RunOf[t]
  /\ Limit \in Nat \ {0}
  /\ MaxAttempts \in Nat \ {0}
  /\ RetryBudget \in Nat
  /\ Git \in BOOLEAN
  /\ Faults \in BOOLEAN
  /\ OperatorTargets \subseteq Phases \ {CompletionPhase}
  /\ CompletionPhase \in {"integrating", "finalizing", "awaiting_approval"}
  /\ MaxRestarts \in Nat
  /\ SessionBound \in Nat
  /\ IsFiniteSet(Tasks)
  /\ NoTask \notin Tasks
  /\ NoRun \notin Runs

VARIABLES
  (* persisted *)
  phase, suspendedFrom,    \* the run records
  status, attempt,         \* the task records
  (* the tick *)
  tickPc,      \* where tickOnce stands; "idle" is the flag ticking = false
  snap,        \* the run phases read by tables.runs.entries()
  todo,        \* runs this tick has still to visit
  cur,         \* the run it is visiting
  decided,     \* the dependency transitions computed for it
  picked,      \* the ready tasks picked for it and not begun
  beginning,   \* the task whose beginExecution is being awaited
  (* executions *)
  inFlight,    \* inFlight[t]: the controller on record for t, 0 if none
  exec,        \* exec[t][a]: where the execution of attempt a of t stands
  stopped,     \* <<t, a>>: executions whose session was told to stop
  (* retirement of a canceled run *)
  retirePc, retiring, retireAgent,
  (* reconcileAfterRestart *)
  recPc, recTodo, recAgent, recTask,
  restarts

runVars == <<phase, suspendedFrom>>
taskVars == <<status, attempt>>
tickVars == <<tickPc, snap, todo, cur, decided, picked, beginning>>
execVars == <<inFlight, exec, stopped>>
retireVars == <<retirePc, retiring, retireAgent>>
recVars == <<recPc, recTodo, recAgent, recTask, restarts>>
vars == <<runVars, taskVars, tickVars, execVars, retireVars, recVars>>

-----------------------------------------------------------------------------
(* Helpers *)

TasksOf(r) == {t \in Tasks : RunOf[t] = r}

WithStatus(r, S) == {t \in TasksOf(r) : status[t] \in S}

\* Mutant of CasTransition: the write does not look at the current record.
CasTransitionBlind(t, expected, to) == status' = [status EXCEPT ![t] = to]

\* casTaskTransition: the update applies when the record still has the
\* status the caller read and the edge exists.
CasTransition(t, expected, to) ==
  IF status[t] = expected /\ <<expected, to>> \in TaskEdges
  THEN status' = [status EXCEPT ![t] = to]
  ELSE UNCHANGED status

\* runService.transitionRun: a move the machine refuses is an error the
\* callers log and drop.
TransitionRun(r, to) ==
  IF CanMove(phase[r], suspendedFrom[r], to)
  THEN /\ phase' = [phase EXCEPT ![r] = to]
       /\ suspendedFrom' = [suspendedFrom EXCEPT ![r] = OriginAfter(phase[r], to)]
  ELSE UNCHANGED runVars

\* Mutant of ReleaseInFlight: the entry is deleted whoever owns it.
ReleaseInFlightUnowned(t, a) == inFlight' = [inFlight EXCEPT ![t] = 0]

\* An ownership-checked inFlight.delete: only the controller of attempt a.
ReleaseInFlight(t, a) ==
  inFlight' = [inFlight EXCEPT ![t] = IF @ = a THEN 0 ELSE @]

AllSucceededDeps(t) == \A d \in Deps[t] : status[d] = "succeeded"
AnyFailedDep(t) == \E d \in Deps[t] : status[d] = "failed"

\* Mutant of DependencyTransition: a task need not wait for its dependencies,
\* only for none of them to have failed.
DependencyTransitionEager(t) ==
  IF status[t] = "pending" /\ AnyFailedDep(t) THEN "blocked"
  ELSE IF status[t] \in {"pending", "blocked"} /\ ~AnyFailedDep(t) THEN "ready"
  ELSE "none"

\* computeDependencyTransitions, for one task.
DependencyTransition(t) ==
  IF status[t] = "pending" /\ AnyFailedDep(t) THEN "blocked"
  ELSE IF status[t] \in {"pending", "blocked"} /\ AllSucceededDeps(t) THEN "ready"
  ELSE "none"

\* Mutant of DeadDag: a failed task counts as one that can still move.
DeadDagBlockedOnly(r) ==
  LET live == WithStatus(r, TaskStatuses \ TerminalStatuses)
  IN  live # {} /\ \A t \in live : status[t] = "blocked"

\* deadDagCheck: something is live, nothing can move, something failed.
DeadDag(r) ==
  LET live == WithStatus(r, TaskStatuses \ TerminalStatuses)
  IN  /\ live # {}
      /\ \A t \in live : status[t] \in {"blocked", "failed"}
      /\ WithStatus(r, {"failed"}) # {}

\* Mutant of FreeSlots: tasks already running take no slot.
FreeSlotsPerTick(r) == Limit

FreeSlots(r) ==
  LET running == Cardinality(WithStatus(r, {"running"}))
  IN  IF running < Limit THEN Limit - running ELSE 0

\* pickReadyTasks: ready tasks whose backoff has elapsed, at most as many as
\* there are free slots.  Tasks of one plan share createdAt and are ordered
\* by random ids, so any order is possible; a first attempt has no backoff,
\* a later one may or may not be due.
ReadyPicks(r) ==
  LET ready == WithStatus(r, {"ready"})
      fresh == {t \in ready : attempt[t] = 0}
  IN  {P \in SUBSET ready :
         /\ Cardinality(P) <= FreeSlots(r)
         /\ fresh \subseteq P \/ Cardinality(P) = FreeSlots(r)}

\* The part of settleResult that decides what a failure of t becomes.
FailureOutcome(t) == IF attempt[t] < MaxAttempts THEN "retry" ELSE "final"

AllSucceeded(r) ==
  TasksOf(r) # {} /\ \A t \in TasksOf(r) : status[t] = "succeeded"

NoExec == [a \in Attempts |-> "none"]

-----------------------------------------------------------------------------
(* Initial state: every run has just entered executing with its tasks      *)
(* materialized, and the process is up.                                    *)

Init ==
  /\ phase = [r \in Runs |-> "executing"]
  /\ suspendedFrom = [r \in Runs |-> NoPhase]
  /\ status = [t \in Tasks |-> "pending"]
  /\ attempt = [t \in Tasks |-> 0]
  /\ tickPc = "idle"
  /\ snap = phase
  /\ todo = {}
  /\ cur = NoRun
  /\ decided = [t \in Tasks |-> "none"]
  /\ picked = {}
  /\ beginning = NoTask
  /\ inFlight = [t \in Tasks |-> 0]
  /\ exec = [t \in Tasks |-> NoExec]
  /\ stopped = {}
  /\ retirePc = [r \in Runs |-> "none"]
  /\ retiring = [t \in Tasks |-> "none"]
  /\ retireAgent = [t \in Tasks |-> 0]
  /\ recPc = "idle"
  /\ recTodo = {}
  /\ recAgent = [t \in Tasks |-> 0]
  /\ recTask = NoTask
  /\ restarts = 0

-----------------------------------------------------------------------------
(* The tick.  The ticking flag keeps one tickOnce at a time; a call that   *)
(* finds it set leaves tickQueued, so a queued tick, the timer and a       *)
(* direct call are all the next TickStart.                                 *)

TickStart ==
  /\ tickPc = "idle" /\ recPc # "boot"
  /\ tickPc' = "runs"
  /\ snap' = phase
  /\ todo' = {r \in Runs : phase[r] \notin TerminalPhases}
  /\ UNCHANGED <<cur, decided, picked, beginning>>
  /\ UNCHANGED <<runVars, taskVars, execVars, retireVars, recVars>>

\* Visit one run of the snapshot: compute its dependency transitions.
TickRun(r) ==
  /\ tickPc = "runs" /\ r \in todo
  /\ cur' = r
  /\ todo' = todo \ {r}
  /\ decided' = [t \in Tasks |->
                   IF RunOf[t] = r THEN DependencyTransition(t) ELSE "none"]
  /\ tickPc' = "deps"
  /\ UNCHANGED <<snap, picked, beginning>>
  /\ UNCHANGED <<runVars, taskVars, execVars, retireVars, recVars>>

\* Apply one computed transition.  The expected status comes from a list
\* refreshed after each success, so only its legality can still fail.
TickDependency(t) ==
  /\ tickPc = "deps" /\ decided[t] # "none"
  /\ CasTransition(t, status[t], decided[t])
  /\ decided' = [decided EXCEPT ![t] = "none"]
  /\ UNCHANGED <<attempt, tickPc, snap, todo, cur, picked, beginning>>
  /\ UNCHANGED <<runVars, execVars, retireVars, recVars>>

\* All applied: a run the snapshot does not show executing is left alone
\* (its completion pipeline has a module of its own), the others get the
\* dead-DAG check.
TickDeadDagCheck ==
  /\ tickPc = "deps" /\ \A t \in Tasks : decided[t] = "none"
  /\ tickPc' = IF snap[cur] # "executing" THEN "runs"
               ELSE IF DeadDag(cur) THEN "blockRun" ELSE "pick"
  /\ UNCHANGED <<snap, todo, cur, decided, picked, beginning>>
  /\ UNCHANGED <<runVars, taskVars, execVars, retireVars, recVars>>

\* The verdict of the check is applied after an await.
TickBlockRun ==
  /\ tickPc = "blockRun"
  /\ TransitionRun(cur, "blocked")
  /\ tickPc' = "pick"
  /\ UNCHANGED <<snap, todo, cur, decided, picked, beginning>>
  /\ UNCHANGED <<taskVars, execVars, retireVars, recVars>>

TickPick ==
  /\ tickPc = "pick"
  /\ picked' \in ReadyPicks(cur)
  /\ tickPc' = "begin"
  /\ UNCHANGED <<snap, todo, cur, decided, beginning>>
  /\ UNCHANGED <<runVars, taskVars, execVars, retireVars, recVars>>

\* beginExecution up to its compare-and-set: the controller goes on record
\* first; a task that is no longer ready takes it off again.
TickBegin(t) ==
  /\ tickPc = "begin" /\ beginning = NoTask /\ t \in picked
  /\ picked' = picked \ {t}
  /\ attempt[t] < SessionBound
  /\ IF status[t] = "ready"
     THEN /\ status' = [status EXCEPT ![t] = "running"]
          /\ attempt' = [attempt EXCEPT ![t] = @ + 1]
          /\ inFlight' = [inFlight EXCEPT ![t] = attempt[t] + 1]
          /\ exec' = [exec EXCEPT ![t][attempt[t] + 1] = "starting"]
          /\ beginning' = t
     ELSE /\ inFlight' = [inFlight EXCEPT ![t] = 0]
          /\ UNCHANGED <<taskVars, exec, beginning>>
  /\ UNCHANGED <<tickPc, snap, todo, cur, decided, stopped>>
  /\ UNCHANGED <<runVars, retireVars, recVars>>

\* The start event cannot be appended: no dispatch, the task stays running.
TickStartEventFails(t) ==
  /\ Faults /\ beginning = t
  /\ \E a \in Attempts :
       /\ exec[t][a] = "starting"
       /\ exec' = [exec EXCEPT ![t][a] = "none"]
       /\ ReleaseInFlight(t, a)
  /\ beginning' = NoTask
  /\ UNCHANGED <<tickPc, snap, todo, cur, decided, picked, stopped>>
  /\ UNCHANGED <<runVars, taskVars, retireVars, recVars>>

\* The worktree cannot be provisioned: the attempt is settled as a failure,
\* unless the task has been moved meanwhile.
TickProvisionFails(t) ==
  /\ Git /\ beginning = t
  /\ \E a \in Attempts :
       /\ exec[t][a] = "starting"
       /\ exec' = [exec EXCEPT ![t][a] = "none"]
       /\ ReleaseInFlight(t, a)
  /\ CasTransition(t, "running",
                   IF FailureOutcome(t) = "retry" THEN "ready" ELSE "failed")
  /\ beginning' = NoTask
  /\ UNCHANGED <<attempt, tickPc, snap, todo, cur, decided, picked, stopped>>
  /\ UNCHANGED <<runVars, retireVars, recVars>>

\* The start is recorded and, in a Git project, the worktree identity is
\* attached by a second compare-and-set on the record's version; the version
\* is still the one of this start exactly when the task is still running
\* this attempt.  Without isolation nothing is checked again.
TickProvision(t) ==
  /\ beginning = t
  /\ \E a \in Attempts :
       /\ exec[t][a] = "starting"
       /\ IF Git => (status[t] = "running" /\ attempt[t] = a)
          THEN /\ exec' = [exec EXCEPT ![t][a] = "provisioned"]
               /\ UNCHANGED <<inFlight, beginning>>
          ELSE /\ exec' = [exec EXCEPT ![t][a] = "none"]
               /\ ReleaseInFlight(t, a)
               /\ beginning' = NoTask
  /\ UNCHANGED <<tickPc, snap, todo, cur, decided, picked, stopped>>
  /\ UNCHANGED <<runVars, taskVars, retireVars, recVars>>

\* executeTask up to the call of worker.start, with the controller that is on
\* record by then.  Nobody awaits it.
TickDispatch(t) ==
  /\ beginning = t
  /\ \E a \in Attempts :
       /\ exec[t][a] = "provisioned"
       /\ exec' = [exec EXCEPT ![t][a] = IF inFlight[t] = 0 THEN "none"
                                         ELSE "creating"]
  /\ beginning' = NoTask
  /\ UNCHANGED <<tickPc, snap, todo, cur, decided, picked, inFlight, stopped>>
  /\ UNCHANGED <<runVars, taskVars, retireVars, recVars>>

\* Mutant of TickDetect: a failed task does not keep the run from completing.
TickDetectSettled ==
  /\ tickPc = "begin" /\ picked = {} /\ beginning = NoTask
  /\ tickPc' = IF WithStatus(cur, {"succeeded", "failed"}) = TasksOf(cur)
               THEN "complete" ELSE "runs"
  /\ UNCHANGED <<snap, todo, cur, decided, picked, beginning>>
  /\ UNCHANGED <<runVars, taskVars, execVars, retireVars, recVars>>

\* All picks begun: detectAllSucceeded.
TickDetect ==
  /\ tickPc = "begin" /\ picked = {} /\ beginning = NoTask
  /\ tickPc' = IF AllSucceeded(cur) THEN "complete" ELSE "runs"
  /\ UNCHANGED <<snap, todo, cur, decided, picked, beginning>>
  /\ UNCHANGED <<runVars, taskVars, execVars, retireVars, recVars>>

TickComplete ==
  /\ tickPc = "complete"
  /\ TransitionRun(cur, CompletionPhase)
  /\ tickPc' = "runs"
  /\ UNCHANGED <<snap, todo, cur, decided, picked, beginning>>
  /\ UNCHANGED <<taskVars, execVars, retireVars, recVars>>

TickEnd ==
  /\ tickPc = "runs" /\ todo = {}
  /\ tickPc' = "idle"
  /\ UNCHANGED <<snap, todo, cur, decided, picked, beginning>>
  /\ UNCHANGED <<runVars, taskVars, execVars, retireVars, recVars>>

Tick ==
  \/ TickStart
  \/ \E r \in Runs : TickRun(r)
  \/ \E t \in Tasks : TickDependency(t)
  \/ TickDeadDagCheck
  \/ TickBlockRun
  \/ TickPick
  \/ \E t \in Tasks :
       \/ TickBegin(t)
       \/ TickStartEventFails(t)
       \/ TickProvisionFails(t)
       \/ TickProvision(t)
       \/ TickDispatch(t)
  \/ TickDetect
  \/ TickComplete
  \/ TickEnd

-----------------------------------------------------------------------------
(* The execution of attempt a of task t, outside the tick. *)

ExecStep(t, a, from, to) ==
  /\ exec[t][a] = from
  /\ exec' = [exec EXCEPT ![t][a] = to]

\* agents.create resolves: from now on a probe finds the session.
SessionCreated(t, a) ==
  /\ ExecStep(t, a, "creating", "working")
  /\ UNCHANGED <<inFlight, stopped>>
  /\ UNCHANGED <<runVars, taskVars, tickVars, retireVars, recVars>>

\* The worker resolves and settleResult reads the task: a result for a task
\* that is not running is dropped.  A session that was told to stop, or that
\* could not be created, reports a failure.
WorkerReturns(t, a, from, result) ==
  /\ result = "succeeded" => from = "working" /\ <<t, a>> \notin stopped
  /\ ExecStep(t, a, from,
              IF status[t] # "running" THEN "closing"
              ELSE IF result = "succeeded" THEN "commit" ELSE FailureOutcome(t))
  /\ UNCHANGED <<inFlight, stopped>>
  /\ UNCHANGED <<runVars, taskVars, tickVars, retireVars, recVars>>

\* worker.start rejects: a warning, no settlement.
WorkerRejects(t, a, from) ==
  /\ Faults
  /\ ExecStep(t, a, from, "closing")
  /\ UNCHANGED <<inFlight, stopped>>
  /\ UNCHANGED <<runVars, taskVars, tickVars, retireVars, recVars>>

\* commitTaskWork fails: the attempt is settled again, as a failure.
CommitFails(t, a) ==
  /\ Git
  /\ ExecStep(t, a, "commit",
              IF status[t] = "running" THEN FailureOutcome(t) ELSE "closing")
  /\ UNCHANGED <<inFlight, stopped>>
  /\ UNCHANGED <<runVars, taskVars, tickVars, retireVars, recVars>>

\* Mutant of Settle: results that come in after the run ended are dropped.
SettleLiveRuns(t, a) ==
  /\ \E from \in {"commit", "retry", "final"} : ExecStep(t, a, from, "closing")
  /\ IF phase[RunOf[t]] \in TerminalPhases THEN UNCHANGED status
     ELSE CasTransition(t, "running",
            CASE exec[t][a] = "commit" -> "succeeded"
              [] exec[t][a] = "retry" -> "ready"
              [] exec[t][a] = "final" -> "failed")
  /\ UNCHANGED <<attempt, inFlight, stopped>>
  /\ UNCHANGED <<runVars, tickVars, retireVars, recVars>>

\* The compare-and-set that ends settleResult; one that finds the task moved
\* throws, and executeTask drops the error.
Settle(t, a) ==
  /\ \/ /\ ExecStep(t, a, "commit", "closing")
        /\ CasTransition(t, "running", "succeeded")
     \/ /\ ExecStep(t, a, "retry", "closing")
        /\ CasTransition(t, "running", "ready")
     \/ /\ ExecStep(t, a, "final", "closing")
        /\ CasTransition(t, "running", "failed")
  /\ UNCHANGED <<attempt, inFlight, stopped>>
  /\ UNCHANGED <<runVars, tickVars, retireVars, recVars>>

\* The finally block of executeTask.
CloseExecution(t, a) ==
  /\ ExecStep(t, a, "closing", "none")
  /\ ReleaseInFlight(t, a)
  /\ UNCHANGED stopped
  /\ UNCHANGED <<runVars, taskVars, tickVars, retireVars, recVars>>

Execution(t, a) ==
  \/ SessionCreated(t, a)
  \/ \E from \in {"creating", "working"} :
       \/ \E result \in {"succeeded", "failed"} : WorkerReturns(t, a, from, result)
       \/ WorkerRejects(t, a, from)
  \/ CommitFails(t, a)
  \/ Settle(t, a)
  \/ CloseExecution(t, a)

-----------------------------------------------------------------------------
(* The operator.  Every RPC waits for startup, reconciliation included.    *)
(* The retirement of a canceled run hangs on the run/completed event, which *)
(* is emitted after an append that may throw.                              *)

RunTransition(r, to) ==
  /\ recPc = "idle"
  /\ to \in OperatorTargets
  /\ CanMove(phase[r], suspendedFrom[r], to)
  /\ TransitionRun(r, to)
  /\ IF to # "canceled" THEN UNCHANGED retirePc
     ELSE \E signal \in IF Faults THEN {"due", "lost"} ELSE {"due"} :
            retirePc' = [retirePc EXCEPT ![r] = signal]
  /\ UNCHANGED <<retiring, retireAgent>>
  /\ UNCHANGED <<taskVars, tickVars, execVars, recVars>>

\* Mutant of TaskRetry: off by one in the retry budget.
TaskRetryOneMore(t) ==
  /\ recPc = "idle"
  /\ status[t] = "failed"
  /\ attempt[t] <= RetryBudget
  /\ CasTransition(t, "failed", "ready")
  /\ UNCHANGED attempt
  /\ UNCHANGED <<runVars, tickVars, execVars, retireVars, recVars>>

TaskRetry(t) ==
  /\ recPc = "idle"
  /\ status[t] = "failed"
  /\ attempt[t] < RetryBudget
  /\ CasTransition(t, "failed", "ready")
  /\ UNCHANGED attempt
  /\ UNCHANGED <<runVars, tickVars, execVars, retireVars, recVars>>

-----------------------------------------------------------------------------
(* retireTasksForRun, started by the run/completed event of a cancellation. *)

\* Read the run's tasks; terminal ones are skipped.
RetireStart(r) ==
  /\ retirePc[r] = "due"
  /\ retirePc' = [retirePc EXCEPT ![r] = "loop"]
  /\ retiring' = [t \in Tasks |->
                    IF RunOf[t] = r /\ status[t] \notin TerminalStatuses
                    THEN status[t] ELSE retiring[t]]
  /\ retireAgent' = [t \in Tasks |->
                       IF RunOf[t] = r THEN attempt[t] ELSE retireAgent[t]]
  /\ UNCHANGED <<runVars, taskVars, tickVars, execVars, recVars>>

\* The loop handles one task at a time.
RetiresNext(t) ==
  /\ retirePc[RunOf[t]] = "loop"
  /\ \A u \in TasksOf(RunOf[t]) \ {t} : retiring[u] # "stopping"

\* A task read as running: stop its agent first.  The worker knows the
\* session only once worker.start has been called.
RetireStop(t) ==
  /\ RetiresNext(t) /\ retiring[t] = "running"
  /\ retiring' = [retiring EXCEPT ![t] = "stopping"]
  /\ stopped' = IF /\ retireAgent[t] \in Attempts
                   /\ exec[t][retireAgent[t]] \in {"creating", "working"}
                THEN stopped \cup {<<t, retireAgent[t]>>} ELSE stopped
  /\ UNCHANGED <<retirePc, retireAgent, inFlight, exec>>
  /\ UNCHANGED <<runVars, taskVars, tickVars, recVars>>

\* Cancel the task if it still has the status that was read.
RetireCancel(t) ==
  /\ RetiresNext(t) /\ retiring[t] \notin {"none", "running"}
  /\ CasTransition(t, IF retiring[t] = "stopping" THEN "running" ELSE retiring[t],
                   "canceled")
  /\ retiring' = [retiring EXCEPT ![t] = "none"]
  /\ UNCHANGED <<attempt, retirePc, retireAgent>>
  /\ UNCHANGED <<runVars, tickVars, execVars, recVars>>

RetireEnd(r) ==
  /\ retirePc[r] = "loop" /\ \A t \in TasksOf(r) : retiring[t] = "none"
  /\ retirePc' = [retirePc EXCEPT ![r] = "done"]
  /\ UNCHANGED <<retiring, retireAgent>>
  /\ UNCHANGED <<runVars, taskVars, tickVars, execVars, recVars>>

Retirement ==
  \/ \E r \in Runs : RetireStart(r) \/ RetireEnd(r)
  \/ \E t \in Tasks : RetireStop(t) \/ RetireCancel(t)

-----------------------------------------------------------------------------
(* Restart.  Everything but the records is lost; the service starts again, *)
(* arms the tick timer and calls reconcileAfterRestart.  Until that first  *)
(* awaits, at its first stale task, nothing else runs: recPc is "boot".    *)

\* Mutant of Restart: the tick may run before reconciliation has read a run.
RestartTickFirst ==
  /\ restarts < MaxRestarts
  /\ restarts' = restarts + 1
  /\ tickPc' = "idle" /\ snap' = phase /\ todo' = {} /\ cur' = NoRun
  /\ decided' = [t \in Tasks |-> "none"]
  /\ picked' = {} /\ beginning' = NoTask
  /\ inFlight' = [t \in Tasks |-> 0]
  /\ exec' = [t \in Tasks |-> NoExec]
  /\ stopped' = {}
  /\ retirePc' = [r \in Runs |-> IF retirePc[r] = "none" THEN "none" ELSE "lost"]
  /\ retiring' = [t \in Tasks |-> "none"]
  /\ retireAgent' = [t \in Tasks |-> 0]
  /\ recPc' = "runs"
  /\ recTodo' = {r \in Runs : phase[r] \notin TerminalPhases}
  /\ recAgent' = [t \in Tasks |-> 0]
  /\ recTask' = NoTask
  /\ UNCHANGED <<runVars, taskVars>>

Restart ==
  /\ restarts < MaxRestarts
  /\ restarts' = restarts + 1
  /\ tickPc' = "idle" /\ snap' = phase /\ todo' = {} /\ cur' = NoRun
  /\ decided' = [t \in Tasks |-> "none"]
  /\ picked' = {} /\ beginning' = NoTask
  /\ inFlight' = [t \in Tasks |-> 0]
  /\ exec' = [t \in Tasks |-> NoExec]
  /\ stopped' = {}
  /\ retirePc' = [r \in Runs |-> IF retirePc[r] = "none" THEN "none" ELSE "lost"]
  /\ retiring' = [t \in Tasks |-> "none"]
  /\ retireAgent' = [t \in Tasks |-> 0]
  /\ recPc' = "boot"
  /\ recTodo' = {r \in Runs : phase[r] \notin TerminalPhases}
  /\ recAgent' = [t \in Tasks |-> 0]
  /\ recTask' = NoTask
  /\ UNCHANGED <<runVars, taskVars>>

\* Mutant of SessionAlive: every recorded session id counts as alive.
SessionAliveById(t, a) == a \in Attempts

\* isStaleTask: the probe finds no live session under the id that was read.
SessionAlive(t, a) == a \in Attempts /\ exec[t][a] = "working"

\* Go through the candidates (each with the agent it was read with) up to the
\* first stale one, without an await; the order of the tasks is arbitrary, so
\* any part of the live ones may come before it.
ProbeUpToStale(candidates) ==
  LET held == {t \in Tasks : candidates[t] # 0}
      live == {t \in held : SessionAlive(t, candidates[t])}
  IN  IF held = live
      THEN recTask' = NoTask /\ recAgent' = [t \in Tasks |-> 0]
      ELSE /\ recTask' \in held \ live
           /\ \E passed \in SUBSET live :
                recAgent' = [t \in Tasks |-> IF t \in passed THEN 0 ELSE candidates[t]]

\* Read the tasks of the next run; the running ones are candidates.
ReconcileRun(r) ==
  /\ recPc \in {"boot", "runs"} /\ r \in recTodo
  /\ recTodo' = recTodo \ {r}
  /\ ProbeUpToStale([t \in Tasks |->
        IF RunOf[t] = r /\ status[t] = "running" THEN attempt[t] ELSE 0])
  /\ recPc' = IF recTask' = NoTask THEN recPc ELSE "tasks"
  /\ UNCHANGED restarts
  /\ UNCHANGED <<runVars, taskVars, tickVars, execVars, retireVars>>

\* reconcileStaleTask after its event: requeue, or fail the last attempt;
\* then on to the next stale task.  After the last one the code appends an
\* event and calls tick(), which is a TickStart.
ReconcileStale(t) ==
  /\ recTask = t
  /\ CasTransition(t, "running",
                   IF recAgent[t] < MaxAttempts THEN "ready" ELSE "failed")
  /\ ProbeUpToStale([recAgent EXCEPT ![t] = 0])
  /\ recPc' = IF recTask' = NoTask THEN "runs" ELSE "tasks"
  /\ UNCHANGED <<attempt, recTodo, restarts>>
  /\ UNCHANGED <<runVars, tickVars, execVars, retireVars>>

ReconcileEnd ==
  /\ recPc \in {"boot", "runs"} /\ recTodo = {}
  /\ recPc' = "idle"
  /\ UNCHANGED <<recTodo, recAgent, recTask, restarts>>
  /\ UNCHANGED <<runVars, taskVars, tickVars, execVars, retireVars>>

Reconcile ==
  \/ \E r \in Runs : ReconcileRun(r)
  \/ \E t \in Tasks : ReconcileStale(t)
  \/ ReconcileEnd

-----------------------------------------------------------------------------

Operator ==
  \/ \E r \in Runs, to \in Phases : RunTransition(r, to)
  \/ \E t \in Tasks : TaskRetry(t)

Next ==
  \/ Tick
  \/ \E t \in Tasks, a \in Attempts : Execution(t, a)
  \/ Operator
  \/ Retirement
  \/ Restart
  \/ Reconcile

Spec == Init /\ [][Next]_vars

(* Fairness: the timer keeps ticking, a session ends (or is aborted), the  *)
(* backoff of a retried task elapses, loops over storage go on.  Nothing   *)
(* obliges the operator, and a restart never has to happen.                *)

Fairness ==
  /\ WF_vars(Tick)
  /\ SF_vars(TickPick /\ picked' # {})
  /\ \A t \in Tasks, a \in Attempts : WF_vars(Execution(t, a))
  /\ WF_vars(Retirement)
  /\ WF_vars(Reconcile)

FairSpec == Spec /\ Fairness

-----------------------------------------------------------------------------
(* Type invariant *)

RunsTypeOK ==
  /\ phase \in [Runs -> Phases]
  /\ suspendedFrom \in [Runs -> ActivePhases \cup {NoPhase}]

TasksTypeOK ==
  /\ status \in [Tasks -> TaskStatuses]
  /\ attempt \in [Tasks -> Nat]

\* Away from "idle" and "runs" the tick is visiting a run.
TickTypeOK ==
  /\ tickPc \in TickPcs
  /\ snap \in [Runs -> Phases]
  /\ todo \subseteq Runs
  /\ cur \in Runs \cup {NoRun}
  /\ tickPc \notin {"idle", "runs"} => cur \in Runs
  /\ decided \in [Tasks -> {"none", "ready", "blocked"}]
  /\ picked \subseteq Tasks
  /\ beginning \in Tasks \cup {NoTask}

ExecutionsTypeOK ==
  /\ inFlight \in [Tasks -> Nat]
  /\ exec \in [Tasks -> [Attempts -> ExecPcs]]
  /\ stopped \subseteq Tasks \X Nat

RetirementTypeOK ==
  /\ retirePc \in [Runs -> {"none", "due", "loop", "done", "lost"}]
  /\ retiring \in [Tasks -> {"none", "stopping"} \cup TaskStatuses]
  /\ retireAgent \in [Tasks -> Nat]

ReconcileTypeOK ==
  /\ recPc \in {"idle", "boot", "runs", "tasks"}
  /\ recTodo \subseteq Runs
  /\ recAgent \in [Tasks -> Nat]
  /\ recTask \in Tasks \cup {NoTask}
  /\ restarts \in 0..MaxRestarts

\* Every variable keeps its type.
TypeOK ==
  /\ RunsTypeOK
  /\ TasksTypeOK
  /\ TickTypeOK
  /\ ExecutionsTypeOK
  /\ RetirementTypeOK
  /\ ReconcileTypeOK

(* Safety *)

\* A task that has ever been released to a worker had all its dependencies
\* succeeded, whatever happened between the read of the statuses and the
\* compare-and-set that released it: retries, retirements and restarts
\* (computeDependencyTransitions, tickOnce step 1).
DependencySafety ==
  \A t \in Tasks :
    status[t] \in {"ready", "running", "succeeded", "failed"} => AllSucceededDeps(t)

\* The concurrency limit of a run bounds its running tasks although the free
\* slots are counted once and the picked tasks begin one await later each
\* (tickOnce step 3, pickReadyTasks).
ConcurrencyLimit ==
  \A r \in Runs : Cardinality(WithStatus(r, {"running"})) <= Limit

\* No sequence of failures, operator retries and restarts spends more
\* attempts than the task's own and the operator's budget allow
\* (settleResult, reconcileStaleTask, taskRetry).
AttemptBudget == \A t \in Tasks : attempt[t] <= AttemptBound

\* At most one execution of a task works in its worktree: a new attempt
\* begins only after the previous one has stopped writing (git-workspace.ts,
\* "One writer per worktree is exclusive by construction").
SingleWriter ==
  \A t \in Tasks : \A a, b \in Attempts :
    exec[t][a] \in {"working", "commit"} /\ exec[t][b] \in {"working", "commit"}
      => a = b

\* The controller of every live execution is the one on record, so that
\* stop() aborts it: the finally block of an old attempt must not remove the
\* controller of the attempt its own settlement started (executeTask).
WorkerAbortable ==
  \A t \in Tasks, a \in Attempts :
    exec[t][a] \in {"creating", "working"} => inFlight[t] = a

\* The executions of a task are as many as the budgets allow, one at a time
\* and within reach of stop(), through retries, failures and a restart.
ExecutionInv == AttemptBudget /\ SingleWriter /\ WorkerAbortable

\* Once startup reconciliation is over, a running task of a live run has an
\* execution that will settle it: none is left over from before the restart,
\* none is dropped by its execution (reconcileAfterRestart, settleResult).
RunningHasExecution ==
  recPc = "idle" =>
    \A t \in Tasks :
      status[t] = "running" /\ phase[RunOf[t]] \notin TerminalPhases
        => attempt[t] \in Attempts /\ exec[t][attempt[t]] \notin {"none", "closing"}

\* A run that has left executing for completion has every task succeeded,
\* and keeps it so while suspended (detectAllSucceeded).
CompletionSound ==
  \A r \in Runs : CompletionPhase \in {phase[r], suspendedFrom[r]} => AllSucceeded(r)

(* Action properties *)

\* A settlement moves the task only on behalf of the attempt it is running:
\* the status-only compare-and-set of casTaskTransition never lets a result
\* of an earlier attempt through (settleResult).
OwnAttemptSettles ==
  [][\A t \in Tasks, a \in Attempts :
       /\ exec[t][a] \in {"commit", "retry", "final"}
       /\ exec'[t][a] = "closing"
       /\ status'[t] # status[t]
       => attempt[t] = a]_vars

\* A succeeded or canceled task never moves again, whatever result, retry,
\* reconciliation or tick was under way when it got there.
TerminalTaskStays ==
  [][\A t \in Tasks : status[t] \in TerminalStatuses => status'[t] = status[t]]_vars

(* Liveness *)

\* Left alone, a run does not stay in executing: it completes or it is
\* blocked by the dead-DAG check, unless a pending task waits behind one that
\* is itself only blocked (tickOnce, deadDagCheck, detectAllSucceeded).
RunDecided ==
  \A r \in Runs :
    phase[r] = "executing" ~>
      \/ phase[r] # "executing"
      \/ \E t \in WithStatus(r, {"pending"}) : \E d \in Deps[t] : status[d] = "blocked"

\* A running task is settled or requeued, also when a restart takes its
\* execution away (reconcileAfterRestart).
RunningSettles ==
  \A t \in Tasks :
    (status[t] = "running" /\ phase[RunOf[t]] \notin TerminalPhases)
      ~> (status[t] # "running" \/ phase[RunOf[t]] \in TerminalPhases)

\* A canceled run comes to rest: from some point on none of its tasks runs,
\* unless a restart after the cancellation takes away the loop that retires
\* them or the execution that settles them (retireTasksForRun, executeTask).
CanceledRunRests ==
  \A r \in Runs :
    phase[r] = "canceled" ~>
      (retirePc[r] = "lost" \/ [](WithStatus(r, {"running"}) = {}))
=============================================================================
