------------------------- MODULE TaskService_proofs -------------------------
(***************************************************************************)
(* Theorems about TaskService, for any runs, tasks, dependency graph and   *)
(* bounds, and their proofs.                                               *)
(***************************************************************************)
EXTENDS TaskService, FiniteSetTheorems, TLAPS

-----------------------------------------------------------------------------
(* What the shared step operators preserve. *)

\* A transition of a run leaves the run records well typed.
LEMMA TransitionRunType ==
  ASSUME RunsTypeOK, NEW r \in Runs, NEW to \in Phases, TransitionRun(r, to)
  PROVE  RunsTypeOK'
<1>1. CASE ~CanMove(phase[r], suspendedFrom[r], to)
  BY <1>1 DEF RunsTypeOK, TransitionRun, runVars
<1>2. CASE CanMove(phase[r], suspendedFrom[r], to)
  <2>1. phase' = [phase EXCEPT ![r] = to]
    BY <1>2 DEF TransitionRun
  <2>2. suspendedFrom' = [suspendedFrom EXCEPT ![r] = OriginAfter(phase[r], to)]
    BY <1>2 DEF TransitionRun
  <2>3. phase[r] \in Phases
    BY DEF RunsTypeOK
  <2>4. to \in SuspendedPhases => phase[r] \in ActivePhases
    BY <1>2, <2>3 DEF CanMove, RunEdges, Phases, ActivePhases, SuspendedPhases,
                      TerminalPhases, NoPhase, RunsTypeOK
  <2>5. OriginAfter(phase[r], to) \in ActivePhases \cup {NoPhase}
    BY <2>4 DEF OriginAfter
  <2> QED
    BY <2>1, <2>2, <2>5 DEF RunsTypeOK
<1> QED
  BY <1>1, <1>2

\* A compare-and-set leaves the task statuses well typed.
LEMMA CasTransitionType ==
  ASSUME TasksTypeOK, NEW t \in Tasks, NEW expected, NEW to \in TaskStatuses,
         CasTransition(t, expected, to)
  PROVE  status' \in [Tasks -> TaskStatuses]
BY DEF TasksTypeOK, CasTransition

\* The failure of a task is retried or final.
LEMMA FailureOutcomeType ==
  ASSUME NEW t
  PROVE  FailureOutcome(t) \in {"retry", "final"}
BY DEF FailureOutcome

\* An execution moves between known program counters.
LEMMA SetExecType ==
  ASSUME ExecutionsTypeOK, NEW t \in Tasks, NEW a \in Attempts, NEW to \in ExecPcs,
         exec' = [exec EXCEPT ![t][a] = to]
  PROVE  exec' \in [Tasks -> [Attempts -> ExecPcs]]
BY DEF ExecutionsTypeOK

\* Releasing a controller leaves the controllers well typed.
LEMMA ReleaseInFlightType ==
  ASSUME ExecutionsTypeOK, NEW t \in Tasks, NEW a, ReleaseInFlight(t, a)
  PROVE  inFlight' \in [Tasks -> Nat]
BY DEF ExecutionsTypeOK, ReleaseInFlight

-----------------------------------------------------------------------------
(* Type correctness, one lemma per group of actions. *)

LEMMA TickType == TypeOK /\ Tick => TypeOK'
<1> SUFFICES ASSUME TypeOK, Tick PROVE TypeOK'
  OBVIOUS
<1> USE DEF runVars, taskVars, tickVars, execVars, retireVars, recVars
<1>a. /\ UNCHANGED runVars => RunsTypeOK'
      /\ UNCHANGED taskVars => TasksTypeOK'
      /\ UNCHANGED execVars => ExecutionsTypeOK'
      /\ UNCHANGED retireVars => RetirementTypeOK'
      /\ UNCHANGED recVars => ReconcileTypeOK'
  BY DEF TypeOK, RunsTypeOK, TasksTypeOK, ExecutionsTypeOK, RetirementTypeOK,
         ReconcileTypeOK
<1>1. CASE TickStart
  BY <1>1, <1>a DEF TypeOK, TickStart, TickTypeOK, TickPcs, RunsTypeOK
<1>2. ASSUME NEW r \in Runs, TickRun(r) PROVE TypeOK'
  <2>1. decided' \in [Tasks -> {"none", "ready", "blocked"}]
    BY <1>2 DEF TickRun, DependencyTransition
  <2> QED
    BY <1>2, <1>a, <2>1 DEF TypeOK, TickRun, TickTypeOK, TickPcs
<1>3. ASSUME NEW t \in Tasks, TickDependency(t) PROVE TypeOK'
  <2>1. decided[t] \in TaskStatuses
    BY <1>3 DEF TypeOK, TickTypeOK, TickDependency, TaskStatuses
  <2>2. status' \in [Tasks -> TaskStatuses]
    BY <1>3, <2>1, CasTransitionType DEF TickDependency, TypeOK
  <2> QED
    BY <1>3, <1>a, <2>2 DEF TypeOK, TickDependency, TickTypeOK, TasksTypeOK
<1>4. CASE TickDeadDagCheck
  BY <1>4, <1>a DEF TypeOK, TickDeadDagCheck, TickTypeOK, TickPcs
<1>5. CASE TickBlockRun
  <2>1. RunsTypeOK'
    BY <1>5, TransitionRunType
       DEF TypeOK, TickBlockRun, TickTypeOK, Phases, SuspendedPhases
  <2> QED
    BY <1>5, <1>a, <2>1 DEF TypeOK, TickBlockRun, TickTypeOK, TickPcs
<1>6. CASE TickPick
  BY <1>6, <1>a DEF TypeOK, TickPick, ReadyPicks, WithStatus, TasksOf, TickTypeOK,
                    TickPcs
<1>7. ASSUME NEW t \in Tasks, TickBegin(t) PROVE TypeOK'
  <2>1. TickTypeOK' /\ RunsTypeOK' /\ RetirementTypeOK' /\ ReconcileTypeOK'
    BY <1>7, <1>a DEF TypeOK, TickTypeOK, TickBegin
  <2>2. CASE status[t] # "ready"
    BY <1>7, <1>a, <2>1, <2>2 DEF TypeOK, TickBegin, ExecutionsTypeOK
  <2>3. CASE status[t] = "ready"
    <3>1. attempt[t] + 1 \in Attempts
      BY <1>7, TaskServiceAssumptions DEF TypeOK, TasksTypeOK, TickBegin, Attempts
    <3>2. exec' \in [Tasks -> [Attempts -> ExecPcs]]
      BY <1>7, <2>3, <3>1, SetExecType DEF TypeOK, TickBegin, ExecPcs
    <3>3. inFlight' \in [Tasks -> Nat] /\ stopped' = stopped
      BY <1>7, <2>3 DEF TypeOK, TasksTypeOK, ExecutionsTypeOK, TickBegin
    <3>4. TasksTypeOK'
      BY <1>7, <2>3 DEF TypeOK, TasksTypeOK, TickBegin, TaskStatuses
    <3> QED
      BY <2>1, <3>2, <3>3, <3>4 DEF TypeOK, ExecutionsTypeOK
  <2> QED
    BY <2>2, <2>3
<1>8. ASSUME NEW t \in Tasks, TickStartEventFails(t) PROVE TypeOK'
  <2>1. PICK a \in Attempts : /\ exec' = [exec EXCEPT ![t][a] = "none"]
                              /\ ReleaseInFlight(t, a)
    BY <1>8 DEF TickStartEventFails
  <2>2. exec' \in [Tasks -> [Attempts -> ExecPcs]]
    BY <2>1, SetExecType DEF TypeOK, ExecPcs
  <2>3. inFlight' \in [Tasks -> Nat]
    BY <2>1, ReleaseInFlightType DEF TypeOK
  <2> QED
    BY <1>8, <1>a, <2>2, <2>3 DEF TypeOK, TickTypeOK, TickStartEventFails,
                                  ExecutionsTypeOK
<1>9. ASSUME NEW t \in Tasks, TickProvisionFails(t) PROVE TypeOK'
  <2>1. PICK a \in Attempts : /\ exec' = [exec EXCEPT ![t][a] = "none"]
                              /\ ReleaseInFlight(t, a)
    BY <1>9 DEF TickProvisionFails
  <2>2. exec' \in [Tasks -> [Attempts -> ExecPcs]]
    BY <2>1, SetExecType DEF TypeOK, ExecPcs
  <2>3. inFlight' \in [Tasks -> Nat]
    BY <2>1, ReleaseInFlightType DEF TypeOK
  <2>4. status' \in [Tasks -> TaskStatuses]
    BY <1>9, CasTransitionType DEF TypeOK, TickProvisionFails, TaskStatuses
  <2> QED
    BY <1>9, <1>a, <2>2, <2>3, <2>4
       DEF TypeOK, TickTypeOK, TasksTypeOK, TickProvisionFails, ExecutionsTypeOK
<1>10. ASSUME NEW t \in Tasks, TickProvision(t) PROVE TypeOK'
  <2>1. PICK a \in Attempts :
          \/ /\ exec' = [exec EXCEPT ![t][a] = "provisioned"]
             /\ UNCHANGED <<inFlight, beginning>>
          \/ /\ exec' = [exec EXCEPT ![t][a] = "none"]
             /\ ReleaseInFlight(t, a)
             /\ beginning' = NoTask
    BY <1>10 DEF TickProvision
  <2>2. exec' \in [Tasks -> [Attempts -> ExecPcs]]
    BY <2>1, SetExecType DEF TypeOK, ExecPcs
  <2>3. inFlight' \in [Tasks -> Nat]
    BY <2>1, ReleaseInFlightType DEF TypeOK, ExecutionsTypeOK
  <2>4. TickTypeOK'
    BY <1>10, <2>1 DEF TypeOK, TickTypeOK, TickProvision
  <2> QED
    BY <1>10, <1>a, <2>2, <2>3, <2>4 DEF TypeOK, TickProvision, ExecutionsTypeOK
<1>11. ASSUME NEW t \in Tasks, TickDispatch(t) PROVE TypeOK'
  <2>1. PICK a \in Attempts :
          exec' = [exec EXCEPT ![t][a] = IF inFlight[t] = 0 THEN "none"
                                         ELSE "creating"]
    BY <1>11 DEF TickDispatch
  <2>2. exec' \in [Tasks -> [Attempts -> ExecPcs]]
    BY <2>1, SetExecType DEF TypeOK, ExecPcs
  <2> QED
    BY <1>11, <1>a, <2>2 DEF TypeOK, TickTypeOK, TickDispatch, ExecutionsTypeOK
<1>12. CASE TickDetect
  BY <1>12, <1>a DEF TypeOK, TickDetect, TickTypeOK, TickPcs
<1>13. CASE TickComplete
  <2>1. CompletionPhase \in Phases
    BY TaskServiceAssumptions DEF Phases, ActivePhases
  <2>2. RunsTypeOK'
    BY <1>13, <2>1, TransitionRunType DEF TypeOK, TickComplete, TickTypeOK
  <2> QED
    BY <1>13, <1>a, <2>2 DEF TypeOK, TickComplete, TickTypeOK, TickPcs
<1>14. CASE TickEnd
  BY <1>14, <1>a DEF TypeOK, TickEnd, TickTypeOK, TickPcs
<1> QED
  BY <1>1, <1>2, <1>3, <1>4, <1>5, <1>6, <1>7, <1>8, <1>9, <1>10, <1>11,
     <1>12, <1>13, <1>14 DEF Tick

LEMMA ExecutionType ==
  ASSUME TypeOK, NEW t \in Tasks, NEW a \in Attempts, Execution(t, a)
  PROVE  TypeOK'
<1> USE DEF runVars, taskVars, tickVars, execVars, retireVars, recVars
<1>a. /\ UNCHANGED taskVars => TasksTypeOK'
      /\ UNCHANGED <<runVars, tickVars, retireVars, recVars>> =>
           RunsTypeOK' /\ TickTypeOK' /\ RetirementTypeOK' /\ ReconcileTypeOK'
  BY DEF TypeOK, RunsTypeOK, TasksTypeOK, TickTypeOK, RetirementTypeOK,
         ReconcileTypeOK
<1>b. ASSUME NEW from, NEW to \in ExecPcs, ExecStep(t, a, from, to)
      PROVE  exec' \in [Tasks -> [Attempts -> ExecPcs]]
  BY <1>b, SetExecType DEF TypeOK, ExecStep
<1>c. {"none", "working", "closing", "commit", FailureOutcome(t)} \subseteq ExecPcs
  BY FailureOutcomeType DEF ExecPcs
<1>1. CASE SessionCreated(t, a)
  BY <1>1, <1>a, <1>b, <1>c DEF TypeOK, SessionCreated, ExecutionsTypeOK
<1>2. ASSUME NEW from, NEW result, WorkerReturns(t, a, from, result)
      PROVE  TypeOK'
  <2>1. exec' \in [Tasks -> [Attempts -> ExecPcs]]
    BY <1>2, <1>b, <1>c DEF WorkerReturns
  <2> QED
    BY <1>2, <1>a, <2>1 DEF TypeOK, WorkerReturns, ExecutionsTypeOK
<1>3. ASSUME NEW from, WorkerRejects(t, a, from) PROVE TypeOK'
  BY <1>3, <1>a, <1>b, <1>c DEF TypeOK, WorkerRejects, ExecutionsTypeOK
<1>4. CASE CommitFails(t, a)
  <2>1. exec' \in [Tasks -> [Attempts -> ExecPcs]]
    BY <1>4, <1>b, <1>c DEF CommitFails
  <2> QED
    BY <1>4, <1>a, <2>1 DEF TypeOK, CommitFails, ExecutionsTypeOK
<1>5. CASE Settle(t, a)
  <2>1. exec' \in [Tasks -> [Attempts -> ExecPcs]]
    BY <1>5, <1>b, <1>c DEF Settle
  <2>2. status' \in [Tasks -> TaskStatuses]
    BY <1>5, CasTransitionType DEF TypeOK, Settle, TaskStatuses
  <2> QED
    BY <1>5, <1>a, <2>1, <2>2 DEF TypeOK, Settle, ExecutionsTypeOK, TasksTypeOK
<1>6. CASE CloseExecution(t, a)
  <2>1. exec' \in [Tasks -> [Attempts -> ExecPcs]]
    BY <1>6, <1>b, <1>c DEF CloseExecution
  <2>2. inFlight' \in [Tasks -> Nat]
    BY <1>6, ReleaseInFlightType DEF TypeOK, CloseExecution
  <2> QED
    BY <1>6, <1>a, <2>1, <2>2 DEF TypeOK, CloseExecution, ExecutionsTypeOK
<1> QED
  BY <1>1, <1>2, <1>3, <1>4, <1>5, <1>6 DEF Execution

LEMMA OperatorType == TypeOK /\ Operator => TypeOK'
<1> SUFFICES ASSUME TypeOK, Operator PROVE TypeOK'
  OBVIOUS
<1> USE DEF runVars, taskVars, tickVars, execVars, retireVars, recVars
<1>1. ASSUME NEW r \in Runs, NEW to \in Phases, RunTransition(r, to) PROVE TypeOK'
  <2>1. RunsTypeOK'
    BY <1>1, TransitionRunType DEF TypeOK, RunTransition
  <2>2. RetirementTypeOK'
    BY <1>1 DEF TypeOK, RunTransition, RetirementTypeOK
  <2> QED
    BY <1>1, <2>1, <2>2
       DEF TypeOK, RunTransition, TasksTypeOK, TickTypeOK, ExecutionsTypeOK,
           ReconcileTypeOK
<1>2. ASSUME NEW t \in Tasks, TaskRetry(t) PROVE TypeOK'
  <2>1. status' \in [Tasks -> TaskStatuses]
    BY <1>2, CasTransitionType DEF TypeOK, TaskRetry, TaskStatuses
  <2> QED
    BY <1>2, <2>1
       DEF TypeOK, TaskRetry, RunsTypeOK, TasksTypeOK, TickTypeOK,
           ExecutionsTypeOK, RetirementTypeOK, ReconcileTypeOK
<1> QED
  BY <1>1, <1>2 DEF Operator

LEMMA RetirementType == TypeOK /\ Retirement => TypeOK'
<1> SUFFICES ASSUME TypeOK, Retirement PROVE TypeOK'
  OBVIOUS
<1> USE DEF runVars, taskVars, tickVars, execVars, retireVars, recVars
<1>a. /\ UNCHANGED taskVars => TasksTypeOK'
      /\ UNCHANGED execVars => ExecutionsTypeOK'
      /\ UNCHANGED <<runVars, tickVars, recVars>> =>
           RunsTypeOK' /\ TickTypeOK' /\ ReconcileTypeOK'
  BY DEF TypeOK, RunsTypeOK, TasksTypeOK, TickTypeOK, ExecutionsTypeOK,
         ReconcileTypeOK
<1>1. ASSUME NEW r \in Runs, RetireStart(r) PROVE TypeOK'
  <2>1. RetirementTypeOK'
    BY <1>1 DEF TypeOK, RetireStart, RetirementTypeOK, TasksTypeOK
  <2> QED
    BY <1>1, <1>a, <2>1 DEF TypeOK, RetireStart
<1>2. ASSUME NEW r \in Runs, RetireEnd(r) PROVE TypeOK'
  <2>1. RetirementTypeOK'
    BY <1>2 DEF TypeOK, RetireEnd, RetirementTypeOK
  <2> QED
    BY <1>2, <1>a, <2>1 DEF TypeOK, RetireEnd
<1>3. ASSUME NEW t \in Tasks, RetireStop(t) PROVE TypeOK'
  <2>1. RetirementTypeOK'
    BY <1>3 DEF TypeOK, RetireStop, RetirementTypeOK
  <2>2. ExecutionsTypeOK'
    BY <1>3 DEF TypeOK, RetireStop, RetirementTypeOK, ExecutionsTypeOK
  <2> QED
    BY <1>3, <1>a, <2>1, <2>2 DEF TypeOK, RetireStop
<1>4. ASSUME NEW t \in Tasks, RetireCancel(t) PROVE TypeOK'
  <2>1. status' \in [Tasks -> TaskStatuses]
    BY <1>4, CasTransitionType DEF TypeOK, RetireCancel, TaskStatuses
  <2>2. RetirementTypeOK'
    BY <1>4 DEF TypeOK, RetireCancel, RetirementTypeOK
  <2> QED
    BY <1>4, <1>a, <2>1, <2>2 DEF TypeOK, RetireCancel, TasksTypeOK
<1> QED
  BY <1>1, <1>2, <1>3, <1>4 DEF Retirement

LEMMA RestartType == TypeOK /\ Restart => TypeOK'
<1> SUFFICES ASSUME TypeOK, Restart PROVE TypeOK'
  OBVIOUS
<1> USE DEF runVars, taskVars
<1>1. RunsTypeOK' /\ TasksTypeOK'
  BY DEF TypeOK, Restart, RunsTypeOK, TasksTypeOK
<1>2. TickTypeOK'
  BY DEF TypeOK, Restart, RunsTypeOK, TickTypeOK, TickPcs
<1>3. ExecutionsTypeOK'
  BY DEF TypeOK, Restart, ExecutionsTypeOK, NoExec, ExecPcs
<1>4. RetirementTypeOK'
  BY DEF TypeOK, Restart, RetirementTypeOK
<1>5. ReconcileTypeOK'
  BY TaskServiceAssumptions DEF TypeOK, Restart, ReconcileTypeOK
<1> QED
  BY <1>1, <1>2, <1>3, <1>4, <1>5 DEF TypeOK

LEMMA ProbeUpToStaleType ==
  ASSUME NEW candidates \in [Tasks -> Nat], ProbeUpToStale(candidates)
  PROVE  recTask' \in Tasks \cup {NoTask} /\ recAgent' \in [Tasks -> Nat]
BY DEF ProbeUpToStale

LEMMA ReconcileType == TypeOK /\ Reconcile => TypeOK'
<1> SUFFICES ASSUME TypeOK, Reconcile PROVE TypeOK'
  OBVIOUS
<1> USE DEF runVars, taskVars, tickVars, execVars, retireVars
<1>a. /\ UNCHANGED taskVars => TasksTypeOK'
      /\ UNCHANGED <<runVars, tickVars, execVars, retireVars>> =>
           RunsTypeOK' /\ TickTypeOK' /\ ExecutionsTypeOK' /\ RetirementTypeOK'
  BY DEF TypeOK, RunsTypeOK, TasksTypeOK, TickTypeOK, ExecutionsTypeOK,
         RetirementTypeOK
<1>1. ASSUME NEW r \in Runs, ReconcileRun(r) PROVE TypeOK'
  <2> DEFINE read == [t \in Tasks |-> IF RunOf[t] = r /\ status[t] = "running"
                                      THEN attempt[t] ELSE 0]
  <2>1. read \in [Tasks -> Nat]
    BY DEF TypeOK, TasksTypeOK
  <2>2. recTask' \in Tasks \cup {NoTask} /\ recAgent' \in [Tasks -> Nat]
    BY <1>1, <2>1, ProbeUpToStaleType DEF ReconcileRun
  <2> QED
    BY <1>1, <1>a, <2>2 DEF TypeOK, ReconcileRun, ReconcileTypeOK
<1>2. ASSUME NEW t \in Tasks, ReconcileStale(t) PROVE TypeOK'
  <2> DEFINE left == [recAgent EXCEPT ![t] = 0]
  <2>1. left \in [Tasks -> Nat]
    BY DEF TypeOK, ReconcileTypeOK
  <2>2. recTask' \in Tasks \cup {NoTask} /\ recAgent' \in [Tasks -> Nat]
    BY <1>2, <2>1, ProbeUpToStaleType DEF ReconcileStale
  <2>3. status' \in [Tasks -> TaskStatuses]
    BY <1>2, CasTransitionType DEF TypeOK, ReconcileStale, TaskStatuses
  <2> QED
    BY <1>2, <1>a, <2>2, <2>3
       DEF TypeOK, ReconcileStale, ReconcileTypeOK, TasksTypeOK
<1>3. CASE ReconcileEnd
  BY <1>3, <1>a DEF TypeOK, ReconcileEnd, ReconcileTypeOK
<1> QED
  BY <1>1, <1>2, <1>3 DEF Reconcile

LEMMA InitType == Init => TypeOK
<1> SUFFICES ASSUME Init PROVE TypeOK
  OBVIOUS
<1>1. RunsTypeOK
  BY DEF Init, RunsTypeOK, Phases, ActivePhases
<1>2. TasksTypeOK
  BY DEF Init, TasksTypeOK, TaskStatuses
<1>3. TickTypeOK
  BY <1>1 DEF Init, TickTypeOK, TickPcs, RunsTypeOK
<1>4. ExecutionsTypeOK
  BY DEF Init, ExecutionsTypeOK, NoExec, ExecPcs
<1>5. RetirementTypeOK
  BY DEF Init, RetirementTypeOK
<1>6. ReconcileTypeOK
  BY TaskServiceAssumptions DEF Init, ReconcileTypeOK
<1> QED
  BY <1>1, <1>2, <1>3, <1>4, <1>5, <1>6 DEF TypeOK

LEMMA NextType == TypeOK /\ [Next]_vars => TypeOK'
<1> SUFFICES ASSUME TypeOK, [Next]_vars PROVE TypeOK'
  OBVIOUS
<1>1. CASE Next
  BY <1>1, TickType, ExecutionType, OperatorType, RetirementType, RestartType,
     ReconcileType DEF Next
<1>2. CASE UNCHANGED vars
  BY <1>2 DEF vars, runVars, taskVars, tickVars, execVars, retireVars, recVars,
              TypeOK, RunsTypeOK, TasksTypeOK, TickTypeOK, ExecutionsTypeOK,
              RetirementTypeOK, ReconcileTypeOK
<1> QED
  BY <1>1, <1>2

\* Whatever the runs, tasks, dependencies and bounds, every variable keeps its
\* type: no interleaving of the tick, the executions, the operator, a
\* retirement and a restart takes a record outside its domain.
THEOREM TypeCorrect == Spec => []TypeOK
BY InitType, NextType, PTL DEF Spec

-----------------------------------------------------------------------------
(* Which steps move a task.  Every safety theorem below rests on this.     *)

\* What a step may do to the status of task t: nothing, or one edge of the
\* machine; it becomes ready from pending or blocked only on a computed
\* transition, and running only because the tick begins it.
StatusStep(t) ==
  \/ status'[t] = status[t]
  \/ /\ <<status[t], status'[t]>> \in TaskEdges
     /\ status[t] \in {"pending", "blocked"} /\ status'[t] = "ready"
          => decided[t] = "ready"
     /\ status'[t] = "running" => TickBegin(t)

\* A compare-and-set on a running or failed task, or towards canceled or
\* blocked, is such a step.
LEMMA CasStatusStep ==
  ASSUME TypeOK, NEW u \in Tasks, NEW expected, NEW to, CasTransition(u, expected, to),
         to # "running",
         to = "ready" => expected \in {"running", "failed"} \/ decided[u] = "ready",
         NEW t \in Tasks
  PROVE  StatusStep(t)
<1>1. CASE status[u] = expected /\ <<expected, to>> \in TaskEdges
  <2>1. status' = [status EXCEPT ![u] = to]
    BY <1>1 DEF CasTransition
  <2>2. CASE t = u
    <3>1. status'[t] = to
      BY <2>1, <2>2 DEF TypeOK, TasksTypeOK
    <3> QED
      BY <1>1, <2>2, <3>1 DEF StatusStep
  <2>3. CASE t # u
    BY <2>1, <2>3 DEF TypeOK, TasksTypeOK, StatusStep
  <2> QED
    BY <2>2, <2>3
<1>2. CASE ~(status[u] = expected /\ <<expected, to>> \in TaskEdges)
  BY <1>2 DEF CasTransition, StatusStep
<1> QED
  BY <1>1, <1>2

LEMMA NextStatusStep ==
  ASSUME TypeOK, [Next]_vars, NEW t \in Tasks
  PROVE  StatusStep(t)
<1> USE DEF runVars, taskVars, tickVars, execVars, retireVars, recVars
<1>a. UNCHANGED status => StatusStep(t)
  BY DEF StatusStep
<1>1. CASE Tick
  <2>1. ASSUME NEW u \in Tasks, TickDependency(u) PROVE StatusStep(t)
    <3>1. decided[u] \in {"ready", "blocked"}
      BY <2>1 DEF TickDependency, TypeOK, TickTypeOK
    <3> QED
      BY <2>1, <3>1, CasStatusStep DEF TickDependency
  <2>2. ASSUME NEW u \in Tasks, TickBegin(u) PROVE StatusStep(t)
    <3>1. CASE status[u] = "ready" /\ t = u
      <4>1. status'[t] = "running"
        BY <2>2, <3>1 DEF TickBegin, TypeOK, TasksTypeOK
      <4> QED
        BY <2>2, <3>1, <4>1 DEF StatusStep, TaskEdges
    <3>2. CASE ~(status[u] = "ready" /\ t = u)
      BY <2>2, <3>2 DEF TickBegin, TypeOK, TasksTypeOK, StatusStep
    <3> QED
      BY <3>1, <3>2
  <2>3. ASSUME NEW u \in Tasks, TickProvisionFails(u) PROVE StatusStep(t)
    BY <2>3, CasStatusStep DEF TickProvisionFails
  <2>4. ASSUME NEW u \in Tasks,
               TickStartEventFails(u) \/ TickProvision(u) \/ TickDispatch(u)
        PROVE  StatusStep(t)
    BY <2>4, <1>a DEF TickStartEventFails, TickProvision, TickDispatch
  <2>5. CASE TickStart \/ (\E r \in Runs : TickRun(r)) \/ TickDeadDagCheck
             \/ TickBlockRun \/ TickPick \/ TickDetect \/ TickComplete \/ TickEnd
    BY <2>5, <1>a DEF TickStart, TickRun, TickDeadDagCheck, TickBlockRun, TickPick,
                      TickDetect, TickComplete, TickEnd
  <2> QED
    BY <1>1, <2>1, <2>2, <2>3, <2>4, <2>5 DEF Tick
<1>2. ASSUME NEW u \in Tasks, NEW a \in Attempts, Execution(u, a)
      PROVE  StatusStep(t)
  <2>1. CASE Settle(u, a)
    BY <2>1, CasStatusStep DEF Settle
  <2>2. CASE ~Settle(u, a)
    BY <1>2, <2>2, <1>a DEF Execution, SessionCreated, WorkerReturns, WorkerRejects,
                            CommitFails, CloseExecution
  <2> QED
    BY <2>1, <2>2
<1>3. CASE Operator
  <2>1. ASSUME NEW u \in Tasks, TaskRetry(u) PROVE StatusStep(t)
    BY <2>1, CasStatusStep DEF TaskRetry
  <2>2. ASSUME NEW r \in Runs, NEW to \in Phases, RunTransition(r, to)
        PROVE  StatusStep(t)
    BY <2>2, <1>a DEF RunTransition
  <2> QED
    BY <1>3, <2>1, <2>2 DEF Operator
<1>4. CASE Retirement
  <2>1. ASSUME NEW u \in Tasks, RetireCancel(u) PROVE StatusStep(t)
    BY <2>1, CasStatusStep DEF RetireCancel
  <2>2. ASSUME NEW u \in Tasks, RetireStop(u) PROVE StatusStep(t)
    BY <2>2, <1>a DEF RetireStop
  <2>3. ASSUME NEW r \in Runs, RetireStart(r) \/ RetireEnd(r) PROVE StatusStep(t)
    BY <2>3, <1>a DEF RetireStart, RetireEnd
  <2> QED
    BY <1>4, <2>1, <2>2, <2>3 DEF Retirement
<1>5. CASE Restart
  BY <1>5, <1>a DEF Restart
<1>6. CASE Reconcile
  <2>1. ASSUME NEW u \in Tasks, ReconcileStale(u) PROVE StatusStep(t)
    BY <2>1, CasStatusStep DEF ReconcileStale
  <2>2. CASE (\E r \in Runs : ReconcileRun(r)) \/ ReconcileEnd
    BY <2>2, <1>a DEF ReconcileRun, ReconcileEnd
  <2> QED
    BY <1>6, <2>1, <2>2 DEF Reconcile
<1>7. CASE UNCHANGED vars
  BY <1>7, <1>a DEF vars
<1> QED
  BY <1>1, <1>2, <1>3, <1>4, <1>5, <1>6, <1>7 DEF Next

\* A succeeded or canceled task stays as it is through every step.
LEMMA NextTerminalStays ==
  ASSUME TypeOK, [Next]_vars, NEW t \in Tasks, status[t] \in TerminalStatuses
  PROVE  status'[t] = status[t]
BY NextStatusStep DEF StatusStep, TaskEdges, TerminalStatuses

\* No late result, retry, tick, retirement or reconciliation moves a task that
\* has succeeded or been canceled (transitionTask, casTaskTransition).
THEOREM TerminalTaskStaysHolds == Spec => TerminalTaskStays
<1>1. TypeOK /\ [Next]_vars
        => [\A t \in Tasks : status[t] \in TerminalStatuses => status'[t] = status[t]]_vars
  BY NextTerminalStays
<1> QED
  BY <1>1, TypeCorrect, PTL DEF Spec, TerminalTaskStays

-----------------------------------------------------------------------------
(* Dependency safety.  The verdict "ready" is computed in one step and     *)
(* applied in another, so the invariant must say that it is still true.    *)

DecidedSound == \A t \in Tasks : decided[t] = "ready" => AllSucceededDeps(t)

DependencyInv == TypeOK /\ DependencySafety /\ DecidedSound

LEMMA NextDepsStay ==
  ASSUME TypeOK, [Next]_vars, NEW t \in Tasks, AllSucceededDeps(t)
  PROVE  AllSucceededDeps(t)'
<1> SUFFICES ASSUME NEW d \in Deps[t] PROVE status'[d] = "succeeded"
  BY DEF AllSucceededDeps
<1>1. d \in Tasks /\ status[d] = "succeeded"
  BY TaskServiceAssumptions DEF AllSucceededDeps
<1> QED
  BY <1>1, NextTerminalStays DEF TerminalStatuses

\* Only the visit of a run and a restart write a verdict; the others keep or
\* drop it.
LEMMA NextDecided ==
  ASSUME TypeOK, [Next]_vars, NEW t \in Tasks, decided'[t] = "ready"
  PROVE  decided[t] = "ready" \/ AllSucceededDeps(t)
<1> USE DEF runVars, taskVars, tickVars, execVars, retireVars, recVars
<1>1. CASE Tick
  <2>1. ASSUME NEW r \in Runs, TickRun(r) PROVE AllSucceededDeps(t)
    BY <2>1 DEF TickRun, DependencyTransition
  <2>2. ASSUME NEW u \in Tasks, TickDependency(u) PROVE decided[t] = "ready"
    BY <2>2 DEF TickDependency, TypeOK, TickTypeOK
  <2>3. CASE UNCHANGED decided
    BY <2>3
  <2> QED
    BY <1>1, <2>1, <2>2, <2>3
       DEF Tick, TickStart, TickDeadDagCheck, TickBlockRun, TickPick, TickBegin,
           TickStartEventFails, TickProvisionFails, TickProvision, TickDispatch,
           TickDetect, TickComplete, TickEnd
<1>2. ASSUME NEW u \in Tasks, NEW a \in Attempts, Execution(u, a)
      PROVE  UNCHANGED decided
  BY <1>2 DEF Execution, SessionCreated, WorkerReturns, WorkerRejects, CommitFails,
              Settle, CloseExecution
<1>3. CASE Operator
  BY <1>3 DEF Operator, RunTransition, TaskRetry
<1>4. CASE Retirement
  BY <1>4 DEF Retirement, RetireStart, RetireStop, RetireCancel, RetireEnd
<1>5. CASE Restart
  BY <1>5 DEF Restart
<1>6. CASE Reconcile
  BY <1>6 DEF Reconcile, ReconcileRun, ReconcileStale, ReconcileEnd
<1>7. CASE UNCHANGED vars
  BY <1>7 DEF vars
<1> QED
  BY <1>1, <1>2, <1>3, <1>4, <1>5, <1>6, <1>7 DEF Next

LEMMA DependencyStep == DependencyInv /\ [Next]_vars => DependencyInv'
<1> SUFFICES ASSUME DependencyInv, [Next]_vars PROVE DependencyInv'
  OBVIOUS
<1> USE DEF DependencyInv
<1>1. TypeOK'
  BY NextType
<1>2. DependencySafety'
  <2> SUFFICES ASSUME NEW t \in Tasks,
                      status'[t] \in {"ready", "running", "succeeded", "failed"}
               PROVE  AllSucceededDeps(t)'
    BY DEF DependencySafety
  <2>1. CASE status[t] \in {"ready", "running", "succeeded", "failed"}
    BY <2>1, NextDepsStay DEF DependencySafety
  <2>2. CASE status[t] \notin {"ready", "running", "succeeded", "failed"}
    <3>1. decided[t] = "ready"
      BY <2>2, NextStatusStep DEF StatusStep, TaskEdges
    <3> QED
      BY <3>1, NextDepsStay DEF DecidedSound
  <2> QED
    BY <2>1, <2>2
<1>3. DecidedSound'
  BY NextDecided, NextDepsStay DEF DecidedSound
<1> QED
  BY <1>1, <1>2, <1>3

\* For every dependency graph and every number of runs: a task that was ever
\* released had, and still has, all its dependencies succeeded.
THEOREM DependencySafetyHolds == Spec => []DependencySafety
<1>1. Init => DependencyInv
  BY InitType DEF Init, DependencyInv, DependencySafety, DecidedSound
<1>2. DependencyInv => DependencySafety
  BY DEF DependencyInv
<1> QED
  BY <1>1, <1>2, DependencyStep, PTL DEF Spec

-----------------------------------------------------------------------------
(* Completion.  detectAllSucceeded reads the tasks before an await and     *)
(* moves the run after it, so the invariant keeps the verdict.             *)

VerdictSound == tickPc = "complete" => AllSucceeded(cur)

CompletionInv == TypeOK /\ CompletionSound /\ VerdictSound

LEMMA NextAllSucceededStays ==
  ASSUME TypeOK, [Next]_vars, NEW r \in Runs, AllSucceeded(r)
  PROVE  AllSucceeded(r)'
BY NextTerminalStays DEF AllSucceeded, TasksOf, TerminalStatuses

\* A transition to another phase does not bring a run into completion.
LEMMA TransitionElsewhere ==
  ASSUME TypeOK, NEW r \in Runs, NEW to, to # CompletionPhase, TransitionRun(r, to),
         NEW s \in Runs, CompletionPhase \in {phase'[s], suspendedFrom'[s]}
  PROVE  CompletionPhase \in {phase[s], suspendedFrom[s]}
<1>1. CompletionPhase # NoPhase
  BY TaskServiceAssumptions DEF NoPhase
<1>2. CASE CanMove(phase[r], suspendedFrom[r], to)
  <2>1. /\ phase' = [phase EXCEPT ![r] = to]
        /\ suspendedFrom' = [suspendedFrom EXCEPT ![r] = OriginAfter(phase[r], to)]
    BY <1>2 DEF TransitionRun
  <2> QED
    BY <1>1, <2>1 DEF OriginAfter, TypeOK, RunsTypeOK
<1>3. CASE ~CanMove(phase[r], suspendedFrom[r], to)
  BY <1>3 DEF TransitionRun, runVars
<1> QED
  BY <1>2, <1>3

\* A run enters completion only by the tick that saw its tasks succeeded.
LEMMA NextCompletion ==
  ASSUME TypeOK, [Next]_vars, NEW s \in Runs,
         CompletionPhase \in {phase'[s], suspendedFrom'[s]}
  PROVE  \/ CompletionPhase \in {phase[s], suspendedFrom[s]}
         \/ tickPc = "complete" /\ cur = s
<1> USE DEF runVars, taskVars, tickVars, execVars, retireVars, recVars
<1>a. UNCHANGED runVars => CompletionPhase \in {phase[s], suspendedFrom[s]}
  OBVIOUS
<1>1. CASE Tick
  <2>1. CASE TickBlockRun
    <3>1. "blocked" # CompletionPhase
      BY TaskServiceAssumptions
    <3>2. cur \in Runs /\ TransitionRun(cur, "blocked")
      BY <2>1 DEF TickBlockRun, TypeOK, TickTypeOK
    <3> QED
      BY <3>1, <3>2, TransitionElsewhere
  <2>2. CASE TickComplete
    <3>1. CASE cur # s
      <4>1. TransitionRun(cur, CompletionPhase) /\ cur \in Runs
        BY <2>2 DEF TickComplete, TypeOK, TickTypeOK
      <4> QED
        BY <3>1, <4>1 DEF TransitionRun, TypeOK, RunsTypeOK
    <3> QED
      BY <2>2, <3>1 DEF TickComplete
  <2>3. CASE UNCHANGED runVars
    BY <2>3, <1>a
  <2> QED
    BY <1>1, <2>1, <2>2, <2>3
       DEF Tick, TickStart, TickRun, TickDependency, TickDeadDagCheck, TickPick,
           TickBegin, TickStartEventFails, TickProvisionFails, TickProvision,
           TickDispatch, TickDetect, TickEnd
<1>2. ASSUME NEW u \in Tasks, NEW a \in Attempts, Execution(u, a)
      PROVE  UNCHANGED runVars
  BY <1>2 DEF Execution, SessionCreated, WorkerReturns, WorkerRejects, CommitFails,
              Settle, CloseExecution
<1>3. CASE Operator
  <2>1. ASSUME NEW r \in Runs, NEW to \in Phases, RunTransition(r, to)
        PROVE  CompletionPhase \in {phase[s], suspendedFrom[s]}
    <3>1. to # CompletionPhase
      BY <2>1, TaskServiceAssumptions DEF RunTransition
    <3> QED
      BY <2>1, <3>1, TransitionElsewhere DEF RunTransition
  <2>2. ASSUME NEW u \in Tasks, TaskRetry(u) PROVE UNCHANGED runVars
    BY <2>2 DEF TaskRetry
  <2> QED
    BY <1>3, <1>a, <2>1, <2>2 DEF Operator
<1>4. CASE Retirement
  BY <1>4, <1>a DEF Retirement, RetireStart, RetireStop, RetireCancel, RetireEnd
<1>5. CASE Restart
  BY <1>5, <1>a DEF Restart
<1>6. CASE Reconcile
  BY <1>6, <1>a DEF Reconcile, ReconcileRun, ReconcileStale, ReconcileEnd
<1>7. CASE UNCHANGED vars
  BY <1>7, <1>a DEF vars
<1> QED
  BY <1>1, <1>2, <1>a, <1>3, <1>4, <1>5, <1>6, <1>7 DEF Next

\* The verdict is taken by TickDetect and kept by whatever else happens
\* before the tick applies it.
LEMMA NextVerdict ==
  ASSUME TypeOK, [Next]_vars, tickPc' = "complete"
  PROVE  /\ cur' = cur /\ cur \in Runs
         /\ tickPc = "complete" \/ AllSucceeded(cur)
<1> USE DEF runVars, taskVars, tickVars, execVars, retireVars, recVars
<1>a. UNCHANGED tickVars => cur' = cur /\ cur \in Runs /\ tickPc = "complete"
  BY DEF TypeOK, TickTypeOK
<1>1. CASE Tick
  <2>1. CASE TickDetect
    BY <2>1 DEF TickDetect, TypeOK, TickTypeOK
  <2>2. CASE tickPc' = tickPc /\ cur' = cur
    BY <2>2 DEF TypeOK, TickTypeOK
  <2> QED
    BY <1>1, <2>1, <2>2
       DEF Tick, TickStart, TickRun, TickDependency, TickDeadDagCheck, TickBlockRun,
           TickPick, TickBegin, TickStartEventFails, TickProvisionFails,
           TickProvision, TickDispatch, TickComplete, TickEnd
<1>2. ASSUME NEW u \in Tasks, NEW a \in Attempts, Execution(u, a)
      PROVE  UNCHANGED tickVars
  BY <1>2 DEF Execution, SessionCreated, WorkerReturns, WorkerRejects, CommitFails,
              Settle, CloseExecution
<1>3. CASE Operator
  BY <1>3, <1>a DEF Operator, RunTransition, TaskRetry
<1>4. CASE Retirement
  BY <1>4, <1>a DEF Retirement, RetireStart, RetireStop, RetireCancel, RetireEnd
<1>5. CASE Restart
  BY <1>5 DEF Restart
<1>6. CASE Reconcile
  BY <1>6, <1>a DEF Reconcile, ReconcileRun, ReconcileStale, ReconcileEnd
<1>7. CASE UNCHANGED vars
  BY <1>7, <1>a DEF vars
<1> QED
  BY <1>1, <1>2, <1>a, <1>3, <1>4, <1>5, <1>6, <1>7 DEF Next

LEMMA CompletionStep == CompletionInv /\ [Next]_vars => CompletionInv'
<1> SUFFICES ASSUME CompletionInv, [Next]_vars PROVE CompletionInv'
  OBVIOUS
<1> USE DEF CompletionInv
<1>1. TypeOK'
  BY NextType
<1>2. CompletionSound'
  <2> SUFFICES ASSUME NEW r \in Runs,
                      CompletionPhase \in {phase'[r], suspendedFrom'[r]}
               PROVE  AllSucceeded(r)'
    BY DEF CompletionSound
  <2>1. AllSucceeded(r)
    BY NextCompletion DEF CompletionSound, VerdictSound
  <2> QED
    BY <2>1, NextAllSucceededStays
<1>3. VerdictSound'
  <2> SUFFICES ASSUME tickPc' = "complete" PROVE AllSucceeded(cur)'
    BY DEF VerdictSound
  <2>1. cur' = cur /\ cur \in Runs /\ AllSucceeded(cur)
    BY NextVerdict DEF VerdictSound
  <2>2. \A r \in Runs : AllSucceeded(r) => AllSucceeded(r)'
    BY NextAllSucceededStays
  <2> QED
    BY <2>1, <2>2 DEF AllSucceeded, TasksOf
<1> QED
  BY <1>1, <1>2, <1>3

\* A run that is completing, or suspended from completion, has every task
\* succeeded, for every number of runs and tasks: none of the steps between
\* detectAllSucceeded's read and its transition can undo the verdict.
THEOREM CompletionSoundHolds == Spec => []CompletionSound
<1>1. Init => CompletionInv
  <2>1. "executing" # CompletionPhase /\ NoPhase # CompletionPhase
    BY TaskServiceAssumptions DEF NoPhase
  <2> QED
    BY <2>1, InitType DEF Init, CompletionInv, CompletionSound, VerdictSound
<1>2. CompletionInv => CompletionSound
  BY DEF CompletionInv
<1> QED
  BY <1>1, <1>2, CompletionStep, PTL DEF Spec

-----------------------------------------------------------------------------
(* The concurrency limit.  Slots are counted once for all the picks of a   *)
(* visit, so the invariant reserves a slot for each pick not yet begun.    *)

Running(r) == WithStatus(r, {"running"})

SlotsReserved ==
  tickPc = "begin" =>
    /\ \A t \in picked : RunOf[t] = cur
    /\ Cardinality(Running(cur)) + Cardinality(picked) <= Limit

ConcurrencyInv == TypeOK /\ ConcurrencyLimit /\ SlotsReserved

LEMMA FiniteTasks ==
  ASSUME NEW S \in SUBSET Tasks
  PROVE  IsFiniteSet(S) /\ Cardinality(S) \in Nat
BY FS_Subset, FS_CardinalityType, TaskServiceAssumptions

LEMMA RunningTasks == \A r : Running(r) \subseteq Tasks
BY DEF Running, WithStatus, TasksOf

\* Only the tick adds a running task; all other steps keep or drop some.
LEMMA NextRunning ==
  ASSUME TypeOK, [Next]_vars, \A t \in Tasks : ~TickBegin(t), NEW r \in Runs
  PROVE  Cardinality(Running(r)') <= Cardinality(Running(r))
<1>1. Running(r)' \subseteq Running(r)
  BY NextStatusStep DEF Running, WithStatus, TasksOf, StatusStep
<1> QED
  BY <1>1, RunningTasks, FiniteTasks, FS_Subset

\* The picks change only when they are made and when one of them begins.
LEMMA NextPicked ==
  ASSUME TypeOK, [Next]_vars, tickPc' = "begin", \A t \in Tasks : ~TickBegin(t),
         ~TickPick
  PROVE  tickPc = "begin" /\ cur' = cur /\ picked' = picked
<1> USE DEF runVars, taskVars, tickVars, execVars, retireVars, recVars
<1>1. CASE Tick
  BY <1>1 DEF Tick, TickStart, TickRun, TickDependency, TickDeadDagCheck,
              TickBlockRun, TickStartEventFails, TickProvisionFails, TickProvision,
              TickDispatch, TickDetect, TickComplete, TickEnd
<1>2. ASSUME NEW u \in Tasks, NEW a \in Attempts, Execution(u, a)
      PROVE  UNCHANGED tickVars
  BY <1>2 DEF Execution, SessionCreated, WorkerReturns, WorkerRejects, CommitFails,
              Settle, CloseExecution
<1>3. CASE Operator
  BY <1>3 DEF Operator, RunTransition, TaskRetry
<1>4. CASE Retirement
  BY <1>4 DEF Retirement, RetireStart, RetireStop, RetireCancel, RetireEnd
<1>5. CASE Restart
  BY <1>5 DEF Restart
<1>6. CASE Reconcile
  BY <1>6 DEF Reconcile, ReconcileRun, ReconcileStale, ReconcileEnd
<1>7. CASE UNCHANGED vars
  BY <1>7 DEF vars
<1> QED
  BY <1>1, <1>2, <1>3, <1>4, <1>5, <1>6, <1>7 DEF Next

LEMMA ConcurrencyStep == ConcurrencyInv /\ [Next]_vars => ConcurrencyInv'
<1> SUFFICES ASSUME ConcurrencyInv, [Next]_vars
             PROVE  ConcurrencyLimit' /\ SlotsReserved'
  BY NextType DEF ConcurrencyInv
<1> USE DEF ConcurrencyInv
<1>0. TypeOK' /\ Limit \in Nat
  BY NextType, TaskServiceAssumptions
<1>a. ASSUME NEW r
      PROVE  Cardinality(Running(r)) \in Nat /\ Cardinality(Running(r)') \in Nat
  <2>1. Running(r)' \subseteq Tasks
    BY DEF Running, WithStatus, TasksOf
  <2> QED
    BY <2>1, RunningTasks, FiniteTasks
<1>b. Cardinality(picked) \in Nat /\ Cardinality(picked') \in Nat
  BY <1>0, FiniteTasks DEF TypeOK, TickTypeOK
<1>c. ASSUME NEW c, c = cur' PROVE Running(cur)' = Running(c)'
  BY <1>c DEF Running, WithStatus, TasksOf
<1>1. ASSUME NEW t \in Tasks, TickBegin(t)
      PROVE  ConcurrencyLimit' /\ SlotsReserved'
  <2>1. PICK c \in Runs : cur = c /\ cur' = c
    BY <1>1 DEF TickBegin, TypeOK, TickTypeOK
  <2>2. /\ t \in picked /\ picked' = picked \ {t} /\ RunOf[t] = c
        /\ Cardinality(Running(c)) + Cardinality(picked) <= Limit
        /\ \A u \in picked' : RunOf[u] = c
    BY <1>1, <2>1 DEF TickBegin, SlotsReserved
  <2>3. \A u \in Tasks : u # t => status'[u] = status[u]
    BY <1>1 DEF TickBegin, taskVars, TypeOK, TasksTypeOK
  <2>4. Cardinality(Running(c)') <= Cardinality(Running(c)) + 1
    <3>1. Running(c)' \subseteq Running(c) \cup {t}
      BY <2>3 DEF Running, WithStatus, TasksOf
    <3>2. IsFiniteSet(Running(c))
      BY RunningTasks, FiniteTasks
    <3>3. /\ IsFiniteSet(Running(c) \cup {t})
          /\ Cardinality(Running(c) \cup {t}) <= Cardinality(Running(c)) + 1
      BY <1>a, <3>2, FS_AddElement
    <3>4. Cardinality(Running(c)') <= Cardinality(Running(c) \cup {t})
      BY <3>1, <3>3, FS_Subset
    <3>5. Cardinality(Running(c) \cup {t}) \in Nat
      BY <3>3, FS_CardinalityType
    <3> QED
      BY <1>a, <3>3, <3>4, <3>5
  <2>5. Cardinality(picked') = Cardinality(picked) - 1
    BY <2>2, FiniteTasks, FS_RemoveElement DEF TypeOK, TickTypeOK
  <2>6. Cardinality(Running(c)') + Cardinality(picked') <= Limit
    BY <1>0, <1>a, <1>b, <2>2, <2>4, <2>5
  <2>7. ASSUME NEW r \in Runs PROVE Cardinality(Running(r)') <= Limit
    <3>1. CASE r = c
      <4>1. Cardinality(Running(c)') <= Limit
        BY <1>0, <1>a, <1>b, <2>6
      <4> QED
        BY <3>1, <4>1
    <3>2. CASE r # c
      <4>1. Running(r)' = Running(r)
        BY <2>2, <2>3, <3>2 DEF Running, WithStatus, TasksOf
      <4> QED
        BY <4>1 DEF ConcurrencyLimit, Running
    <3> QED
      BY <3>1, <3>2
  <2>8. SlotsReserved'
    BY <1>c, <2>1, <2>2, <2>6 DEF SlotsReserved
  <2> QED
    BY <2>7, <2>8 DEF ConcurrencyLimit, Running
<1>2. ASSUME \A t \in Tasks : ~TickBegin(t)
      PROVE  ConcurrencyLimit' /\ SlotsReserved'
  <2>1. ASSUME NEW r \in Runs PROVE Cardinality(Running(r)') <= Cardinality(Running(r))
    BY <1>2, <2>1, NextRunning
  <2>2. ConcurrencyLimit'
    <3> SUFFICES ASSUME NEW r \in Runs PROVE Cardinality(Running(r)') <= Limit
      BY DEF ConcurrencyLimit, Running
    <3>1. Cardinality(Running(r)) <= Limit
      BY DEF ConcurrencyLimit, Running
    <3> QED
      BY <1>0, <1>a, <2>1, <3>1
  <2>3. ASSUME TickPick PROVE SlotsReserved'
    <3>1. PICK c \in Runs : cur = c /\ cur' = c
      BY <2>3 DEF TickPick, TypeOK, TickTypeOK
    <3>2. /\ \A t \in picked' : RunOf[t] = c
          /\ Cardinality(picked') <= FreeSlots(c)
      BY <2>3, <3>1 DEF TickPick, ReadyPicks, WithStatus, TasksOf
    <3>3. Cardinality(Running(c)) <= Limit
      BY DEF ConcurrencyLimit, Running
    <3>4. FreeSlots(c) \in Nat /\ Cardinality(Running(c)) + FreeSlots(c) = Limit
      BY <1>0, <1>a, <3>3 DEF FreeSlots, Running
    <3>5. Cardinality(Running(c)') + Cardinality(picked') <= Limit
      BY <1>0, <1>a, <1>b, <2>1, <3>2, <3>4
    <3> QED
      BY <1>c, <3>1, <3>2, <3>5 DEF SlotsReserved
  <2>4. ASSUME ~TickPick PROVE SlotsReserved'
    <3> SUFFICES ASSUME tickPc' = "begin"
                 PROVE  /\ \A t \in picked' : RunOf[t] = cur'
                        /\ Cardinality(Running(cur)') + Cardinality(picked') <= Limit
      BY DEF SlotsReserved
    <3>1. tickPc = "begin" /\ cur' = cur /\ picked' = picked
      BY <1>2, <2>4, NextPicked
    <3>2. PICK c \in Runs : cur = c /\ cur' = c
      BY <3>1 DEF TypeOK, TickTypeOK
    <3>3. Cardinality(Running(c)) + Cardinality(picked) <= Limit
      BY <3>1, <3>2 DEF SlotsReserved
    <3>4. Cardinality(Running(c)') + Cardinality(picked') <= Limit
      BY <1>0, <1>a, <1>b, <2>1, <3>1, <3>3
    <3> QED
      BY <1>c, <3>1, <3>2, <3>4 DEF SlotsReserved
  <2> QED
    BY <2>2, <2>3, <2>4
<1> QED
  BY <1>1, <1>2

\* The limit of every run holds in every interleaving, although the slots are
\* counted before the awaits that begin the picked tasks (tickOnce step 3).
THEOREM ConcurrencyLimitHolds == Spec => []ConcurrencyLimit
<1>1. Init => ConcurrencyInv
  <2> SUFFICES ASSUME Init PROVE ConcurrencyInv
    OBVIOUS
  <2>1. \A r \in Runs : Running(r) = {}
    BY DEF Init, Running, WithStatus, TasksOf
  <2>2. Cardinality({}) = 0 /\ Limit \in Nat
    BY FS_EmptySet, TaskServiceAssumptions
  <2>3. \A r \in Runs : Cardinality(Running(r)) <= Limit
    BY <2>1, <2>2
  <2> QED
    BY <2>3, InitType DEF Init, ConcurrencyInv, ConcurrencyLimit, SlotsReserved, Running
<1>2. ConcurrencyInv => ConcurrencyLimit
  BY DEF ConcurrencyInv
<1> QED
  BY <1>1, <1>2, ConcurrencyStep, PTL DEF Spec

-----------------------------------------------------------------------------
(***************************************************************************)
(* The executions: the attempts of a task, the controller on record for    *)
(* its worker, and what reconciliation may take for stale.  These theorems *)
(* hold as long as a restart finds at most one run to reconcile.           *)
(***************************************************************************)

(* The inductive invariant *)

\* With two live runs, ticks run while the second is being read, and a task
\* that has just begun is taken for stale: the theorems are about the rest.
OneRunToReconcile == \A r, s \in recTodo : r = s

\* An execution that may still settle its task.
Unsettled ==
  {"starting", "provisioned", "creating", "working", "commit", "retry", "final"}

Idle(t) == \A a \in Attempts : exec[t][a] \notin Unsettled

\* Whatever may settle a task is the execution of its current attempt.
OwnAttempt ==
  \A t \in Tasks, a \in Attempts :
    exec[t][a] \in Unsettled => attempt[t] = a /\ status[t] \in {"running", "canceled"}

\* An execution finds its own controller until its worker is done.
OnRecord ==
  \A t \in Tasks, a \in Attempts :
    exec[t][a] \in {"starting", "provisioned", "creating", "working"} => inFlight[t] = a

\* A task that can begin again has an attempt left; so has one whose execution
\* has decided to retry.
AttemptsLeft ==
  \A t \in Tasks :
    /\ attempt[t] <= AttemptBound
    /\ status[t] \in {"pending", "blocked"} => attempt[t] = 0
    /\ status[t] = "ready" => attempt[t] < AttemptBound
    /\ \A a \in Attempts : exec[t][a] = "retry" => a < MaxAttempts

\* A pick has no execution under way, and a dependency verdict is about a task
\* that has not begun.
PicksIdle == \A t \in picked : Idle(t)

DecisionsFresh ==
  \A t \in Tasks : decided[t] # "none" => status[t] \in {"pending", "blocked", "canceled"}

\* Runs are read before anything else runs, and before the operator is served.
BootFirst ==
  /\ recTodo # {} => recPc = "boot"
  /\ recPc = "boot" => tickPc = "idle" /\ \A t \in Tasks : exec[t] = NoExec
  /\ recPc # "idle" => \A r \in Runs : retirePc[r] \in {"none", "lost"}

\* What reconciliation holds for stale is stale until it gets there.
StaleHeld ==
  /\ \A t \in Tasks :
       recAgent[t] # 0 => /\ recPc = "tasks" /\ exec[t] = NoExec
                          /\ status[t] = "running" /\ attempt[t] = recAgent[t]
  /\ recTask \in Tasks => recAgent[recTask] # 0

AttemptInv ==
  /\ TypeOK
  /\ OwnAttempt /\ OnRecord /\ AttemptsLeft /\ PicksIdle /\ DecisionsFresh
  /\ BootFirst /\ StaleHeld

-----------------------------------------------------------------------------
(* Lemmas about the operators *)

LEMMA AttemptBoundType ==
  /\ AttemptBound \in Nat /\ AttemptBound >= 1
  /\ MaxAttempts <= AttemptBound /\ RetryBudget <= AttemptBound
BY TaskServiceAssumptions DEF AttemptBound

\* The probe keeps some of the candidates, the stale one it stops at among
\* them, or none.
LEMMA ProbeKeepsCandidates ==
  ASSUME NEW candidates \in [Tasks -> Nat], ProbeUpToStale(candidates)
  PROVE  /\ \A t \in Tasks : recAgent'[t] \in {0, candidates[t]}
         /\ recTask' \in Tasks => recAgent'[recTask'] # 0
         /\ recTask' = NoTask => \A t \in Tasks : recAgent'[t] = 0
<1> DEFINE held == {t \in Tasks : candidates[t] # 0}
           live == {t \in held : SessionAlive(t, candidates[t])}
<1>1. CASE held = live
  BY <1>1, TaskServiceAssumptions DEF ProbeUpToStale
<1>2. CASE held # live
  <2>1. PICK passed \in SUBSET live :
          recAgent' = [t \in Tasks |-> IF t \in passed THEN 0 ELSE candidates[t]]
    BY <1>2 DEF ProbeUpToStale
  <2>2. recTask' \in held \ live
    BY <1>2 DEF ProbeUpToStale
  <2> QED
    BY <2>1, <2>2, TaskServiceAssumptions
<1> QED
  BY <1>1, <1>2

\* An execution goes on: nothing but its program counter changes, and it does
\* not become one that has lost its controller.
LEMMA ExecutionMoves ==
  ASSUME AttemptInv, TypeOK', NEW t \in Tasks, NEW a \in Attempts, NEW to \in ExecPcs,
         exec[t][a] \in Unsettled, exec' = [exec EXCEPT ![t][a] = to],
         to \in {"starting", "provisioned", "creating", "working"} =>
           exec[t][a] \in {"starting", "provisioned", "creating", "working"},
         to = "retry" => a < MaxAttempts,
         UNCHANGED <<status, attempt, inFlight, decided, picked, tickPc, retireVars, recVars>>
  PROVE  AttemptInv'
<1> USE DEF AttemptInv, retireVars, recVars
<1>1. /\ exec'[t][a] = to
      /\ \A b \in Attempts : b # a => exec'[t][b] = exec[t][b]
      /\ \A u \in Tasks : u # t => exec'[u] = exec[u]
  BY DEF TypeOK, ExecutionsTypeOK
<1>2. ASSUME NEW u \in Tasks, NEW b \in Attempts, exec'[u][b] \in Unsettled
      PROVE  exec[u][b] \in Unsettled
  BY <1>1, <1>2
<1>3. exec[t] # NoExec
  BY DEF NoExec, Unsettled
<1>4. OwnAttempt'
  BY <1>2 DEF OwnAttempt
<1>5. OnRecord'
  BY <1>1 DEF OnRecord
<1>6. AttemptsLeft'
  BY <1>1 DEF AttemptsLeft
<1>7. PicksIdle' /\ DecisionsFresh'
  BY <1>2 DEF PicksIdle, DecisionsFresh, Idle, TypeOK, TickTypeOK
<1>8. BootFirst' /\ StaleHeld'
  BY <1>1, <1>3 DEF BootFirst, StaleHeld
<1> QED
  BY <1>4, <1>5, <1>6, <1>7, <1>8

\* An execution settles its task: it is the only one that could.
LEMMA ExecutionSettled ==
  ASSUME AttemptInv, TypeOK', NEW t \in Tasks, NEW a \in Attempts,
         NEW to \in {"none", "closing"},
         exec[t][a] \in Unsettled, exec' = [exec EXCEPT ![t][a] = to],
         \/ UNCHANGED status
         \/ /\ status[t] = "running" /\ \A u \in Tasks : u # t => status'[u] = status[u]
            /\ status'[t] \in {"ready", "failed", "succeeded"}
            /\ status'[t] = "ready" => attempt[t] < MaxAttempts,
         inFlight' = inFlight \/ ReleaseInFlight(t, a),
         UNCHANGED <<attempt, decided, picked, tickPc, retireVars, recVars>>
  PROVE  AttemptInv'
<1> USE DEF AttemptInv, retireVars, recVars
<1>1. /\ exec'[t][a] = to
      /\ \A b \in Attempts : b # a => exec'[t][b] = exec[t][b]
      /\ \A u \in Tasks : u # t => exec'[u] = exec[u] /\ status'[u] = status[u]
      /\ \A u \in Tasks : u # t => inFlight'[u] = inFlight[u]
  BY DEF TypeOK, ExecutionsTypeOK, ReleaseInFlight
<1>2. attempt[t] = a /\ status[t] \in {"running", "canceled"}
  BY DEF OwnAttempt
<1>3. Idle(t)'
  BY <1>1, <1>2 DEF OwnAttempt, Idle, Unsettled
<1>4. exec[t] # NoExec
  BY DEF NoExec, Unsettled
<1>5. OwnAttempt'
  BY <1>1, <1>3 DEF OwnAttempt, Idle
<1>6. OnRecord'
  BY <1>1, <1>3 DEF OnRecord, Idle, Unsettled
<1>7. AttemptsLeft'
  <2>1. attempt[t] \in Nat /\ MaxAttempts \in Nat
    BY TaskServiceAssumptions DEF TypeOK, TasksTypeOK
  <2> QED
    BY <1>1, <1>2, <2>1, AttemptBoundType DEF AttemptsLeft
<1>8. PicksIdle'
  BY <1>1, <1>3 DEF PicksIdle, Idle, TypeOK, TickTypeOK
<1>9. DecisionsFresh'
  BY <1>1, <1>2 DEF DecisionsFresh
<1>10. BootFirst' /\ StaleHeld'
  BY <1>1, <1>4 DEF BootFirst, StaleHeld
<1> QED
  BY <1>5, <1>6, <1>7, <1>8, <1>9, <1>10

\* An execution ends without settling its task.
LEMMA ExecutionDropped ==
  ASSUME AttemptInv, TypeOK', NEW t \in Tasks, NEW a \in Attempts,
         exec[t][a] \in Unsettled, exec' = [exec EXCEPT ![t][a] = "none"],
         inFlight' = inFlight \/ ReleaseInFlight(t, a),
         UNCHANGED <<status, attempt, decided, picked, tickPc, retireVars, recVars>>
  PROVE  AttemptInv'
BY ExecutionSettled

\* With no session alive, it keeps them all.
LEMMA ProbeKeepsStale ==
  ASSUME NEW candidates \in [Tasks -> Nat], ProbeUpToStale(candidates),
         \A t \in Tasks : ~SessionAlive(t, candidates[t])
  PROVE  \A t \in Tasks : recAgent'[t] = candidates[t]
<1> DEFINE held == {t \in Tasks : candidates[t] # 0}
           live == {t \in held : SessionAlive(t, candidates[t])}
<1>1. live = {}
  OBVIOUS
<1>2. CASE held = live
  BY <1>1, <1>2 DEF ProbeUpToStale
<1>3. CASE held # live
  <2>1. PICK passed \in SUBSET live :
          recAgent' = [t \in Tasks |-> IF t \in passed THEN 0 ELSE candidates[t]]
    BY <1>3 DEF ProbeUpToStale
  <2> QED
    BY <1>1, <2>1
<1> QED
  BY <1>2, <1>3

-----------------------------------------------------------------------------
(* The steps, one lemma per group of actions *)

LEMMA TickAttempts == AttemptInv /\ Tick => AttemptInv'
<1> SUFFICES ASSUME AttemptInv, Tick PROVE AttemptInv'
  OBVIOUS
<1> USE DEF AttemptInv, runVars, taskVars, tickVars, execVars, retireVars, recVars
<1>0. TypeOK'
  BY TickType
<1>a. UNCHANGED <<taskVars, execVars>> =>
        /\ OwnAttempt' /\ OnRecord' /\ AttemptsLeft'
        /\ picked' \subseteq picked => PicksIdle'
  BY DEF OwnAttempt, OnRecord, AttemptsLeft, PicksIdle, Idle
<1>b. UNCHANGED <<taskVars, execVars, recVars>> => StaleHeld'
  BY DEF StaleHeld
<1>c. UNCHANGED <<execVars, retireVars, recVars>> /\ tickPc # "idle" => BootFirst'
  BY DEF BootFirst
<1>1. CASE TickStart
  BY <1>1, <1>0, <1>a, <1>b DEF TickStart, PicksIdle, DecisionsFresh, BootFirst
<1>2. ASSUME NEW r \in Runs, TickRun(r) PROVE AttemptInv'
  <2>1. DecisionsFresh'
    BY <1>2 DEF TickRun, DecisionsFresh, DependencyTransition
  <2> QED
    BY <1>2, <2>1, <1>0, <1>a, <1>b, <1>c DEF TickRun, PicksIdle
<1>3. ASSUME NEW t \in Tasks, TickDependency(t) PROVE AttemptInv'
  <2>1. /\ status[t] \in {"pending", "blocked", "canceled"}
        /\ decided[t] \in {"ready", "blocked"}
    BY <1>3 DEF TickDependency, DecisionsFresh, TypeOK, TickTypeOK
  <2>2. \/ UNCHANGED status
        \/ /\ status[t] \in {"pending", "blocked"}
           /\ status' = [status EXCEPT ![t] = decided[t]]
    BY <1>3, <2>1 DEF TickDependency, CasTransition, TaskEdges
  <2>3. \A u \in Tasks : u # t => status'[u] = status[u]
    BY <2>2 DEF TypeOK, TasksTypeOK
  <2>4. OwnAttempt' /\ OnRecord'
    BY <1>3, <2>2, <2>3 DEF TickDependency, OwnAttempt, OnRecord, Unsettled
  <2>5. AttemptsLeft'
    BY <1>3, <2>1, <2>2, <2>3, AttemptBoundType
       DEF TickDependency, AttemptsLeft, TypeOK, TasksTypeOK
  <2>6. PicksIdle' /\ DecisionsFresh'
    BY <1>3, <2>2, <2>3
       DEF TickDependency, PicksIdle, Idle, DecisionsFresh, TypeOK, TickTypeOK, TasksTypeOK
  <2>7. StaleHeld'
    BY <1>3, <2>1, <2>3 DEF TickDependency, StaleHeld
  <2> QED
    BY <1>3, <2>4, <2>5, <2>6, <2>7, <1>0, <1>c DEF TickDependency
<1>4. CASE TickDeadDagCheck
  BY <1>4, <1>0, <1>a, <1>b, <1>c DEF TickDeadDagCheck, PicksIdle, DecisionsFresh
<1>5. CASE TickBlockRun
  BY <1>5, <1>0, <1>a, <1>b, <1>c DEF TickBlockRun, PicksIdle, DecisionsFresh
<1>6. CASE TickPick
  <2>1. \A t \in picked' : t \in Tasks /\ status[t] = "ready"
    BY <1>6 DEF TickPick, ReadyPicks, WithStatus, TasksOf
  <2>2. PicksIdle'
    BY <1>6, <2>1, <1>a DEF TickPick, PicksIdle, OwnAttempt, Idle
  <2> QED
    BY <1>6, <2>2, <1>0, <1>a, <1>b, <1>c DEF TickPick, DecisionsFresh
<1>7. ASSUME NEW t \in Tasks, TickBegin(t) PROVE AttemptInv'
  <2>0. Idle(t)
    BY <1>7 DEF TickBegin, PicksIdle
  <2>1. CASE status[t] # "ready"
    <3>1. UNCHANGED <<taskVars, exec, decided, retireVars, recVars, tickPc>>
      BY <1>7, <2>1 DEF TickBegin
    <3>2. \A u \in Tasks : u # t => inFlight'[u] = inFlight[u]
      BY <1>7, <2>1 DEF TickBegin, TypeOK, ExecutionsTypeOK
    <3>3. OwnAttempt' /\ OnRecord' /\ AttemptsLeft'
      BY <2>0, <3>1, <3>2 DEF OwnAttempt, OnRecord, AttemptsLeft, Idle, Unsettled
    <3>4. PicksIdle' /\ DecisionsFresh' /\ StaleHeld' /\ BootFirst'
      BY <1>7, <3>1
         DEF TickBegin, PicksIdle, Idle, DecisionsFresh, StaleHeld, BootFirst
    <3> QED
      BY <3>3, <3>4, <1>0
  <2>2. CASE status[t] = "ready"
    <3> DEFINE a == attempt[t] + 1
    <3>1. /\ a \in Attempts /\ a # 0
          /\ status' = [status EXCEPT ![t] = "running"]
          /\ attempt' = [attempt EXCEPT ![t] = a]
          /\ inFlight' = [inFlight EXCEPT ![t] = a]
          /\ exec' = [exec EXCEPT ![t][a] = "starting"]
          /\ picked' = picked \ {t}
          /\ UNCHANGED <<decided, tickPc, retireVars, recVars>>
      BY <1>7, <2>2, TaskServiceAssumptions
         DEF TickBegin, TypeOK, TasksTypeOK, Attempts
    <3>2. /\ status'[t] = "running" /\ attempt'[t] = a /\ inFlight'[t] = a
          /\ exec'[t][a] = "starting"
          /\ \A b \in Attempts : b # a => exec'[t][b] = exec[t][b]
          /\ \A u \in Tasks : u # t => /\ status'[u] = status[u] /\ attempt'[u] = attempt[u]
                                       /\ inFlight'[u] = inFlight[u] /\ exec'[u] = exec[u]
      BY <3>1 DEF TypeOK, TasksTypeOK, ExecutionsTypeOK
    <3>3. OwnAttempt'
      BY <2>0, <3>2 DEF OwnAttempt, Idle
    <3>4. OnRecord'
      BY <2>0, <3>2 DEF OnRecord, Idle, Unsettled
    <3>5. AttemptsLeft'
      <4>1. attempt[t] < AttemptBound /\ attempt[t] \in Nat
        BY <2>2 DEF AttemptsLeft, TypeOK, TasksTypeOK
      <4>2. a <= AttemptBound
        BY <4>1, AttemptBoundType
      <4> QED
        BY <3>2, <4>2 DEF AttemptsLeft
    <3>6. PicksIdle' /\ DecisionsFresh'
      BY <2>2, <3>1, <3>2 DEF PicksIdle, DecisionsFresh, Idle, TypeOK, TickTypeOK
    <3>7. recAgent[t] = 0
      BY <2>2 DEF StaleHeld
    <3>8. StaleHeld'
      BY <3>1, <3>2, <3>7 DEF StaleHeld
    <3>9. BootFirst'
      BY <1>7, <3>1 DEF TickBegin, BootFirst
    <3> QED
      BY <3>3, <3>4, <3>5, <3>6, <3>8, <3>9, <1>0
  <2> QED
    BY <2>1, <2>2
<1>8. ASSUME NEW t \in Tasks, TickStartEventFails(t) PROVE AttemptInv'
  <2>1. PICK a \in Attempts : /\ exec[t][a] = "starting" /\ exec[t][a] \in Unsettled
                              /\ exec' = [exec EXCEPT ![t][a] = "none"]
                              /\ ReleaseInFlight(t, a)
    BY <1>8 DEF TickStartEventFails, Unsettled
  <2> QED
    BY <1>8, <2>1, <1>0, ExecutionDropped DEF TickStartEventFails
<1>9. ASSUME NEW t \in Tasks, TickProvisionFails(t) PROVE AttemptInv'
  <2>1. PICK a \in Attempts : /\ exec[t][a] = "starting" /\ exec[t][a] \in Unsettled
                              /\ exec' = [exec EXCEPT ![t][a] = "none"]
                              /\ ReleaseInFlight(t, a)
    BY <1>9 DEF TickProvisionFails, Unsettled
  <2>2. status' \in [Tasks -> TaskStatuses]
    BY <1>0 DEF TypeOK, TasksTypeOK
  <2>3. \/ UNCHANGED status
        \/ /\ status[t] = "running" /\ \A u \in Tasks : u # t => status'[u] = status[u]
           /\ status'[t] \in {"ready", "failed"}
           /\ status'[t] = "ready" => attempt[t] < MaxAttempts
    BY <1>9 DEF TickProvisionFails, CasTransition, FailureOutcome, TypeOK, TasksTypeOK
  <2> QED
    BY <1>9, <2>1, <2>3, <1>0, ExecutionSettled DEF TickProvisionFails
<1>10. ASSUME NEW t \in Tasks, TickProvision(t) PROVE AttemptInv'
  <2>1. PICK a \in Attempts :
          /\ exec[t][a] = "starting" /\ exec[t][a] \in Unsettled
          /\ \/ /\ exec' = [exec EXCEPT ![t][a] = "provisioned"]
                /\ UNCHANGED inFlight
             \/ /\ exec' = [exec EXCEPT ![t][a] = "none"]
                /\ ReleaseInFlight(t, a)
    BY <1>10 DEF TickProvision, Unsettled
  <2>2. CASE exec' = [exec EXCEPT ![t][a] = "provisioned"] /\ UNCHANGED inFlight
    BY <1>10, <2>1, <2>2, <1>0, ExecutionMoves DEF TickProvision, Unsettled, ExecPcs
  <2>3. CASE exec' = [exec EXCEPT ![t][a] = "none"] /\ ReleaseInFlight(t, a)
    BY <1>10, <2>1, <2>3, <1>0, ExecutionDropped DEF TickProvision
  <2> QED
    BY <2>1, <2>2, <2>3
<1>11. ASSUME NEW t \in Tasks, TickDispatch(t) PROVE AttemptInv'
  <2>1. PICK a \in Attempts :
          /\ exec[t][a] = "provisioned"
          /\ exec' = [exec EXCEPT ![t][a] = IF inFlight[t] = 0 THEN "none" ELSE "creating"]
    BY <1>11 DEF TickDispatch
  <2>2. inFlight[t] # 0
    BY <2>1 DEF OnRecord, Attempts
  <2> QED
    BY <1>11, <2>1, <2>2, <1>0, ExecutionMoves DEF TickDispatch, Unsettled, ExecPcs
<1>12. CASE TickDetect
  BY <1>12, <1>0, <1>a, <1>b, <1>c DEF TickDetect, DecisionsFresh
<1>13. CASE TickComplete
  BY <1>13, <1>0, <1>a, <1>b, <1>c DEF TickComplete, DecisionsFresh
<1>14. CASE TickEnd
  BY <1>14, <1>0, <1>a, <1>b, <1>c DEF TickEnd, DecisionsFresh
<1> QED
  BY <1>1, <1>2, <1>3, <1>4, <1>5, <1>6, <1>7, <1>8, <1>9, <1>10, <1>11,
     <1>12, <1>13, <1>14 DEF Tick

LEMMA ExecutionAttempts ==
  ASSUME AttemptInv, NEW t \in Tasks, NEW a \in Attempts, Execution(t, a)
  PROVE  AttemptInv'
<1> USE DEF runVars, taskVars, tickVars, execVars, retireVars, recVars
<1>0. TypeOK /\ TypeOK'
  BY ExecutionType DEF AttemptInv
<1>a. /\ {"creating", "working", "commit", "retry", "final"} \subseteq Unsettled
      /\ {"none", "working", "commit", "retry", "final", "closing"} \subseteq ExecPcs
  BY DEF Unsettled, ExecPcs
<1>b. exec[t][a] \in Unsettled => attempt[t] = a
  BY DEF AttemptInv, OwnAttempt
<1>c. FailureOutcome(t) \in {"retry", "final"}
      /\ (FailureOutcome(t) = "retry" /\ attempt[t] = a => a < MaxAttempts)
  BY DEF FailureOutcome
<1>1. CASE SessionCreated(t, a)
  BY <1>1, <1>0, <1>a, ExecutionMoves DEF SessionCreated, ExecStep
<1>2. ASSUME NEW from \in {"creating", "working"}, NEW result, WorkerReturns(t, a, from, result)
      PROVE  AttemptInv'
  <2>1. PICK to \in {"closing", "commit", "retry", "final"} :
          /\ exec[t][a] \in Unsettled
          /\ exec' = [exec EXCEPT ![t][a] = to]
          /\ to = "retry" => a < MaxAttempts
          /\ UNCHANGED <<status, attempt, inFlight, decided, picked, tickPc, retireVars, recVars>>
    BY <1>2, <1>a, <1>b, <1>c DEF WorkerReturns, ExecStep
  <2> QED
    BY <2>1, <1>0, <1>a, ExecutionMoves
<1>3. ASSUME NEW from \in {"creating", "working"}, WorkerRejects(t, a, from)
      PROVE  AttemptInv'
  BY <1>3, <1>0, <1>a, ExecutionMoves DEF WorkerRejects, ExecStep
<1>4. CASE CommitFails(t, a)
  <2>1. PICK to \in {"closing", "retry", "final"} :
          /\ exec[t][a] \in Unsettled
          /\ exec' = [exec EXCEPT ![t][a] = to]
          /\ to = "retry" => a < MaxAttempts
          /\ UNCHANGED <<status, attempt, inFlight, decided, picked, tickPc, retireVars, recVars>>
    BY <1>4, <1>a, <1>b, <1>c DEF CommitFails, ExecStep
  <2> QED
    BY <2>1, <1>0, <1>a, ExecutionMoves
<1>5. CASE Settle(t, a)
  <2>1. /\ exec[t][a] \in Unsettled
        /\ exec' = [exec EXCEPT ![t][a] = "closing"]
        /\ UNCHANGED <<attempt, inFlight, decided, picked, tickPc, retireVars, recVars>>
    BY <1>5, <1>a DEF Settle, ExecStep
  <2>2. exec[t][a] = "retry" => attempt[t] < MaxAttempts
    BY <1>a, <1>b DEF AttemptInv, AttemptsLeft
  <2>3. \/ UNCHANGED status
        \/ /\ status[t] = "running" /\ \A u \in Tasks : u # t => status'[u] = status[u]
           /\ status'[t] \in {"ready", "failed", "succeeded"}
           /\ status'[t] = "ready" => attempt[t] < MaxAttempts
    BY <1>5, <1>0, <2>2 DEF Settle, ExecStep, CasTransition, TypeOK, TasksTypeOK
  <2> QED
    BY <2>1, <2>3, <1>0, ExecutionSettled
<1>6. CASE CloseExecution(t, a)
  <2>1. /\ exec'[t][a] = "none" /\ exec[t][a] = "closing"
        /\ \A b \in Attempts : b # a => exec'[t][b] = exec[t][b]
        /\ \A u \in Tasks : u # t => exec'[u] = exec[u] /\ inFlight'[u] = inFlight[u]
        /\ inFlight'[t] = IF inFlight[t] = a THEN 0 ELSE inFlight[t]
        /\ UNCHANGED <<status, attempt, decided, picked, tickPc, retireVars, recVars>>
    BY <1>6, <1>0
       DEF CloseExecution, ExecStep, ReleaseInFlight, TypeOK, ExecutionsTypeOK
  <2>2. exec[t] # NoExec
    BY <2>1 DEF NoExec
  <2>3. OwnAttempt' /\ OnRecord' /\ AttemptsLeft'
    BY <2>1 DEF AttemptInv, OwnAttempt, OnRecord, AttemptsLeft, Unsettled
  <2>4. PicksIdle' /\ DecisionsFresh'
    BY <2>1, <1>0
       DEF AttemptInv, PicksIdle, DecisionsFresh, Idle, Unsettled, TypeOK, TickTypeOK
  <2>5. BootFirst' /\ StaleHeld'
    BY <2>1, <2>2 DEF AttemptInv, BootFirst, StaleHeld
  <2> QED
    BY <2>3, <2>4, <2>5, <1>0 DEF AttemptInv
<1> QED
  BY <1>1, <1>2, <1>3, <1>4, <1>5, <1>6 DEF Execution

LEMMA OperatorAttempts == AttemptInv /\ Operator => AttemptInv'
<1> SUFFICES ASSUME AttemptInv, Operator PROVE AttemptInv'
  OBVIOUS
<1> USE DEF AttemptInv, runVars, taskVars, tickVars, execVars, retireVars, recVars
<1>0. TypeOK'
  BY OperatorType
<1>1. ASSUME NEW r \in Runs, NEW to \in Phases, RunTransition(r, to) PROVE AttemptInv'
  <2>1. OwnAttempt' /\ OnRecord' /\ AttemptsLeft' /\ PicksIdle' /\ DecisionsFresh'
    BY <1>1
       DEF RunTransition, OwnAttempt, OnRecord, AttemptsLeft, PicksIdle, DecisionsFresh, Idle
  <2>2. BootFirst' /\ StaleHeld'
    BY <1>1 DEF RunTransition, BootFirst, StaleHeld
  <2> QED
    BY <2>1, <2>2, <1>0
<1>2. ASSUME NEW t \in Tasks, TaskRetry(t) PROVE AttemptInv'
  <2>1. /\ status[t] = "failed" /\ attempt[t] < RetryBudget
        /\ status'[t] = "ready" /\ \A u \in Tasks : u # t => status'[u] = status[u]
        /\ UNCHANGED <<attempt, tickVars, execVars, retireVars, recVars>>
    BY <1>2 DEF TaskRetry, CasTransition, TaskEdges, TypeOK, TasksTypeOK
  <2>2. Idle(t)
    BY <2>1 DEF OwnAttempt, Idle
  <2>3. OwnAttempt' /\ OnRecord'
    BY <2>1, <2>2 DEF OwnAttempt, OnRecord, Idle
  <2>4. AttemptsLeft'
    <3>1. attempt[t] \in Nat /\ RetryBudget \in Nat
      BY TaskServiceAssumptions DEF TypeOK, TasksTypeOK
    <3> QED
      BY <2>1, <3>1, AttemptBoundType DEF AttemptsLeft
  <2>5. PicksIdle' /\ DecisionsFresh'
    BY <2>1 DEF PicksIdle, DecisionsFresh, Idle
  <2>6. BootFirst' /\ StaleHeld'
    BY <2>1 DEF BootFirst, StaleHeld
  <2> QED
    BY <2>3, <2>4, <2>5, <2>6, <1>0
<1> QED
  BY <1>1, <1>2 DEF Operator

LEMMA RetirementAttempts == AttemptInv /\ Retirement => AttemptInv'
<1> SUFFICES ASSUME AttemptInv, Retirement PROVE AttemptInv'
  OBVIOUS
<1> USE DEF AttemptInv, runVars, taskVars, tickVars, execVars, retireVars, recVars
<1>0. TypeOK'
  BY RetirementType
<1>1. ASSUME UNCHANGED <<taskVars, tickVars, inFlight, exec, recVars>>,
             \A r \in Runs : retirePc[r] \in {"none", "lost"} => retirePc'[r] = retirePc[r]
      PROVE  AttemptInv'
  <2>1. OwnAttempt' /\ OnRecord' /\ AttemptsLeft' /\ PicksIdle' /\ DecisionsFresh'
    BY <1>1 DEF OwnAttempt, OnRecord, AttemptsLeft, PicksIdle, DecisionsFresh, Idle
  <2>2. BootFirst' /\ StaleHeld'
    BY <1>1 DEF BootFirst, StaleHeld
  <2> QED
    BY <2>1, <2>2, <1>0
<1>2. ASSUME NEW r \in Runs, RetireStart(r) PROVE AttemptInv'
  BY <1>1, <1>2 DEF RetireStart, TypeOK, RetirementTypeOK
<1>3. ASSUME NEW r \in Runs, RetireEnd(r) PROVE AttemptInv'
  BY <1>1, <1>3 DEF RetireEnd, TypeOK, RetirementTypeOK
<1>4. ASSUME NEW t \in Tasks, RetireStop(t) PROVE AttemptInv'
  BY <1>1, <1>4 DEF RetireStop
<1>5. ASSUME NEW t \in Tasks, RetireCancel(t) PROVE AttemptInv'
  <2>1. /\ retirePc[RunOf[t]] = "loop" /\ RunOf[t] \in Runs
        /\ status'[t] \in {status[t], "canceled"}
        /\ \A u \in Tasks : u # t => status'[u] = status[u]
        /\ UNCHANGED <<attempt, tickVars, execVars, retirePc, recVars>>
    BY <1>5, TaskServiceAssumptions
       DEF RetireCancel, RetiresNext, CasTransition, TypeOK, TasksTypeOK
  <2>2. OwnAttempt' /\ OnRecord' /\ AttemptsLeft'
    BY <2>1 DEF OwnAttempt, OnRecord, AttemptsLeft
  <2>3. PicksIdle' /\ DecisionsFresh'
    BY <2>1 DEF PicksIdle, DecisionsFresh, Idle
  <2>4. recPc = "idle"
    BY <2>1 DEF BootFirst
  <2>5. BootFirst' /\ StaleHeld'
    BY <2>1, <2>4 DEF BootFirst, StaleHeld
  <2> QED
    BY <2>2, <2>3, <2>5, <1>0
<1> QED
  BY <1>2, <1>3, <1>4, <1>5 DEF Retirement

LEMMA RestartAttempts == AttemptInv /\ Restart => AttemptInv'
<1> SUFFICES ASSUME AttemptInv, Restart PROVE AttemptInv'
  OBVIOUS
<1> USE DEF AttemptInv, taskVars
<1>0. TypeOK'
  BY RestartType
<1>1. \A t \in Tasks : exec'[t] = NoExec
  BY DEF Restart
<1>2. OwnAttempt' /\ OnRecord' /\ AttemptsLeft'
  BY <1>1 DEF Restart, OwnAttempt, OnRecord, AttemptsLeft, NoExec, Unsettled
<1>3. PicksIdle' /\ DecisionsFresh'
  BY DEF Restart, PicksIdle, DecisionsFresh
<1>4. BootFirst' /\ StaleHeld'
  BY <1>1, TaskServiceAssumptions DEF Restart, BootFirst, StaleHeld
<1> QED
  BY <1>0, <1>2, <1>3, <1>4

\* The step that needs OneRunToReconcile: with a second run to visit, this one
\* would be read while ticks begin its tasks.
LEMMA ReconcileAttempts == AttemptInv /\ OneRunToReconcile /\ Reconcile => AttemptInv'
<1> SUFFICES ASSUME AttemptInv, OneRunToReconcile, Reconcile PROVE AttemptInv'
  OBVIOUS
<1> USE DEF AttemptInv, runVars, taskVars, tickVars, execVars, retireVars, recVars
<1>0. TypeOK'
  BY ReconcileType
<1>1. ASSUME NEW r \in Runs, ReconcileRun(r) PROVE AttemptInv'
  <2> DEFINE read == [t \in Tasks |-> IF RunOf[t] = r /\ status[t] = "running"
                                      THEN attempt[t] ELSE 0]
  <2>1. /\ recPc = "boot" /\ recTodo' = {} /\ ProbeUpToStale(read)
        /\ recPc' = IF recTask' = NoTask THEN recPc ELSE "tasks"
        /\ UNCHANGED <<runVars, taskVars, tickVars, execVars, retireVars>>
    BY <1>1 DEF ReconcileRun, BootFirst, OneRunToReconcile
  <2>2. \A t \in Tasks : exec[t] = NoExec
    BY <2>1 DEF BootFirst
  <2>3. read \in [Tasks -> Nat]
    BY DEF TypeOK, TasksTypeOK
  <2>4. /\ \A t \in Tasks : recAgent'[t] \in {0, read[t]}
        /\ recTask' \in Tasks => recAgent'[recTask'] # 0
        /\ recTask' = NoTask => \A t \in Tasks : recAgent'[t] = 0
    BY <2>1, <2>3, ProbeKeepsCandidates
  <2>5. StaleHeld'
    BY <2>1, <2>2, <2>4 DEF StaleHeld
  <2>6. BootFirst'
    BY <2>1 DEF BootFirst
  <2>7. OwnAttempt' /\ OnRecord' /\ AttemptsLeft' /\ PicksIdle' /\ DecisionsFresh'
    BY <2>1 DEF OwnAttempt, OnRecord, AttemptsLeft, PicksIdle, DecisionsFresh, Idle
  <2> QED
    BY <2>5, <2>6, <2>7, <1>0
<1>2. ASSUME NEW t \in Tasks, ReconcileStale(t) PROVE AttemptInv'
  <2> DEFINE left == [recAgent EXCEPT ![t] = 0]
  <2>1. left \in [Tasks -> Nat]
    BY DEF TypeOK, ReconcileTypeOK
  <2>2. /\ recPc = "tasks" /\ exec[t] = NoExec
        /\ status[t] = "running" /\ attempt[t] = recAgent[t]
    BY <1>2 DEF ReconcileStale, StaleHeld
  <2>3. /\ status'[t] \in {"ready", "failed"}
        /\ status'[t] = "ready" => attempt[t] < MaxAttempts
        /\ \A u \in Tasks : u # t => status'[u] = status[u]
    BY <1>2, <2>2 DEF ReconcileStale, CasTransition, TaskEdges, TypeOK, TasksTypeOK
  <2>4. /\ ProbeUpToStale(left)
        /\ recPc' = IF recTask' = NoTask THEN "runs" ELSE "tasks"
        /\ UNCHANGED <<attempt, recTodo, runVars, tickVars, execVars, retireVars>>
    BY <1>2 DEF ReconcileStale
  <2>5. /\ \A u \in Tasks : recAgent'[u] \in {0, left[u]}
        /\ recTask' \in Tasks => recAgent'[recTask'] # 0
        /\ recTask' = NoTask => \A u \in Tasks : recAgent'[u] = 0
    BY <2>1, <2>4, ProbeKeepsCandidates
  <2>6. recAgent'[t] = 0 /\ \A u \in Tasks : recAgent'[u] \in {0, recAgent[u]}
    BY <2>5 DEF TypeOK, ReconcileTypeOK
  <2>7. StaleHeld'
    BY <2>2, <2>3, <2>4, <2>5, <2>6 DEF StaleHeld
  <2>8. BootFirst'
    BY <2>2, <2>4 DEF BootFirst
  <2>9. OwnAttempt' /\ OnRecord'
    BY <2>2, <2>3, <2>4 DEF OwnAttempt, OnRecord, NoExec, Unsettled
  <2>10. AttemptsLeft'
    <3>1. attempt[t] \in Nat /\ MaxAttempts \in Nat
      BY TaskServiceAssumptions DEF TypeOK, TasksTypeOK
    <3> QED
      BY <2>3, <2>4, <3>1, AttemptBoundType DEF AttemptsLeft
  <2>11. PicksIdle' /\ DecisionsFresh'
    BY <2>2, <2>3, <2>4 DEF PicksIdle, DecisionsFresh, Idle
  <2> QED
    BY <2>7, <2>8, <2>9, <2>10, <2>11, <1>0
<1>3. CASE ReconcileEnd
  <2>1. OwnAttempt' /\ OnRecord' /\ AttemptsLeft' /\ PicksIdle' /\ DecisionsFresh'
    BY <1>3
       DEF ReconcileEnd, OwnAttempt, OnRecord, AttemptsLeft, PicksIdle, DecisionsFresh, Idle
  <2>2. BootFirst' /\ StaleHeld'
    BY <1>3 DEF ReconcileEnd, BootFirst, StaleHeld
  <2> QED
    BY <2>1, <2>2, <1>0
<1> QED
  BY <1>1, <1>2, <1>3 DEF Reconcile

LEMMA AttemptStep == AttemptInv /\ OneRunToReconcile /\ [Next]_vars => AttemptInv'
<1> SUFFICES ASSUME AttemptInv, OneRunToReconcile, [Next]_vars PROVE AttemptInv'
  OBVIOUS
<1>1. CASE UNCHANGED vars
  <2>1. TypeOK'
    BY NextType DEF AttemptInv
  <2> QED
    BY <1>1, <2>1
       DEF AttemptInv, vars, taskVars, tickVars, execVars, retireVars, recVars, OwnAttempt,
           OnRecord, AttemptsLeft, PicksIdle, DecisionsFresh, Idle, BootFirst, StaleHeld
<1> QED
  BY <1>1, TickAttempts, ExecutionAttempts, OperatorAttempts, RetirementAttempts,
     RestartAttempts, ReconcileAttempts DEF Next

LEMMA InitAttempts == Init => AttemptInv
<1> SUFFICES ASSUME Init PROVE AttemptInv
  OBVIOUS
<1>1. \A t \in Tasks : exec[t] = NoExec
  BY DEF Init
<1>2. OwnAttempt /\ OnRecord
  BY <1>1 DEF OwnAttempt, OnRecord, NoExec, Unsettled
<1>3. AttemptsLeft
  BY <1>1, AttemptBoundType DEF Init, AttemptsLeft, NoExec
<1>4. PicksIdle /\ DecisionsFresh /\ BootFirst /\ StaleHeld
  BY TaskServiceAssumptions DEF Init, PicksIdle, DecisionsFresh, BootFirst, StaleHeld
<1> QED
  BY <1>2, <1>3, <1>4, InitType DEF AttemptInv

-----------------------------------------------------------------------------
(* The theorems *)

LEMMA AttemptsHold == Spec /\ []OneRunToReconcile => []AttemptInv
BY InitAttempts, AttemptStep, PTL DEF Spec

\* No sequence of failures, operator retries and restarts spends more attempts
\* than the budgets allow, no worktree ever has two writers, and stop() reaches
\* every worker, whatever interleaves (executeTask, settleResult,
\* reconcileStaleTask, taskRetry).
THEOREM ExecutionInvHolds == Spec /\ []OneRunToReconcile => []ExecutionInv
<1>1. AttemptInv => ExecutionInv
  <2> SUFFICES ASSUME AttemptInv PROVE ExecutionInv
    OBVIOUS
  <2>1. AttemptBudget
    BY DEF AttemptInv, AttemptsLeft, AttemptBudget
  <2>2. SingleWriter
    BY DEF AttemptInv, OwnAttempt, SingleWriter, Unsettled
  <2>3. WorkerAbortable
    BY DEF AttemptInv, OnRecord, WorkerAbortable
  <2> QED
    BY <2>1, <2>2, <2>3 DEF ExecutionInv
<1> QED
  BY <1>1, AttemptsHold, PTL

\* A result settles its task only on behalf of the attempt the task is running,
\* although the compare-and-set looks at the status alone (casTaskTransition).
THEOREM OwnAttemptSettlesHolds == Spec /\ []OneRunToReconcile => OwnAttemptSettles
<1> DEFINE A == \A t \in Tasks, a \in Attempts :
                  /\ exec[t][a] \in {"commit", "retry", "final"}
                  /\ exec'[t][a] = "closing"
                  /\ status'[t] # status[t]
                  => attempt[t] = a
<1>1. AttemptInv => A
  BY DEF AttemptInv, OwnAttempt, Unsettled
<1>2. AttemptInv /\ [Next]_vars => [A]_vars
  BY <1>1
<1> QED
  BY <1>2, AttemptsHold, PTL DEF Spec, OwnAttemptSettles

-----------------------------------------------------------------------------
(* Running tasks are served.  Without faults every running task of a live  *)
(* run has an execution that can settle it, or reconciliation will come to *)
(* it.                                                                     *)

ServedTask(t) ==
  \/ attempt[t] \in Attempts /\ exec[t][attempt[t]] \in Unsettled
  \/ recPc = "boot" /\ RunOf[t] \in recTodo
  \/ recAgent[t] # 0

Served ==
  \A t \in Tasks : status[t] = "running" =>
    /\ attempt[t] # 0
    /\ phase[RunOf[t]] \notin TerminalPhases => ServedTask(t)

ServedInv == AttemptInv /\ Served

\* No edge leaves a terminal phase.
LEMMA TerminalRunStays ==
  ASSUME NEW r \in Runs, NEW s \in Runs, NEW to, TypeOK,
         TransitionRun(r, to) \/ UNCHANGED phase, phase'[s] \notin TerminalPhases
  PROVE  phase[s] \notin TerminalPhases
<1>1. phase[r] \in TerminalPhases => ~CanMove(phase[r], suspendedFrom[r], to)
  BY DEF CanMove, RunEdges, TerminalPhases, SuspendedPhases
<1> QED
  BY <1>1 DEF TransitionRun, runVars, TypeOK, RunsTypeOK

\* A step that begins nothing and leaves the executions and reconciliation alone.
LEMMA ServedStays ==
  ASSUME ServedInv, \A t \in Tasks : status'[t] = "running" => status[t] = "running",
         \A s \in Runs : phase'[s] \notin TerminalPhases => phase[s] \notin TerminalPhases,
         UNCHANGED <<attempt, exec, recVars>>
  PROVE  Served'
BY TaskServiceAssumptions DEF ServedInv, Served, ServedTask, recVars

\* A step of one execution, which lets go of its task only when that is settled.
LEMMA ServedByExecution ==
  ASSUME ServedInv, NEW t \in Tasks, NEW a \in Attempts, NEW to,
         exec' = [exec EXCEPT ![t][a] = to],
         status'[t] = "running" => to \in Unsettled \/ attempt[t] # a,
         \A u \in Tasks : status'[u] = "running" => status[u] = "running",
         UNCHANGED <<phase, attempt, recVars>>
  PROVE  Served'
<1>1. /\ exec'[t][a] = to
      /\ \A b \in Attempts : b # a => exec'[t][b] = exec[t][b]
      /\ \A u \in Tasks : u # t => exec'[u] = exec[u]
  BY DEF ServedInv, AttemptInv, TypeOK, ExecutionsTypeOK
<1> SUFFICES ASSUME NEW u \in Tasks, status'[u] = "running"
             PROVE  /\ attempt'[u] # 0
                    /\ phase'[RunOf[u]] \notin TerminalPhases => ServedTask(u)'
  BY DEF Served
<1>2. status[u] = "running" /\ attempt'[u] = attempt[u] /\ attempt[u] # 0
  BY DEF ServedInv, Served
<1>3. ASSUME phase[RunOf[u]] \notin TerminalPhases PROVE ServedTask(u)'
  <2>1. ServedTask(u)
    BY <1>2, <1>3 DEF ServedInv, Served
  <2> QED
    BY <1>1, <1>2, <2>1 DEF ServedTask, recVars
<1> QED
  BY <1>2, <1>3

LEMMA TickServed == ~Faults /\ ServedInv /\ Tick => Served'
<1> SUFFICES ASSUME ~Faults, ServedInv, Tick PROVE Served'
  OBVIOUS
<1> USE DEF runVars, taskVars, tickVars, execVars
<1>0. AttemptInv /\ TypeOK
  BY DEF ServedInv, AttemptInv
<1>1. ASSUME UNCHANGED <<taskVars, execVars, recVars>>,
             UNCHANGED phase \/ \E r \in Runs, to \in Phases : TransitionRun(r, to)
      PROVE  Served'
  BY <1>0, <1>1, TerminalRunStays, ServedStays
<1>2. ASSUME NEW t \in Tasks, TickDependency(t) PROVE Served'
  <2>1. \A u \in Tasks : status'[u] = "running" => status[u] = "running"
    BY <1>0, <1>2 DEF TickDependency, CasTransition, TypeOK, TasksTypeOK, TickTypeOK
  <2> QED
    BY <1>2, <2>1, ServedStays DEF TickDependency
<1>3. CASE TickBlockRun
  BY <1>0, <1>1, <1>3 DEF TickBlockRun, TypeOK, TickTypeOK, Phases, SuspendedPhases
<1>4. ASSUME NEW t \in Tasks, TickBegin(t) PROVE Served'
  <2>1. CASE status[t] # "ready"
    BY <1>4, <2>1, ServedStays DEF TickBegin
  <2>2. CASE status[t] = "ready"
    <3>1. attempt[t] + 1 \in Attempts /\ attempt[t] + 1 # 0
      BY <1>0, <1>4, TaskServiceAssumptions DEF TickBegin, TypeOK, TasksTypeOK, Attempts
    <3>2. /\ attempt'[t] = attempt[t] + 1 /\ exec'[t][attempt[t] + 1] = "starting"
          /\ \A u \in Tasks : u # t => /\ status'[u] = status[u] /\ attempt'[u] = attempt[u]
                                       /\ exec'[u] = exec[u]
          /\ UNCHANGED <<phase, recVars>>
      BY <1>0, <1>4, <2>2, <3>1
         DEF TickBegin, TypeOK, TasksTypeOK, ExecutionsTypeOK
    <3> QED
      BY <3>1, <3>2 DEF ServedInv, Served, ServedTask, Unsettled, recVars
  <2> QED
    BY <2>1, <2>2
<1>5. ASSUME NEW t \in Tasks, TickProvisionFails(t) PROVE Served'
  <2>1. PICK a \in Attempts : /\ exec[t][a] = "starting"
                              /\ exec' = [exec EXCEPT ![t][a] = "none"]
    BY <1>5 DEF TickProvisionFails
  <2>2. /\ status'[t] # "running"
        /\ \A u \in Tasks : status'[u] = "running" => status[u] = "running"
    BY <1>0, <1>5
       DEF TickProvisionFails, CasTransition, TaskEdges, FailureOutcome, TypeOK, TasksTypeOK
  <2> QED
    BY <1>5, <2>1, <2>2, ServedByExecution DEF TickProvisionFails
<1>6. ASSUME NEW t \in Tasks, TickProvision(t) PROVE Served'
  <2>1. PICK a \in Attempts :
          /\ exec[t][a] = "starting"
          /\ IF Git => (status[t] = "running" /\ attempt[t] = a)
             THEN exec' = [exec EXCEPT ![t][a] = "provisioned"]
             ELSE exec' = [exec EXCEPT ![t][a] = "none"]
    BY <1>6 DEF TickProvision
  <2>2. attempt[t] = a
    BY <1>0, <2>1 DEF AttemptInv, OwnAttempt, Unsettled
  <2> QED
    BY <1>6, <2>1, <2>2, ServedByExecution DEF TickProvision, Unsettled
<1>7. ASSUME NEW t \in Tasks, TickDispatch(t) PROVE Served'
  <2>1. PICK a \in Attempts :
          /\ exec[t][a] = "provisioned"
          /\ exec' = [exec EXCEPT ![t][a] = IF inFlight[t] = 0 THEN "none" ELSE "creating"]
    BY <1>7 DEF TickDispatch
  <2>2. inFlight[t] # 0
    BY <1>0, <2>1 DEF AttemptInv, OnRecord, Attempts
  <2> QED
    BY <1>7, <2>1, <2>2, ServedByExecution DEF TickDispatch, Unsettled
<1>8. CASE TickComplete
  <2>1. CompletionPhase \in Phases
    BY TaskServiceAssumptions DEF Phases, ActivePhases
  <2> QED
    BY <1>0, <1>1, <1>8, <2>1 DEF TickComplete, TypeOK, TickTypeOK
<1> QED
  BY <1>1, <1>2, <1>3, <1>4, <1>5, <1>6, <1>7, <1>8
     DEF Tick, TickStart, TickRun, TickDeadDagCheck, TickPick, TickStartEventFails,
         TickDetect, TickEnd

LEMMA ExecutionServed ==
  ASSUME ~Faults, ServedInv, NEW t \in Tasks, NEW a \in Attempts, Execution(t, a)
  PROVE  Served'
<1> USE DEF runVars, taskVars, tickVars, execVars
<1>0. AttemptInv /\ TypeOK
  BY DEF ServedInv, AttemptInv
<1>1. CASE SessionCreated(t, a)
  BY <1>1, ServedByExecution DEF SessionCreated, ExecStep, Unsettled
<1>2. ASSUME NEW from, NEW result, WorkerReturns(t, a, from, result) PROVE Served'
  <2>1. PICK to : /\ exec' = [exec EXCEPT ![t][a] = to]
                  /\ status[t] = "running" => to \in Unsettled
    BY <1>2, FailureOutcomeType DEF WorkerReturns, ExecStep, Unsettled
  <2> QED
    BY <1>2, <2>1, ServedByExecution DEF WorkerReturns
<1>3. CASE CommitFails(t, a)
  <2>1. PICK to : /\ exec' = [exec EXCEPT ![t][a] = to]
                  /\ status[t] = "running" => to \in Unsettled
    BY <1>3, FailureOutcomeType DEF CommitFails, ExecStep, Unsettled
  <2> QED
    BY <1>3, <2>1, ServedByExecution DEF CommitFails
<1>4. CASE Settle(t, a)
  <2>1. /\ exec' = [exec EXCEPT ![t][a] = "closing"] /\ status'[t] # "running"
        /\ \A u \in Tasks : status'[u] = "running" => status[u] = "running"
    BY <1>0, <1>4 DEF Settle, ExecStep, CasTransition, TaskEdges, TypeOK, TasksTypeOK
  <2> QED
    BY <1>4, <2>1, ServedByExecution DEF Settle
<1>5. CASE CloseExecution(t, a)
  <2>1. exec[t][a] = "closing" /\ exec' = [exec EXCEPT ![t][a] = "none"]
    BY <1>5 DEF CloseExecution, ExecStep
  <2>2. /\ exec'[t][a] = "none"
        /\ \A b \in Attempts : b # a => exec'[t][b] = exec[t][b]
        /\ \A u \in Tasks : u # t => exec'[u] = exec[u]
        /\ UNCHANGED <<phase, status, attempt, recVars>>
    BY <1>0, <1>5, <2>1 DEF CloseExecution, TypeOK, ExecutionsTypeOK
  <2> QED
    BY <2>1, <2>2 DEF ServedInv, Served, ServedTask, Unsettled, recVars
<1> QED
  BY <1>1, <1>2, <1>3, <1>4, <1>5 DEF Execution, WorkerRejects

LEMMA ReconcileServed ==
  ServedInv /\ OneRunToReconcile /\ Reconcile => Served'
<1> SUFFICES ASSUME ServedInv, OneRunToReconcile, Reconcile PROVE Served'
  OBVIOUS
<1> USE DEF runVars, taskVars, tickVars, execVars
<1>0. AttemptInv /\ TypeOK
  BY DEF ServedInv, AttemptInv
<1>1. ASSUME NEW r \in Runs, ReconcileRun(r) PROVE Served'
  <2> DEFINE read == [t \in Tasks |-> IF RunOf[t] = r /\ status[t] = "running"
                                      THEN attempt[t] ELSE 0]
  <2>1. /\ recPc = "boot" /\ recTodo = {r}
        /\ ProbeUpToStale(read)
        /\ UNCHANGED <<runVars, taskVars, execVars>>
    BY <1>0, <1>1 DEF ReconcileRun, AttemptInv, BootFirst, OneRunToReconcile
  <2>2. \A t \in Tasks : exec[t] = NoExec
    BY <1>0, <2>1 DEF AttemptInv, BootFirst
  <2>3. read \in [Tasks -> Nat]
    BY <1>0 DEF TypeOK, TasksTypeOK
  <2>4. \A t \in Tasks : ~SessionAlive(t, read[t])
    BY <2>2 DEF SessionAlive, NoExec
  <2>5. \A t \in Tasks : recAgent'[t] = read[t]
    BY <2>1, <2>3, <2>4, ProbeKeepsStale
  <2>6. \A t \in Tasks : recAgent[t] = 0
    BY <1>0, <2>1 DEF AttemptInv, StaleHeld
  <2>7. ASSUME NEW t \in Tasks, status[t] = "running", ServedTask(t)
        PROVE  RunOf[t] = r
    BY <2>1, <2>2, <2>6, <2>7 DEF ServedTask, NoExec, Unsettled
  <2>8. \A t \in Tasks : status[t] = "running" /\ RunOf[t] = r => read[t] = attempt[t]
    OBVIOUS
  <2> HIDE DEF read
  <2> QED
    BY <2>1, <2>5, <2>7, <2>8 DEF ServedInv, Served, ServedTask
<1>2. ASSUME NEW t \in Tasks, ReconcileStale(t) PROVE Served'
  <2> DEFINE left == [recAgent EXCEPT ![t] = 0]
  <2>1. left \in [Tasks -> Nat] /\ \A u \in Tasks : left[u] = IF u = t THEN 0 ELSE recAgent[u]
    BY <1>0 DEF TypeOK, ReconcileTypeOK
  <2>2. recPc = "tasks" /\ status[t] = "running"
    BY <1>0, <1>2 DEF ReconcileStale, AttemptInv, StaleHeld
  <2>3. /\ status'[t] # "running"
        /\ \A u \in Tasks : status'[u] = "running" => status[u] = "running"
        /\ ProbeUpToStale(left)
        /\ UNCHANGED <<runVars, attempt, execVars, recTodo>>
    BY <1>0, <1>2, <2>2 DEF ReconcileStale, CasTransition, TaskEdges, TypeOK, TasksTypeOK
  <2>4. ASSUME NEW u \in Tasks PROVE ~SessionAlive(u, left[u])
    <3>1. CASE left[u] = 0
      BY <3>1, TaskServiceAssumptions DEF SessionAlive, Attempts
    <3>2. CASE left[u] # 0
      <4>1. exec[u] = NoExec
        BY <1>0, <2>1, <3>2 DEF AttemptInv, StaleHeld
      <4>2. \A a \in Attempts : exec[u][a] = "none"
        BY <4>1 DEF NoExec
      <4> QED
        BY <4>2 DEF SessionAlive
    <3> QED
      BY <3>1, <3>2
  <2>5. \A u \in Tasks : recAgent'[u] = left[u]
    BY <2>1, <2>3, <2>4, ProbeKeepsStale
  <2> QED
    BY <2>1, <2>2, <2>3, <2>5 DEF ServedInv, Served, ServedTask
<1>3. CASE ReconcileEnd
  <2>1. recTodo = {} /\ UNCHANGED <<runVars, taskVars, execVars, recAgent>>
    BY <1>3 DEF ReconcileEnd
  <2> QED
    BY <2>1 DEF ServedInv, Served, ServedTask
<1> QED
  BY <1>1, <1>2, <1>3 DEF Reconcile

LEMMA ServedStep ==
  ~Faults /\ ServedInv /\ OneRunToReconcile /\ [Next]_vars => ServedInv'
<1> SUFFICES ASSUME ~Faults, ServedInv, OneRunToReconcile, [Next]_vars PROVE Served'
  BY AttemptStep DEF ServedInv
<1> USE DEF runVars, taskVars, tickVars, execVars, retireVars
<1>0. AttemptInv /\ TypeOK
  BY DEF ServedInv, AttemptInv
<1>1. CASE Operator
  <2>1. ASSUME NEW r \in Runs, NEW to \in Phases, RunTransition(r, to) PROVE Served'
    BY <1>0, <2>1, TerminalRunStays, ServedStays DEF RunTransition
  <2>2. ASSUME NEW t \in Tasks, TaskRetry(t) PROVE Served'
    BY <1>0, <2>2, ServedStays DEF TaskRetry, CasTransition, TypeOK, TasksTypeOK
  <2> QED
    BY <1>1, <2>1, <2>2 DEF Operator
<1>2. CASE Retirement
  <2>1. \A u \in Tasks : status'[u] = "running" => status[u] = "running"
    BY <1>0, <1>2
       DEF Retirement, RetireStart, RetireEnd, RetireStop, RetireCancel, CasTransition,
           TypeOK, TasksTypeOK
  <2> QED
    BY <1>2, <2>1, ServedStays DEF Retirement, RetireStart, RetireEnd, RetireStop, RetireCancel
<1>3. CASE Restart
  <2>1. /\ recPc' = "boot" /\ recTodo' = {r \in Runs : phase[r] \notin TerminalPhases}
        /\ UNCHANGED <<runVars, taskVars>>
    BY <1>3 DEF Restart
  <2> QED
    BY <2>1, TaskServiceAssumptions DEF ServedInv, Served, ServedTask
<1>4. CASE UNCHANGED vars
  BY <1>4, ServedStays DEF vars
<1> QED
  BY <1>1, <1>2, <1>3, <1>4, TickServed, ExecutionServed, ReconcileServed DEF Next

\* A running task is never forgotten: once startup reconciliation is over, each
\* one of a live run has an execution that will settle it (settleResult,
\* reconcileAfterRestart).  Only an append or a worker.start that throws, which
\* Faults stands for, can leave one behind.
THEOREM RunningHasExecutionHolds ==
  ASSUME ~Faults
  PROVE  Spec /\ []OneRunToReconcile => []RunningHasExecution
<1>1. Init => ServedInv
  <2>1. Init => Served
    BY DEF Init, Served
  <2> QED
    BY <2>1, InitAttempts DEF ServedInv
<1>2. ServedInv => RunningHasExecution
  <2> SUFFICES ASSUME ServedInv, recPc = "idle", NEW t \in Tasks,
                      status[t] = "running", phase[RunOf[t]] \notin TerminalPhases
               PROVE  attempt[t] \in Attempts /\ exec[t][attempt[t]] \notin {"none", "closing"}
    BY DEF RunningHasExecution
  <2>1. ServedTask(t) /\ recAgent[t] = 0
    BY DEF ServedInv, Served, AttemptInv, StaleHeld
  <2> QED
    BY <2>1 DEF ServedTask, Unsettled
<1>3. ServedInv /\ OneRunToReconcile /\ [Next]_vars => ServedInv'
  BY ServedStep
<1> QED
  BY <1>1, <1>2, <1>3, PTL DEF Spec
=============================================================================
