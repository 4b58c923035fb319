------------------------------- MODULE RunPlans -------------------------------
(***************************************************************************)
(* The plan versions of one Project Run: their creation and status moves   *)
(* (src/src/plans/plan-service.ts), the Coordinator sessions that submit   *)
(* them (src/src/coordinator), the approval object behind a plan that      *)
(* waits for one (src/src/approvals), the coupling of the plan to the      *)
(* phase of the run, and the retirement and materialization of tasks       *)
(* (src/src/tasks/task-service.ts) that an activation ends with.           *)
(*                                                                         *)
(* Requests of the operator and the settlements of sessions are callers:   *)
(* each works through the awaits of one service call, and they interleave. *)
(* An action is the code between two awaits; a queued storage update is    *)
(* an action of its own, so what a caller read before it may be stale.     *)
(*                                                                         *)
(* A version with tasks has one task here, which stands for each of them   *)
(* (TaskService has their graph and attempts): the tick, the settlements   *)
(* and the operator move it while a retirement works through a list that   *)
(* was read before.  Plan content, prompts and events are left out.  The   *)
(* revision of a plan moves only when the plan is over, so it tells        *)
(* nothing that the status does not.                                       *)
(***************************************************************************)
EXTENDS RunLifecycle, Naturals, FiniteSets

CONSTANTS
  Operators,     \* requests of the operator that may be served at once
  Coordinators,  \* coordinations that may be under way at once
  Mode,          \* run.approvalMode
  MaxReplans,    \* run.budget.maxReplans
  MaxPlans,      \* bound on the plan versions ever stored
  MaxAsks,       \* bound on requests of the operator and restarts
  RunTargets     \* phases the operator asks for through runTransition

Callers == Operators \cup Coordinators
Plans == 1..MaxPlans      \* in the order they are stored
NoPlan == 0
NoCaller == "nobody"

\* requiresApproval(mode, "plan").
PlanGated == Mode \in {"manual", "plan"}

ASSUME PlanAssumptions ==
  /\ IsFiniteSet(Operators) /\ IsFiniteSet(Coordinators)
  /\ Operators \cap Coordinators = {} /\ NoCaller \notin Callers
  /\ Mode \in {"manual", "plan", "guarded", "autonomous"}
  /\ MaxReplans \in Nat /\ MaxPlans \in Nat \ {0} /\ MaxAsks \in Nat
  /\ RunTargets \subseteq Phases

PlanStatuses == {"draft", "awaiting-approval", "active", "superseded", "completed"}

\* ALLOWED_PLAN_TRANSITIONS.
PlanEdges ==
  ({"draft"} \X {"awaiting-approval", "active", "superseded"}) \cup
  ({"awaiting-approval"} \X {"active", "draft", "superseded"}) \cup
  ({"active"} \X {"completed", "superseded"})

TerminalPlanStatuses == {"superseded", "completed"}

\* A direct plan has no tasks here; every other pattern has some.
Patterns == {"direct", "orchestrated"}

\* Of the statuses of a task: pending stands for blocked as well, over for
\* succeeded and canceled, none for a task that is not made.
OpenStatuses == {"pending", "ready", "running", "failed"}
TaskStatuses == OpenStatuses \cup {"none", "over"}

\* ALLOWED_TASK_TRANSITIONS to canceled: there is none from failed.
Cancelable == OpenStatuses \ {"failed"}

VARIABLES
  (* the run record *)
  phase, suspendedFrom, activePlan,
  (* the plan records, the tasks of each version, the approval object whose
     payload names it *)
  plans,
  (* the awaits of each caller *)
  frame,
  (* coordinations: where each stands, what it submitted, the in-flight map *)
  session, submitted, inFlight,
  (* retireTasksForRun started by the cancellation of the run *)
  sweeping,
  asks,
  (* history: what overlapped or was cut short, plans the operator activated,
     plans whose task a retirement could not cancel *)
  torn, chosen, spared

runVars == <<phase, suspendedFrom, activePlan>>
coordVars == <<session, submitted, inFlight>>
vars == <<runVars, plans, frame, coordVars, sweeping, asks, torn, chosen, spared>>

\* Where a caller stands.
\*   insert     createPlan computed the version, the put is queued
\*   move       transitionPlan read the plan and the run, its update is queued
\*   retirePrior, point   the two updates of applyRunCoupling
\*   approval   the approval hook is next; request, resolve: its write is queued
\*   couple     PlanRunCoupler.handle is next; phase: its transitionRun is queued
\*   handle     handlePlanStatus is next
\*   retire     retireTasksForRun is cancelling the tasks in its list `todo`
\*   start, register, block   updates of the run queued by a coordination
CallPcs == {"idle", "insert", "move", "retirePrior", "point", "approval", "request",
            "resolve", "couple", "phase", "handle", "retire", "start", "register", "block"}

\* A list of tasks with the status each had when it was read, "none" for those
\* that are not in it.
Lists == [Plans -> OpenStatuses \cup {"none"}]
Nothing == [p \in Plans |-> "none"]
Listed(list) == {p \in Plans : list[p] # "none"}

Idle == [pc |-> "idle", plan |-> NoPlan, to |-> "none", from |-> "none",
         prior |-> NoPlan, version |-> 0, pattern |-> "none", object |-> NoPlan,
         todo |-> Nothing]

\* Where a coordination stands; "settling" lasts until its promise is over.
SessionStates == {"off", "starting", "live", "settling"}

NoRecord == [status |-> "absent", version |-> 0, pattern |-> "none",
             tasks |-> "none", approval |-> "none"]

\* The records of a run that executes its first version, activated by the
\* operator, with a second version drafted if the replan budget has one.
Executing ==
  [p \in Plans |->
     CASE p = 1 -> [NoRecord EXCEPT !.status = "active", !.version = 1,
                                    !.pattern = "orchestrated", !.tasks = "pending"]
       [] p = 2 /\ MaxReplans > 1 -> [NoRecord EXCEPT !.status = "draft", !.version = 2,
                                                     !.pattern = "orchestrated"]
       [] OTHER -> NoRecord]

TypeOK ==
  /\ phase \in Phases /\ suspendedFrom \in Phases \cup {NoPhase}
  /\ activePlan \in Plans \cup {NoPlan}
  /\ plans \in [Plans -> [status : PlanStatuses \cup {"absent"}, version : 0..MaxPlans,
                          pattern : Patterns \cup {"none"},
                          tasks : TaskStatuses,
                          approval : {"none", "pending", "over"}]]
  /\ frame \in [Callers -> [pc : CallPcs, plan : Plans \cup {NoPlan},
                            to : PlanStatuses \cup {"none"}, from : PlanStatuses \cup {"none"},
                            prior : Plans \cup {NoPlan}, version : 0..MaxPlans,
                            pattern : Patterns \cup {"none"},
                            object : Plans \cup {NoPlan}, todo : Lists]]
  /\ session \in [Coordinators -> SessionStates]
  /\ submitted \in [Coordinators -> Plans \cup {NoPlan}]
  /\ inFlight \in Coordinators \cup {NoCaller}
  /\ sweeping \in Lists /\ chosen \subseteq Plans /\ spared \subseteq Plans
  /\ asks \in 0..MaxAsks
  /\ torn \subseteq {"plans", "versions", "sessions", "phase", "restart"}

Init ==
  /\ \/ /\ phase = "created" /\ activePlan = NoPlan /\ chosen = {}
        /\ plans = [p \in Plans |-> NoRecord]
     \/ /\ phase = "executing" /\ activePlan = 1 /\ chosen = {1}
        /\ plans = Executing
  /\ suspendedFrom = NoPhase
  /\ frame = [x \in Callers |-> Idle]
  /\ session = [c \in Coordinators |-> "off"]
  /\ submitted = [c \in Coordinators |-> NoPlan]
  /\ inFlight = NoCaller
  /\ sweeping = Nothing /\ asks = 0 /\ torn = {} /\ spared = {}

-----------------------------------------------------------------------------
(* Helpers *)

Stored == {p \in Plans : plans[p].status # "absent"}
\* The tasks that are not over, and the list of them.
OpenTasks == {p \in Plans : plans[p].tasks \in OpenStatuses}
TaskList == [p \in Plans |-> IF p \in OpenTasks THEN plans[p].tasks ELSE "none"]
At(x, pc) == frame[x].pc = pc

\* The call x goes on at pc, without what only the awaits behind it needed.
Goto(x, pc) ==
  LET prior == IF pc \in {"retirePrior", "point"} THEN frame[x].prior ELSE NoPlan IN
  frame' = [frame EXCEPT ![x].pc = pc, ![x].from = "none", ![x].object = NoPlan, ![x].prior = prior]

SetStatus(p, to) == plans' = [plans EXCEPT ![p].status = to]

\* The call of x is over.  For a coordination it is the end of its promise,
\* whose finally block forgets the in-flight entry of the run.
Return(x) ==
  /\ frame' = [frame EXCEPT ![x] = Idle]
  /\ IF x \in Coordinators
     THEN /\ session' = [session EXCEPT ![x] = "off"]
          /\ submitted' = [submitted EXCEPT ![x] = NoPlan]
          /\ inFlight' = NoCaller
     ELSE UNCHANGED coordVars

\* One request of the operator.
Ask == asks < MaxAsks /\ asks' = asks + 1

\* runService.transitionRun, which the state machine may refuse.  The
\* cancellation of the run starts the retirement of its tasks.
TransitionRun(to) ==
  IF CanMove(phase, suspendedFrom, to)
  THEN /\ phase' = to
       /\ suspendedFrom' = OriginAfter(phase, to)
       /\ sweeping' = IF to = "canceled" THEN TaskList ELSE sweeping
  ELSE UNCHANGED <<phase, suspendedFrom, sweeping>>

\* A call that may change which plan is active, and is not past pointing the
\* run at it.
Moving(x) == /\ frame[x].to \in {"active", "superseded"}
             /\ frame[x].pc \in {"move", "retirePrior", "point"}

\* A call that has changed the status of its plan and not yet finished.
Unfinished(x) == frame[x].pc \in {"retirePrior", "point", "approval", "request", "resolve",
                                  "couple", "phase", "handle", "retire"}

\* x has looked at the phase of the run, and its update is queued.
Looked(x) == At(x, "start") \/ At(x, "phase")

\* x read what another caller has changed since, or is about to change.
Overlapped(x) ==
  /\ Moving(x)
  /\ frame[x].prior # activePlan \/ \E y \in Callers \ {x} : Moving(y) \/ Unfinished(y)

-----------------------------------------------------------------------------
(* createPlan *)

LastVersion == LET vs == {plans[p].version : p \in Stored} \cup {0}
               IN CHOOSE v \in vs : \A w \in vs : w <= v

\* Mutant of MayReplan: the budget is read as the number of replans.
MayReplanOneMore(last) == last = 0 \/ last <= MaxReplans

\* A first plan is always allowed; a chain of maxReplans versions is full.
MayReplan(last) == last = 0 \/ last < MaxReplans

\* Validate against a run that is not over, compute version N+1, queue the put.
CreatePlan(x, pattern) ==
  /\ phase \notin TerminalPhases
  /\ MayReplan(LastVersion)
  /\ Cardinality(Stored) + Cardinality({y \in Callers : At(y, "insert")}) < MaxPlans
  /\ frame' = [frame EXCEPT ![x] = [Idle EXCEPT !.pc = "insert", !.version = LastVersion + 1,
                                                !.pattern = pattern]]
  /\ torn' = IF \E y \in Callers : At(y, "insert") THEN torn \cup {"versions"} ELSE torn
  /\ UNCHANGED <<runVars, plans, coordVars, sweeping, chosen, spared>>

\* The put.  handlePlanSubmit then remembers the plan of its session, which
\* goes on; the request of an operator is over.
Insert(x) ==
  LET p == Cardinality(Stored) + 1 IN
  /\ At(x, "insert")
  /\ plans' = [plans EXCEPT ![p] = [NoRecord EXCEPT !.status = "draft",
                                      !.version = frame[x].version, !.pattern = frame[x].pattern]]
  /\ frame' = [frame EXCEPT ![x] = Idle]
  /\ submitted' = IF x \in Coordinators THEN [submitted EXCEPT ![x] = p] ELSE submitted
  /\ UNCHANGED <<runVars, session, inFlight, sweeping, asks, torn, chosen, spared>>

-----------------------------------------------------------------------------
(* transitionPlan *)

\* The reads before the first await: the plan, and the run with the plan it
\* names.  A run that is over refuses an activation.
Begin(x, p, to) ==
  frame' = [frame EXCEPT ![x] = [Idle EXCEPT !.pc = "move", !.plan = p, !.to = to,
                                   !.from = plans[p].status, !.prior = activePlan]]

Refused(to) == to = "active" /\ phase \in TerminalPhases

\* Mutant of Legal: the edge is checked on the status read before the update.
LegalWhenRead(x) == <<frame[x].from, frame[x].to>> \in PlanEdges

\* The pure machine, inside the update.
Legal(x) == <<plans[frame[x].plan].status, frame[x].to>> \in PlanEdges

\* Mutant of AfterMove: the version an activation replaces is left active.
AfterMoveAlone(x) ==
  CASE frame[x].to = "active" -> "point"
    [] frame[x].to = "superseded" -> IF frame[x].prior = frame[x].plan THEN "point" ELSE "couple"
    [] frame[x].to = "awaiting-approval" -> "approval"
    [] frame[x].to = "draft" -> IF frame[x].from = "awaiting-approval" THEN "approval" ELSE "couple"
    [] OTHER -> "couple"

\* applyRunCoupling up to its first update: which update comes next.
AfterMove(x) ==
  LET prior == frame[x].prior IN
  CASE frame[x].to = "active" ->
         IF prior \notin {NoPlan, frame[x].plan} /\ plans[prior].status = "active"
         THEN "retirePrior" ELSE "point"
    [] frame[x].to = "superseded" -> IF prior = frame[x].plan THEN "point" ELSE "couple"
    [] frame[x].to = "awaiting-approval" -> "approval"
    [] frame[x].to = "draft" -> IF frame[x].from = "awaiting-approval" THEN "approval" ELSE "couple"
    [] OTHER -> "couple"

Move(x) ==
  /\ At(x, "move")
  /\ IF Legal(x)
     THEN /\ SetStatus(frame[x].plan, frame[x].to)
          /\ Goto(x, AfterMove(x))
          /\ chosen' = IF x \in Operators /\ frame[x].to = "active"
                       THEN chosen \cup {frame[x].plan} ELSE chosen
          /\ torn' = IF Overlapped(x) THEN torn \cup {"plans"} ELSE torn
          /\ UNCHANGED coordVars
     ELSE Return(x) /\ UNCHANGED <<plans, torn, chosen>>
  /\ UNCHANGED <<runVars, sweeping, asks, spared>>

\* The prior plan is superseded, or the update throws because it moved, and
\* the activation ends half way.
RetirePrior(x) ==
  /\ At(x, "retirePrior")
  /\ IF <<plans[frame[x].prior].status, "superseded">> \in PlanEdges
     THEN SetStatus(frame[x].prior, "superseded") /\ Goto(x, "point") /\ UNCHANGED <<coordVars, torn>>
     ELSE Return(x) /\ torn' = torn \cup {"plans"} /\ UNCHANGED plans
  /\ UNCHANGED <<runVars, sweeping, asks, chosen, spared>>

\* The run is pointed at the activated plan, or loses its pointer.
Point(x) ==
  /\ At(x, "point")
  /\ activePlan' = IF frame[x].to = "active" THEN frame[x].plan ELSE NoPlan
  /\ Goto(x, IF frame[x].to = "active" THEN "approval" ELSE "couple")
  /\ UNCHANGED <<phase, suspendedFrom, plans, coordVars, sweeping, asks, torn, chosen, spared>>

-----------------------------------------------------------------------------
(* onPlanApproval: the approval object behind the plan *)

PendingApprovals == {p \in Plans : plans[p].approval = "pending"}
SetApproval(p, to) == plans' = [plans EXCEPT ![p].approval = to]

\* A request finds the pending object of the run or queues a new one; a
\* decision queues the resolution of the pending object, whichever plan it
\* was requested for.
ApprovalHook(x) ==
  /\ At(x, "approval")
  /\ frame' = [frame EXCEPT ![x] =
       IF frame[x].to = "awaiting-approval"
       THEN [@ EXCEPT !.pc = IF PendingApprovals = {} THEN "request" ELSE "couple"]
       ELSE IF PendingApprovals = {} THEN [@ EXCEPT !.pc = "couple"]
       ELSE [@ EXCEPT !.pc = "resolve", !.object = CHOOSE p \in PendingApprovals : TRUE]]
  /\ UNCHANGED <<runVars, plans, coordVars, sweeping, asks, torn, chosen, spared>>

RequestApproval(x) ==
  /\ At(x, "request")
  /\ SetApproval(frame[x].plan, "pending")
  /\ Goto(x, "couple")
  /\ UNCHANGED <<runVars, coordVars, sweeping, asks, torn, chosen, spared>>

\* resolveApproval throws when somebody resolved the object meanwhile, and the
\* rest of the plan transition is lost with it.
ResolveApproval(x) ==
  /\ At(x, "resolve")
  /\ IF frame[x].object \in PendingApprovals
     THEN /\ SetApproval(frame[x].object, "over")
          /\ Goto(x, "couple")
          /\ UNCHANGED <<coordVars, torn>>
     ELSE Return(x) /\ torn' = torn \cup {"plans"} /\ UNCHANGED plans
  /\ UNCHANGED <<runVars, sweeping, asks, chosen, spared>>

-----------------------------------------------------------------------------
(* onPlanStatus: the phase of the run, then its tasks *)

FollowPhase(to) ==
  CASE to = "awaiting-approval" -> "awaiting_approval"
    [] to = "active" -> "executing"
    [] to = "draft" -> "planning"
    [] OTHER -> NoPhase

\* Mutant of GuardAllows: the coupling leaves it to the state machine.
GuardAllowsAny(to) == FollowPhase(to) # NoPhase

\* Mutant of GuardAllows: only an approval starts the execution.
GuardAllowsApproved(to) ==
  \/ to = "awaiting-approval" /\ phase = "planning"
  \/ to \in {"active", "draft"} /\ phase = "awaiting_approval"

\* guardAllows: the phases from which this plan status moves the run.
GuardAllows(to) ==
  \/ to = "awaiting-approval" /\ phase = "planning"
  \/ to = "active" /\ phase \in {"planning", "awaiting_approval"}
  \/ to = "draft" /\ phase = "awaiting_approval"

Couple(x) ==
  /\ At(x, "couple")
  /\ Goto(x, IF GuardAllows(frame[x].to) THEN "phase" ELSE "handle")
  /\ UNCHANGED <<runVars, plans, coordVars, sweeping, asks, torn, chosen, spared>>

CouplePhase(x) ==
  /\ At(x, "phase")
  /\ TransitionRun(FollowPhase(frame[x].to))
  /\ Goto(x, "handle")
  /\ torn' = IF \E y \in Callers \ {x} : At(y, "phase") /\ FollowPhase(frame[y].to) = phase'
             THEN torn \cup {"phase"} ELSE torn
  /\ UNCHANGED <<activePlan, plans, coordVars, asks, chosen, spared>>

\* Mutant of TasksToRetire: an activation adds its tasks to the old ones.
TasksToRetireOwn(x) == IF frame[x].to = "active" THEN Nothing ELSE TaskList

\* retireTasksForRun reads the list of the tasks that are not over, once.
TasksToRetire(x) == TaskList

\* handlePlanStatus: only for the plan the run names, which a superseded plan
\* no longer is.
HandlePlanStatus(x) ==
  /\ At(x, "handle")
  /\ IF /\ activePlan = frame[x].plan
        /\ frame[x].to \in {"active", "superseded", "completed"}
     THEN /\ frame' = [frame EXCEPT ![x].pc = "retire", ![x].todo = TasksToRetire(x)]
          /\ UNCHANGED coordVars
     ELSE Return(x)
  /\ UNCHANGED <<runVars, plans, sweeping, asks, torn, chosen, spared>>

\* The compare-and-set, after the await of worker.stop: the status is still the
\* one in the list, and the machine has the edge.
CanCancel(p, read) == plans[p].tasks = read /\ read \in Cancelable

CancelTask(p, read) ==
  plans' = IF CanCancel(p, read) THEN [plans EXCEPT ![p].tasks = "over"] ELSE plans

\* A task that was moved, or cannot be canceled, is passed over.
RetireTask(x, p) ==
  LET read == frame[x].todo[p] IN
  /\ At(x, "retire") /\ p \in Listed(frame[x].todo)
  /\ CancelTask(p, read)
  /\ frame' = [frame EXCEPT ![x].todo[p] = "none"]
  /\ spared' = IF CanCancel(p, read) THEN spared ELSE spared \cup {p}
  /\ UNCHANGED <<runVars, coordVars, sweeping, asks, torn, chosen>>

\* materializeTasks of the plan the event is about; a direct plan has none.
Materialize(x) ==
  LET p == frame[x].plan IN
  /\ At(x, "retire") /\ Listed(frame[x].todo) = {}
  /\ plans' = IF frame[x].to = "active" /\ plans[p].pattern = "orchestrated"
              THEN [plans EXCEPT ![p].tasks = "pending"] ELSE plans
  /\ Return(x)
  /\ UNCHANGED <<runVars, sweeping, asks, torn, chosen, spared>>

\* The retirement that a cancellation of the run started.
SweepTask(p) ==
  /\ p \in Listed(sweeping)
  /\ CancelTask(p, sweeping[p])
  /\ sweeping' = [sweeping EXCEPT ![p] = "none"]
  /\ UNCHANGED <<runVars, frame, coordVars, asks, torn, chosen, spared>>

-----------------------------------------------------------------------------
(* The tasks meanwhile, of whichever version *)

MoveTask(p, from, to) ==
  /\ plans[p].tasks = from
  /\ plans' = [plans EXCEPT ![p].tasks = to]
  /\ UNCHANGED <<runVars, frame, coordVars, sweeping, torn, chosen, spared>>

\* The tick: what a task waited for is done; a worker is started.  The tick looked
\* at the run awaits ago and never at the plan, so neither is a guard here.
TaskReady(p) == MoveTask(p, "pending", "ready") /\ UNCHANGED asks
TaskBegins(p) == MoveTask(p, "ready", "running") /\ UNCHANGED asks

\* settleResult, or the reconciliation after a restart: the end, or another attempt.
TaskSettles(p) ==
  \E to \in {"ready", "failed", "over"} : MoveTask(p, "running", to) /\ UNCHANGED asks

-----------------------------------------------------------------------------
(* The Coordinator *)

\* Mutant of MayCoordinate: the in-flight map is not consulted.
MayCoordinateAgain == phase \in {"created", "planning"}

\* The checks of coordinate, before its first await.
MayCoordinate == phase \in {"created", "planning"} /\ inFlight = NoCaller

Coordinate(c) ==
  /\ Ask
  /\ session[c] = "off"
  /\ MayCoordinate
  /\ session' = [session EXCEPT ![c] = "starting"]
  /\ Goto(c, IF phase = "created" THEN "start" ELSE "register")
  /\ torn' = IF \E d \in Coordinators : session[d] = "starting" THEN torn \cup {"sessions"} ELSE torn
  /\ UNCHANGED <<runVars, plans, submitted, inFlight, sweeping, chosen, spared>>

\* created -> planning; a refusal ends the request.
StartPlanning(c) ==
  /\ At(c, "start")
  /\ IF CanMove(phase, suspendedFrom, "planning")
     THEN TransitionRun("planning") /\ Goto(c, "register") /\ UNCHANGED session
     ELSE /\ frame' = [frame EXCEPT ![c] = Idle]
          /\ session' = [session EXCEPT ![c] = "off"]
          /\ UNCHANGED <<phase, suspendedFrom, sweeping>>
  /\ UNCHANGED <<activePlan, plans, submitted, inFlight, asks, torn, chosen, spared>>

\* The session is recorded on the run and started, and the entry set.
Register(c) ==
  /\ At(c, "register")
  /\ frame' = [frame EXCEPT ![c] = Idle]
  /\ session' = [session EXCEPT ![c] = "live"]
  /\ inFlight' = c
  /\ UNCHANGED <<runVars, plans, submitted, sweeping, asks, torn, chosen, spared>>

\* The tool dsh_projects_submit_plan, once per session.
SubmitPlan(c, pattern) ==
  /\ session[c] = "live" /\ At(c, "idle") /\ submitted[c] = NoPlan
  /\ CreatePlan(c, pattern)
  /\ UNCHANGED asks

\* Mutant of SettleAs: only a direct plan is looked at, the mode is not.
SettleAsActive(p) == "active"

\* Mutant of SettleAs: the run phase is written where the plan status belongs.
SettleAsPhase(p) ==
  IF plans[p].pattern = "direct" \/ ~PlanGated THEN "active" ELSE "awaiting_approval"

\* Where settle sends a submitted plan.
SettleAs(p) ==
  IF plans[p].pattern = "direct" \/ ~PlanGated THEN "active" ELSE "awaiting-approval"

\* The session ends, well or badly, and settle begins.
SessionEnds(c, completed) ==
  LET p == submitted[c] IN
  /\ session[c] = "live" /\ At(c, "idle")
  /\ IF completed /\ p # NoPlan
     THEN IF Refused(SettleAs(p)) THEN Return(c)
          ELSE /\ Begin(c, p, SettleAs(p))
               /\ session' = [session EXCEPT ![c] = "settling"]
               /\ UNCHANGED <<submitted, inFlight>>
     ELSE /\ Goto(c, "block")
          /\ session' = [session EXCEPT ![c] = "settling"]
          /\ UNCHANGED <<submitted, inFlight>>
  /\ UNCHANGED <<runVars, plans, sweeping, asks, torn, chosen, spared>>

\* A failed or empty session blocks the run, if the run can still be blocked.
Block(c) ==
  /\ At(c, "block")
  /\ TransitionRun("blocked")
  /\ Return(c)
  /\ UNCHANGED <<activePlan, plans, asks, torn, chosen, spared>>

-----------------------------------------------------------------------------
(* Requests of the operator; the process *)

OperatorCreate(o, pattern) == Ask /\ At(o, "idle") /\ CreatePlan(o, pattern)

OperatorTransition(o, p, to) ==
  /\ Ask /\ At(o, "idle") /\ p \in Stored
  /\ <<plans[p].status, to>> \in PlanEdges
  /\ ~Refused(to)
  /\ Begin(o, p, to)
  /\ UNCHANGED <<runVars, plans, coordVars, sweeping, torn, chosen, spared>>

OperatorMovesRun(to) ==
  /\ Ask
  /\ CanMove(phase, suspendedFrom, to)
  /\ TransitionRun(to)
  /\ torn' = IF \E x \in Callers : Looked(x) THEN torn \cup {"phase"} ELSE torn
  /\ UNCHANGED <<activePlan, plans, frame, coordVars, chosen, spared>>

\* approvalResolve and approvalExpire act on the object alone; which way makes
\* no difference to anybody here.
OperatorResolves(p) ==
  /\ Ask
  /\ p \in PendingApprovals
  /\ SetApproval(p, "over")
  /\ UNCHANGED <<runVars, frame, coordVars, sweeping, torn, chosen, spared>>

\* taskRetry looks at the task alone, not at its plan or at the run.
OperatorRetries(p) == Ask /\ MoveTask(p, "failed", "ready")

\* The process dies and comes back with what is stored.
Restart ==
  /\ Ask
  /\ frame' = [x \in Callers |-> Idle]
  /\ session' = [c \in Coordinators |-> "off"]
  /\ submitted' = [c \in Coordinators |-> NoPlan]
  /\ inFlight' = NoCaller
  /\ sweeping' = Nothing
  /\ torn' = torn \cup {"restart"} \cup IF \E x \in Callers : Unfinished(x) THEN {"plans"} ELSE {}
  /\ UNCHANGED <<runVars, plans, chosen, spared>>

TransitionSteps(x) ==
  \/ Move(x) \/ RetirePrior(x) \/ Point(x) \/ ApprovalHook(x) \/ RequestApproval(x)
  \/ ResolveApproval(x) \/ Couple(x) \/ CouplePhase(x) \/ HandlePlanStatus(x)
  \/ (\E p \in Plans : RetireTask(x, p)) \/ Materialize(x)

CallSteps(x) == Insert(x) \/ TransitionSteps(x)

CoordinatorSteps(c) == StartPlanning(c) \/ Register(c) \/ Block(c)

Requests ==
  \/ \E c \in Coordinators : Coordinate(c)
  \/ \E o \in Operators, pattern \in Patterns : OperatorCreate(o, pattern)
  \/ \E o \in Operators, p \in Plans, to \in PlanStatuses : OperatorTransition(o, p, to)
  \/ \E to \in RunTargets : OperatorMovesRun(to)
  \/ \E p \in Plans : OperatorResolves(p) \/ OperatorRetries(p)
  \/ Restart

Next ==
  \/ Requests
  \/ \E x \in Callers : CallSteps(x)
  \/ \E c \in Coordinators :
       \/ CoordinatorSteps(c)
       \/ \E pattern \in Patterns : SubmitPlan(c, pattern)
       \/ \E completed \in BOOLEAN : SessionEnds(c, completed)
  \/ \E p \in Plans : SweepTask(p) \/ TaskReady(p) \/ TaskBegins(p) \/ TaskSettles(p)

Spec == Init /\ [][Next]_vars

\* Whatever waits goes on: a pending await resolves, or a session ends.
FairSpec ==
  /\ Spec
  /\ WF_vars(\/ \E x \in Callers : CallSteps(x)
             \/ \E c \in Coordinators : CoordinatorSteps(c) \/ \E b \in BOOLEAN : SessionEnds(c, b))

-----------------------------------------------------------------------------
(* Properties *)

\* Nothing of the plans is under way; sessions may be at work.
Settled ==
  /\ \A x \in Callers : At(x, "idle")
  /\ sweeping = Nothing

\* Unless two transitions overlapped or one was cut short, the active plan is
\* one, and it is the one the run names (plan-service.ts: "the two tables
\* cannot drift apart").
ActivePlanNamed ==
  ("plans" \notin torn /\ ~\E x \in Callers : frame[x].pc \in {"retirePrior", "point"})
    => \A p \in Plans : plans[p].status = "active" => activePlan = p

\* Under the same condition, while the run names a plan, a task that is not over
\* belongs to it, or is one that the retirement of its version could not cancel,
\* because it was moved meanwhile or had failed; and an activation of a plan
\* with tasks has materialized them (handlePlanStatus after the coupling).
TasksOfActivePlan ==
  ("plans" \notin torn /\ Settled /\ activePlan # NoPlan) =>
    /\ OpenTasks \subseteq {activePlan} \cup spared
    /\ (plans[activePlan].pattern = "orchestrated" => plans[activePlan].tasks # "none")

\* In a mode that gates plans, no task of an orchestrated plan exists before
\* the operator activated that version, whatever the sessions submit and
\* whichever approval object was resolved.
GateHolds ==
  PlanGated => \A p \in Plans : plans[p].tasks # "none" => p \in chosen

\* Two versions of a chain never carry one number, and the chain stays within
\* the replan budget, unless two creations overlapped (the version is read
\* before the put).
VersionsInOrder ==
  "versions" \notin torn =>
    /\ \A p, q \in Stored : p # q => plans[p].version # plans[q].version
    /\ Cardinality(Stored) <= IF MaxReplans = 0 THEN 1 ELSE MaxReplans

\* A run has one coordination at a time, and it can be aborted through the
\* in-flight map from the start of its session to the end of its settlement,
\* unless a second request came before the first had set its entry.
OneCoordination ==
  "sessions" \notin torn =>
    \A c \in Coordinators : session[c] \in {"live", "settling"} =>
      /\ inFlight = c
      /\ \A d \in Coordinators \ {c} : session[d] = "off"

\* The tables of plans, runs and tasks agree, and one coordination works on
\* them, except for what overlapped or was cut short.
PlansInv ==
  TypeOK /\ ActivePlanNamed /\ TasksOfActivePlan /\ GateHolds /\ VersionsInOrder /\ OneCoordination

\* A plan that is over stays over, also for a caller that read it before.
PlansStayOver ==
  \A p \in Plans : plans[p].status \in TerminalPlanStatuses => plans'[p].status = plans[p].status

\* A run that was paused or blocked goes on only when the operator says so: no
\* plan transition and no coordination resumes it, unless the operator moved
\* the run between their look at its phase and their queued update, or another
\* plan transition did for them, or two coordinations started at once.
OperatorResumes ==
  (torn \cap {"phase", "sessions"} = {} /\ phase \in SuspendedPhases /\ phase' \in ActivePhases) =>
       asks' > asks

\* No late caller undoes a decision: what is over stays over, and what the
\* operator stopped stays stopped.
DecisionsStand == [][PlansStayOver /\ OperatorResumes]_vars

\* A coordination does not leave the run in planning with nobody at work: it
\* ends with the run waiting, executing, blocked or where the operator put it,
\* unless the plan was taken away from the session, its transition was cut
\* short, or the process died.
CoordinationDecides ==
  (\E c \in Coordinators : session[c] = "live") ~>
     (\/ phase \notin {"created", "planning"}
      \/ \E p \in Plans : plans[p].status \in TerminalPlanStatuses
      \/ torn \cap {"plans", "restart"} # {})
=============================================================================
