----------------------------- MODULE PlanContent -----------------------------
(***************************************************************************)
(* What a plan may hold (createPlan in src/src/plans/plan-service.ts), what*)
(* the table takes (src/src/plans/spec.ts), and the check of the graph of  *)
(* tasks it is made into when it becomes active (validateTaskGraph in      *)
(* src/src/tasks/scheduler.ts), which runs long after the plan was made.   *)
(*                                                                         *)
(* A text is "" when nothing but blanks is in it, "long" when it is longer *)
(* than its limit, or else it will do.  A dependency is the number of a    *)
(* task, 0 if it is no name of one.                                        *)
(***************************************************************************)
EXTENDS Naturals, Sequences, FiniteSets

CONSTANTS
  Submissions, \* the plans that are submitted
  TaskGraphs,  \* the dependencies of tasks: for each task a sequence of numbers
  MostTasks,   \* MAX_PLAN_TASKS
  MostCriteria \* MAX_TASK_CRITERIA

ASSUME ContentConstants ==
  /\ MostTasks \in Nat \ {0} /\ MostCriteria \in Nat
  /\ TaskGraphs \subseteq Seq(Seq(Nat))
  /\ \A plan \in Submissions :
       /\ plan.tasks \in Seq([title : STRING, description : STRING, role : STRING,
                             criteria : Seq(STRING), dependencies : Seq(Nat)])
       /\ plan.later \in BOOLEAN   \* the run has a version before it

-----------------------------------------------------------------------------
(* createPlan, up to the version *)

Given(text) == text # "" /\ text # "long"
Criteria(list) == Len(list) <= MostCriteria /\ \A k \in DOMAIN list : Given(list[k])

\* Mutant of MayDepend: a task may depend on itself.
MayDependOnSelf(k, dependency) == dependency \in 1..k

\* A task depends on earlier tasks only.
MayDepend(k, dependency) == dependency \in 1..(k - 1)

\* The checks of one task; a role is optional.
TaskAccepted(tasks, k) ==
  LET t == tasks[k] IN
    /\ Given(t.title) /\ Given(t.description) /\ t.role # "long"
    /\ Criteria(t.criteria)
    /\ \A d \in DOMAIN t.dependencies : MayDepend(k, t.dependencies[d])

Submitted(plan) ==
  /\ Given(plan.rationale)
  /\ Len(plan.tasks) <= MostTasks
  /\ plan.pattern # "direct" => plan.tasks # <<>>
  /\ \A k \in DOMAIN plan.tasks : TaskAccepted(plan.tasks, k)
  /\ Criteria(plan.success)
  /\ plan.later => plan.reason # ""

\* Mutant of PlannedTask: an empty role is kept.
PlannedTaskWithRole(k, t) ==
  [id |-> k, title |-> t.title, description |-> t.description, role |-> {t.role},
   dependencies |-> t.dependencies, criteria |-> t.criteria]

\* A planned task: the tasks are named in order, a role that is empty is left out.
PlannedTask(k, t) ==
  [id |-> k, title |-> t.title, description |-> t.description, role |-> {t.role} \ {""},
   dependencies |-> t.dependencies, criteria |-> t.criteria]

Planned(plan) == [k \in DOMAIN plan.tasks |-> PlannedTask(k, plan.tasks[k])]

\* The record that is put; the assumptions are copied as they are.
PlanRecord(plan) ==
  [rationale |-> plan.rationale, assumptions |-> plan.assumptions, success |-> plan.success,
   tasks |-> Planned(plan), reason |-> IF plan.later THEN {plan.reason} ELSE {}]

NoneBlank(texts) == \A k \in DOMAIN texts : texts[k] # ""

\* plannedTaskSchema: no text is empty.
StorableTask(t) ==
  /\ t.id # 0 /\ t.title # "" /\ t.description # ""
  /\ \A r \in t.role : r # ""
  /\ \A d \in DOMAIN t.dependencies : t.dependencies[d] # 0
  /\ NoneBlank(t.criteria)

\* runPlanRecordSchema: nor in the record.
Storable(record) ==
  /\ record.rationale # "" /\ NoneBlank(record.assumptions) /\ NoneBlank(record.success)
  /\ \A r \in record.reason : r # ""
  /\ \A k \in DOMAIN record.tasks : StorableTask(record.tasks[k])

-----------------------------------------------------------------------------
(* validateTaskGraph *)

Needs(dependencies) == {dependencies[d] : d \in DOMAIN dependencies}

\* How many of the dependencies are in done; a dependency named twice counts twice.
Among(dependencies, done) == Cardinality({d \in DOMAIN dependencies : dependencies[d] \in done})

\* Mutant of Peeled: a dependency that is named twice is counted down once.
PeeledOnce(graph, s) ==
  LET ready == {k \in s.left : s.degree[k] = 0} IN
    [left |-> s.left \ ready,
     degree |-> [k \in DOMAIN graph |-> IF k \in s.left \ ready
                                        THEN s.degree[k] - Cardinality(Needs(graph[k]) \cap ready) ELSE s.degree[k]]]

\* One round: the tasks with nothing left to wait for are taken off.
Peeled(graph, s) ==
  LET ready == {k \in s.left : s.degree[k] = 0} IN
    [left |-> s.left \ ready,
     degree |-> [k \in DOMAIN graph |-> IF k \in s.left \ ready
                                        THEN s.degree[k] - Among(graph[k], ready) ELSE s.degree[k]]]

\* What is left after each round; as many rounds as there are tasks are enough.
Rounds(graph) ==
  LET after[round \in 0..Len(graph)] ==
        IF round = 0 THEN [left |-> DOMAIN graph, degree |-> [k \in DOMAIN graph |-> Len(graph[k])]]
        ELSE Peeled(graph, after[round - 1])
  IN after

Unresolved(graph) == Rounds(graph)[Len(graph)].left

ValidGraph(graph) ==
  /\ \A k \in DOMAIN graph : Needs(graph[k]) \subseteq DOMAIN graph \ {k}
  /\ Unresolved(graph) = {}

-----------------------------------------------------------------------------
(* Properties *)

\* Every set of tasks holds one that waits for none of them.
Acyclic(graph) ==
  \A tasks \in (SUBSET DOMAIN graph) \ {{}} : \E k \in tasks : Needs(graph[k]) \cap tasks = {}

(* The check refuses a graph exactly if some of its tasks would wait for each other, or for no task, for ever; *)
(* dependencies that are named twice make no difference (validateTaskGraph).                                    *)
GraphCheckIsExact ==
  \A graph \in TaskGraphs :
    ValidGraph(graph) <=> (\A k \in DOMAIN graph : Needs(graph[k]) \subseteq DOMAIN graph) /\ Acyclic(graph)

(* A plan that passed the checks of createPlan can be made into tasks when it becomes active, long after its author *)
(* is gone; and the table takes its record unless one of its assumptions is blank: createPlan looks at every text   *)
(* but these, and then fails at the put, behind its last check.                                                     *)
AcceptedPlanMaterializes ==
  \A plan \in Submissions : Submitted(plan) =>
    LET planned == Planned(plan) IN
      /\ Storable(PlanRecord(plan)) <=> NoneBlank(plan.assumptions)
      /\ ValidGraph([k \in DOMAIN planned |-> planned[k].dependencies])

ContentInv == GraphCheckIsExact /\ AcceptedPlanMaterializes
=============================================================================
