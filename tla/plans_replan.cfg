SPECIFICATION FairSpec
CONSTANTS
  o1 = o1
  c1 = c1
  c2 = c2
  Operators <- Desk
  Coordinators <- Sessions
  RunTargets <- Targets
  Mode = "plan"
  MaxReplans = 2
  MaxPlans = 3
  MaxAsks = 3
  Submissions <- SmallSubmissions
  TaskGraphs <- SmallGraphs
  MostTasks = 3
  MostCriteria = 2
INVARIANTS PlanningInv
PROPERTIES DecisionsStand CoordinationDecides
CHECK_DEADLOCK FALSE
