SPECIFICATION Spec
CONSTANTS
  r1 = r1
  t1 = t1
  t2 = t2
  t3 = t3
  t4 = t4
  NoTask = NoTask
  NoRun = NoRun
  Runs <- OneRun
  Tasks <- JoinTasks
  RunOf <- JoinRunOf
  Deps <- JoinDeps
  Limit = 2
  MaxAttempts = 1
  RetryBudget = 2
  SessionBound = 3
  Git = TRUE
  Faults = FALSE
  OperatorTargets = {"paused", "executing"}
  CompletionPhase = "integrating"
  MaxRestarts = 0
INVARIANTS TypeOK ConcurrencyLimit DependencySafety CompletionSound
SYMMETRY Alike
