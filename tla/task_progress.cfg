SPECIFICATION FairSpec
CONSTANTS
  r1 = r1
  t1 = t1
  t2 = t2
  t3 = t3
  t4 = t4
  NoTask = NoTask
  NoRun = NoRun
  Runs <- OneRun
  Tasks <- ChainTasks
  RunOf <- ChainRunOf
  Deps <- ChainDeps
  Limit = 1
  MaxAttempts = 2
  RetryBudget = 0
  SessionBound = 2
  Git = FALSE
  Faults = FALSE
  OperatorTargets = {"canceled"}
  CompletionPhase = "finalizing"
  MaxRestarts = 1
INVARIANTS RunningHasExecution
PROPERTIES CanceledRunRests RunDecided RunningSettles
