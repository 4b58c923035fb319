SPECIFICATION Spec
CONSTANTS
  r1 = r1
  t1 = t1
  t2 = t2
  t3 = t3
  t4 = t4
  NoTask = NoTask
  NoRun = NoRun
  Runs <- OneRun
  Tasks <- ChainTasks
  RunOf <- ChainRunOf
  Deps <- ChainDeps
  Limit = 1
  MaxAttempts = 2
  RetryBudget = 3
  SessionBound = 4
  Git = TRUE
  Faults = TRUE
  OperatorTargets = {"paused", "executing", "canceled"}
  CompletionPhase = "integrating"
  MaxRestarts = 1
INVARIANTS ExecutionInv
PROPERTIES OwnAttemptSettles TerminalTaskStays
