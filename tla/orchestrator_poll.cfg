SPECIFICATION SideBySide
CONSTANTS
  i1 = i1
  i2 = i2
  NoIssue = NoIssue
  Issues <- TwoIssues
  Rank <- ByName
  StateLimit <- Limits
  MaxConcurrent = 2
  Worktree = TRUE
  MaxEvents = 2
  Kind <- FiveEntries
  Present = 3
  PageSize = 2
  MaxPages = 2
  MaxChanges = 3
  SessionKinds = {"task", "team", "plan", "memory", "issue"}
  SessionTurns = 2
  MaxReports = 2
  MaxUsage = 2
  Capacity = 2
  EventIds = {1, 2, 3}
  LastTime = 2
  PageLimits = {1, 2}
  Documents <- SomeDocuments
  Texts <- ThreeTexts
  Absent = Absent
  Reads = {1, 2}
  MaxWrites = 2
INVARIANTS DeskInv SidesInv
PROPERTIES DeskSteps
CHECK_DEADLOCK FALSE
