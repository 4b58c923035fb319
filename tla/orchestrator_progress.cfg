SPECIFICATION FairSpec
CONSTANTS
  i1 = i1
  i2 = i2
  NoIssue = NoIssue
  Issues <- OneIssue
  Rank <- Alone
  StateLimit <- Limits
  MaxConcurrent = 1
  Worktree = FALSE
  MaxEvents = 3
PROPERTIES FinishedCleaned WorkIsPickedUp
CHECK_DEADLOCK FALSE
