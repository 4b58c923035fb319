SPECIFICATION FairSpec
CONSTANTS
  KindOf <- Kinds
  Polls = {"p1"}
  Pushes = {"e1"}
  Keys = {1, 2}
  Configs <- Schedules
  Hour = 3
  MaxNow = 4
  MaxRuns = 3
  MaxAsks = 2
INVARIANTS FiringsInv
PROPERTIES QuietWhenDisabled ReadyIssueRuns
CHECK_DEADLOCK FALSE
