SPECIFICATION SideBySide
CONSTANTS
  Tasks = {1, 2}
  Empty = {2}
  OperatorMoves <- RpcMoves
  Faults = FALSE
  MaxRestarts = 1
  Settlements = {"s1", "s2"}
  UsedBefore = 7
  Amounts = {1}
  Budgets <- TwoBudgets
  Asks = {"executing", "finalizing"}
  MaxResults = 2
  MaxMinutes = 1
  MaxTicks = 1
  MaxRequests = 2
INVARIANTS BudgetsInv
PROPERTIES CompletionMoves CleanFinalizingEnds
CHECK_DEADLOCK FALSE
