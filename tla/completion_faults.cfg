SPECIFICATION Spec
CONSTANTS
  Tasks = {1, 2}
  Empty = {}
  OperatorMoves <- RpcMoves
  Faults = TRUE
  MaxRestarts = 1
INVARIANTS TypeOK WorkKept SucceededIsIntegrated HeadIsTip
PROPERTIES MergedOnce PromiseKept
CHECK_DEADLOCK FALSE
