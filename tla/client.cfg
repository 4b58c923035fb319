SPECIFICATION FairSpec
CONSTANTS
  Clock = {0, 1}
  Clients = {"a"}
  MaxAsks = 2
  MaxFaults = 1
  Alphabet <- NamesInOrder
  StaleAfter = 2
  MaxInt = 99
  Registries <- BoardsAndReports
  Now = 4
INVARIANTS BoardInv
PROPERTIES WritesKeepOthers ViewCatchesUp
