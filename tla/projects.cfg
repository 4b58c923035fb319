SPECIFICATION SideBySide
CONSTANTS
  Paths = {"home", "other"}
  Home = "home"
  Repos = {"g"}
  NoRepo = "no_repo"
  Registrars = {"r1", "r2"}
  MaxProjects = 2
  MaxAsks = 3
  Dirs <- Tree
  RootDir <- Top
  NameOrder <- Names
  Disks <- SomeDisks
  Moving <- Movable
  Depths = {0, 1, 2}
  MaxScanned = 5
  MaxCandidates = 2
INVARIANTS ProjectsInv
PROPERTIES CandidatesUnderRoot RefreshReaches
CHECK_DEADLOCK FALSE
