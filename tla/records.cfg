SPECIFICATION FairSpec
CONSTANTS
  Titles <- TwoTitles
  Before <- OneNote
  Projects = {"p", "q"}
  RunProject = "p"
  Writers = {"tab", "lead", "other"}
  Lead = "lead"
  Tab = "tab"
  None = None
  MaxAsks = 2
  Generators = {"listener", "operator"}
  Loads = {"k", "l"}
  Notes <- SevenNotes
  Requests <- SomeRequests
  Rooms <- TwoRooms
  Drafts <- SomeDrafts
  MostTags = 3
  Kinds <- TwoKinds
INVARIANTS NotesInv
PROPERTIES ChangesAreInformed RunReported
CHECK_DEADLOCK FALSE
