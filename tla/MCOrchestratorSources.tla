------------------------ MODULE MCOrchestratorSources ------------------------
(***************************************************************************)
(* A finite instance of OrchestratorSides for TLC: the desk of             *)
(* MCIssueOrchestrator, the documents of MCWorkflowStore, and a source of  *)
(* two pages.                                                              *)
(***************************************************************************)
EXTENDS MCIssueOrchestrator, MCWorkflowStore, OrchestratorSides

\* Two pages of two: a pull request among issues, and an entry without a title.
FiveEntries == <<"issue", "pull", "issue", "issue", "broken">>
=============================================================================
