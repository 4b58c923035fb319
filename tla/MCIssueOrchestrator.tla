------------------------- MODULE MCIssueOrchestrator -------------------------
(***************************************************************************)
(* A finite instance of IssueOrchestrator for TLC: two issues that compete *)
(* for one of two slots by the limit of a state.                           *)
(***************************************************************************)
EXTENDS IssueOrchestrator, TLC

CONSTANTS i1, i2

TwoIssues == {i1, i2}
OneIssue == {i1}
Alone == i1 :> 1
ByName == i1 :> 1 @@ i2 :> 2
Limits == [s \in ActiveStates |-> IF s = "todo" THEN 1 ELSE 2]
=============================================================================
