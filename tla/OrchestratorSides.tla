-------------------------- MODULE OrchestratorSides --------------------------
(***************************************************************************)
(* The desk of IssueOrchestrator, the policy it obeys, the sources it      *)
(* reads, the sessions it starts and the history it shows.  To the desk a  *)
(* poll reads its policy and its source in one step and an execution is    *)
(* one await; how the pages of a source are put together, how a session is *)
(* run, how a reader pages through a history and how a policy is reloaded  *)
(* are explored beside it, not multiplied with it.                         *)
(***************************************************************************)
EXTENDS IssueOrchestrator, RemoteSources, AgentSessions, IssueTimeline, WorkflowStore

VARIABLE part   \* "desk", "source", "session", "timeline" or "workflow"

NoSource ==
  /\ provider = "none" /\ assignee = "none" /\ entries = <<>> /\ created = 0
  /\ walk = NoWalk /\ tool = NoTool /\ changes = 0
  /\ unchanged = {} /\ shifted = FALSE /\ strayed = FALSE

NoSession == SessionInit /\ kind = CHOOSE k \in SessionKinds : TRUE

SideInit ==
  /\ Init /\ TimelineInit /\ WorkflowInit
  /\ \/ part = "source" /\ RemoteInit /\ NoSession
     \/ part = "session" /\ NoSource /\ SessionInit
     \/ part \in {"desk", "timeline", "workflow"} /\ NoSource /\ NoSession
  /\ part # "workflow" => file = Absent

SideNext ==
  /\ UNCHANGED part
  /\ \/ part = "desk" /\ Next /\ UNCHANGED <<remoteVars, sessionVars, timelineVars, workflowVars>>
     \/ part = "source" /\ RemoteNext /\ UNCHANGED <<vars, sessionVars, timelineVars, workflowVars>>
     \/ part = "session" /\ SessionNext /\ UNCHANGED <<vars, remoteVars, timelineVars, workflowVars>>
     \/ part = "timeline" /\ TimelineNext /\ UNCHANGED <<vars, remoteVars, sessionVars, workflowVars>>
     \/ part = "workflow" /\ WorkflowNext /\ UNCHANGED <<vars, remoteVars, sessionVars, timelineVars>>

SideBySide == SideInit /\ [][SideNext]_<<vars, remoteVars, sessionVars, timelineVars, workflowVars, part>>

(* What the desk reads is whole and final, what it starts ends and leaves nothing behind, what it *)
(* tells of an issue is one history, and its policy is the last good one of the file.             *)
SidesInv == SourcesInv /\ SessionsInv /\ TimelineInv /\ WorkflowInv
=============================================================================
