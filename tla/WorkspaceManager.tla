--------------------------- MODULE WorkspaceManager ---------------------------
(***************************************************************************)
(* The workspace directories of one project (src/src/workspace/            *)
(* manager.ts): one per issue, made on first use, initialized by the       *)
(* after_create hook, and removed when the issue is over.  The operators   *)
(* are the effects of the manager's operations on the file system; the     *)
(* orchestrator that calls them says when each happens.                    *)
(***************************************************************************)

CONSTANTS
  Issues,
  Worktree   \* the project's workspaces are Git worktrees

VARIABLE
  dir   \* dir[i]: the workspace directory of issue i

\* "fresh": made, after_create still has to complete; "cut": made, and an
\* abort, a refused check or a crash came before after_create completed or the
\* directory was removed again; "ready": after_create completed.
DirStates == {"absent", "fresh", "cut", "ready"}

WorkspaceTypeOK == dir \in [Issues -> DirStates]

WorkspaceInit == dir = [i \in Issues |-> "absent"]

SetDir(i, d) == dir' = [dir EXCEPT ![i] = d]

\* prepare: an existing directory is used as it is, a missing one is made.
EnsureDirectory(i) == SetDir(i, IF dir[i] = "absent" THEN "fresh" ELSE dir[i])

\* prepare stops between the making of the directory and the end of its hook.
CutInitialization(i) == SetDir(i, IF dir[i] \in {"absent", "fresh"} THEN "cut"
                                  ELSE dir[i])

\* after_create succeeds.
Initialize(i) == SetDir(i, "ready")

\* Mutant of RemoveFailedInitialization: the directory is left behind.
KeepFailedInitialization(i) == UNCHANGED dir

\* after_create fails and the incomplete workspace is removed.
RemoveFailedInitialization(i) == SetDir(i, "absent")

\* remove: a workspace that is there goes, an absent one counts as removed.
RemoveTarget(i) == SetDir(i, "absent")
=============================================================================
