---------------------------- MODULE RunCompletion ----------------------------
(***************************************************************************)
(* How a run of a Git project comes home: the branches its tasks leave,    *)
(* the merge gate, and the completion pipeline of the Task service         *)
(* (driveCompletionPipeline) with the merge-in-order strategy it drives.   *)
(*                                                                         *)
(* One run.  Its tasks are shown only as far as Git sees them: worktree    *)
(* made, identity recorded, work committed, worktree removed; scheduling   *)
(* and attempts belong to TaskService.  A tick visits the run with the     *)
(* phase it read first (seen); each action is the piece between two        *)
(* awaits, and only one tick runs at a time.  Git and the records survive  *)
(* a restart, everything under "memory" does not.                          *)
(***************************************************************************)
EXTENDS RunLifecycle, Naturals, FiniteSets

CONSTANTS
  Tasks,           \* the tasks of the run, named by their plan position
  Empty,           \* those whose branch gets no commit
  OperatorMoves,   \* pairs <<from, to>> the operator asks for
  Faults,          \* Git commands, the strategy and event appends may fail
  MaxRestarts      \* bound on the restarts of the process

ASSUME RunCompletionAssumptions ==
  /\ Tasks \subseteq Nat
  /\ IsFiniteSet(Tasks)
  /\ Tasks # {}
  /\ Empty \subseteq Tasks
  /\ Faults \in BOOLEAN
  /\ MaxRestarts \in Nat
  /\ OperatorMoves \subseteq Phases \X Phases
  \* The operator does not push a run past a step of the pipeline.
  /\ \A m \in OperatorMoves :
       /\ m[2] \notin {"finalizing", "succeeded"}
       /\ m[1] \in {"executing"} =>
            m[2] \notin {"awaiting_approval", "integrating", "validating"}

WorkStages == {"ready", "provisioning", "running", "succeeded", "canceled"}

Pcs == {"idle", "visit", "gate", "discard", "provision", "merge", "attach",
        "announce", "advance", "verify", "accept", "failed", "block",
        "cleanup", "dismantle", "conclude"}

VARIABLES
  (* persisted *)
  phase, suspendedFrom,
  approval,     \* the newest merge approval of the run
  completed,    \* the log holds run.integration.completed
  head,         \* run.integrationHead: "none", the "tip", or an "old" tip
  work,         \* how far each task is
  based,        \* tasks whose record has a baseCommit
  (* Git *)
  branches, trees,              \* task branches and task worktrees
  intBranch, intTree, merged,   \* integration branch, worktree, contents
  (* memory *)
  made,         \* tasks whose provisioning created the worktree
  leaving,      \* succeeded tasks whose worktree is about to be removed
  pc, seen, todo, clean,        \* the tick
  restarts

runVars == <<phase, suspendedFrom>>
taskVars == <<work, based, trees, made, leaving>>
intVars == <<intBranch, intTree, merged>>
tickVars == <<pc, seen, todo, clean>>
vars == <<runVars, approval, completed, head, taskVars, branches, intVars,
          tickVars, restarts>>

-----------------------------------------------------------------------------
(* Helpers *)

\* Mutant of AllSucceeded: one task is enough.
SomeSucceeded == \E t \in Tasks : work[t] = "succeeded"

AllSucceeded == \A t \in Tasks : work[t] = "succeeded"

\* The task refs handed to the strategy: succeeded, with branch, head and base.
Refs == {t \in Tasks : work[t] = "succeeded" /\ t \in based}

\* safeTransitionRun: a move the machine refuses is logged and dropped.
TransitionRun(to) ==
  IF CanMove(phase, suspendedFrom, to)
  THEN phase' = to /\ suspendedFrom' = OriginAfter(phase, to)
  ELSE UNCHANGED runVars

\* Mutant of Sound: only the branch and its worktree are looked at.
SoundShallow == intBranch /\ intTree

\* verifyIntegration: the integration branch resolves, its worktree is
\* there, and every branch of a succeeded task is an ancestor of it.  The
\* branch of an empty task is where the integration branch started.
Sound ==
  /\ intBranch /\ intTree
  /\ \A t \in Tasks : work[t] = "succeeded" =>
       t \in branches /\ t \in merged \cup Empty

Goto(label) == pc' = label /\ UNCHANGED <<seen, todo, clean>>

-----------------------------------------------------------------------------
(* The tasks, as Git sees them *)

Init ==
  /\ phase = "executing"
  /\ suspendedFrom = NoPhase
  /\ approval = "none"
  /\ completed = FALSE
  /\ head = "none"
  /\ work = [t \in Tasks |-> "ready"]
  /\ based = {}
  /\ branches = {}
  /\ trees = {}
  /\ intBranch = FALSE
  /\ intTree = FALSE
  /\ merged = {}
  /\ made = {}
  /\ leaving = {}
  /\ pc = "idle"
  /\ seen = NoPhase
  /\ todo = {}
  /\ clean = TRUE
  /\ restarts = 0

\* provisionWorktree: adopt the tree of an earlier attempt, or create branch
\* and tree.  Only the latter learns the base commit.
ProvisionTask(t) ==
  /\ phase = "executing"
  /\ work[t] = "ready"
  /\ work' = [work EXCEPT ![t] = "provisioning"]
  /\ trees' = trees \cup {t}
  /\ branches' = branches \cup {t}
  /\ made' = IF t \in trees THEN made \ {t} ELSE made \cup {t}
  /\ UNCHANGED <<runVars, approval, completed, head, based, leaving, intVars,
                 tickVars, restarts>>

\* The second compare-and-set of provisionTaskWorktree attaches the identity.
RecordIdentity(t) ==
  /\ work[t] = "provisioning"
  /\ work' = [work EXCEPT ![t] = "running"]
  /\ based' = based \cup (made \cap {t})
  /\ UNCHANGED <<runVars, approval, completed, head, trees, made, leaving,
                 branches, intVars, tickVars, restarts>>

\* A failed attempt is re-queued; its worktree is kept for the next one.
AttemptFails(t) ==
  /\ work[t] = "running"
  /\ work' = [work EXCEPT ![t] = "ready"]
  /\ UNCHANGED <<runVars, approval, completed, head, based, trees, made,
                 leaving, branches, intVars, tickVars, restarts>>

\* commitTaskWork, then running -> succeeded.
TaskSucceeds(t) ==
  /\ work[t] = "running"
  /\ work' = [work EXCEPT ![t] = "succeeded"]
  /\ leaving' = leaving \cup {t}
  /\ UNCHANGED <<runVars, approval, completed, head, based, trees, made,
                 branches, intVars, tickVars, restarts>>

\* removeSucceededTaskWorktree: best effort.
RemoveTaskTree(t) ==
  /\ t \in leaving
  /\ leaving' = leaving \ {t}
  /\ \/ trees' = trees \ {t}
     \/ Faults /\ UNCHANGED trees
  /\ UNCHANGED <<runVars, approval, completed, head, work, based, made,
                 branches, intVars, tickVars, restarts>>

TaskStep(t) ==
  \/ ProvisionTask(t) \/ RecordIdentity(t) \/ AttemptFails(t)
  \/ TaskSucceeds(t) \/ RemoveTaskTree(t)

-----------------------------------------------------------------------------
(* The tick: gate and integration *)

TickStart ==
  /\ pc = "idle"
  /\ phase \notin TerminalPhases
  /\ pc' = "visit"
  /\ seen' = phase
  /\ UNCHANGED <<runVars, approval, completed, head, taskVars, branches,
                 intVars, todo, clean, restarts>>

\* Nothing to do for this run in the phase the tick has read.
VisitNothing ==
  /\ pc = "visit"
  /\ \/ seen \notin {"executing", "integrating", "validating", "finalizing"}
     \/ seen = "executing" /\ ~AllSucceeded
  /\ Goto("idle")
  /\ UNCHANGED <<runVars, approval, completed, head, taskVars, branches,
                 intVars, restarts>>

\* detectAllSucceeded: every approval mode gates the merge.  A pending
\* request is returned as it is; an answered one does not stop a new one.
VisitExecuting ==
  /\ pc = "visit"
  /\ seen = "executing"
  /\ AllSucceeded
  /\ approval' = "pending"
  /\ Goto("gate")
  /\ UNCHANGED <<runVars, completed, head, taskVars, branches, intVars,
                 restarts>>

Gate ==
  /\ pc = "gate"
  /\ TransitionRun("awaiting_approval")
  /\ Goto("idle")
  /\ UNCHANGED <<approval, completed, head, taskVars, branches, intVars,
                 restarts>>

\* Mutant of VisitIntegrating: the completed event is not looked for.
VisitIntegratingAfresh ==
  /\ pc = "visit"
  /\ seen = "integrating"
  /\ Goto("discard")
  /\ UNCHANGED <<runVars, approval, completed, head, taskVars, branches,
                 intVars, restarts>>

VisitIntegrating ==
  /\ pc = "visit"
  /\ seen = "integrating"
  /\ Goto(IF completed THEN "verify" ELSE "discard")
  /\ UNCHANGED <<runVars, approval, completed, head, taskVars, branches,
                 intVars, restarts>>

\* MergeInOrderStrategy.run removes what an earlier attempt left, worktree
\* first: a branch that is checked out cannot be deleted.
Discard ==
  /\ pc = "discard"
  /\ \/ /\ intTree' = FALSE
        /\ intBranch' = FALSE
        /\ merged' = {}
     \/ /\ Faults
        /\ intTree' \in {intTree, FALSE}
        /\ UNCHANGED <<intBranch, merged>>
  /\ head' = IF intBranch' THEN head ELSE IF head = "tip" THEN "old" ELSE head
  /\ Goto("provision")
  /\ UNCHANGED <<runVars, approval, completed, taskVars, branches, restarts>>

\* provisionIntegrationWorktree.
Provision ==
  /\ pc = "provision"
  /\ intTree' = TRUE
  /\ intBranch' = TRUE
  /\ todo' = Refs \ Empty
  /\ pc' = "merge"
  /\ UNCHANGED <<runVars, approval, completed, head, taskVars, branches,
                 merged, seen, clean, restarts>>

\* One git merge of the first task left, in plan order.
Merge ==
  /\ pc = "merge"
  /\ \E t \in todo :
       /\ \A u \in todo : t <= u
       /\ t \in branches
       /\ merged' = merged \cup {t}
       /\ head' = IF head = "tip" /\ t \notin merged THEN "old" ELSE head
       /\ todo' = todo \ {t}
  /\ UNCHANGED <<runVars, approval, completed, taskVars, branches, intBranch,
                 intTree, pc, seen, clean, restarts>>

Merged ==
  /\ pc = "merge"
  /\ todo = {}
  /\ Goto("attach")
  /\ UNCHANGED <<runVars, approval, completed, head, taskVars, branches,
                 intVars, restarts>>

\* A conflict, or the strategy throws.
IntegrationFails ==
  /\ \/ pc = "merge" /\ todo # {}
     \/ Faults /\ pc \in {"provision", "merge"}
  /\ Goto("failed")
  /\ UNCHANGED <<runVars, approval, completed, head, taskVars, branches,
                 intVars, restarts>>

\* Mutant of Attach: the name of the branch is stored for its tip.
AttachName ==
  /\ pc = "attach"
  /\ IF phase = "integrating"
     THEN head' = "branch" /\ Goto("announce")
     ELSE UNCHANGED head /\ Goto("idle")
  /\ UNCHANGED <<runVars, approval, completed, taskVars, branches, intVars,
                 restarts>>

\* Mutant of Attach: the head of an earlier attempt is left in place.
AttachFirstOnly ==
  /\ pc = "attach"
  /\ IF phase = "integrating"
     THEN head' = (IF head = "none" THEN "tip" ELSE head) /\ Goto("announce")
     ELSE UNCHANGED head /\ Goto("idle")
  /\ UNCHANGED <<runVars, approval, completed, taskVars, branches, intVars,
                 restarts>>

\* The result goes on the run record, if the run is still integrating.
Attach ==
  /\ pc = "attach"
  /\ IF phase = "integrating"
     THEN head' = "tip" /\ Goto("announce")
     ELSE UNCHANGED head /\ Goto("idle")
  /\ UNCHANGED <<runVars, approval, completed, taskVars, branches, intVars,
                 restarts>>

Announce ==
  /\ pc = "announce"
  /\ completed' = TRUE
  /\ Goto("advance")
  /\ UNCHANGED <<runVars, approval, head, taskVars, branches, intVars,
                 restarts>>

Advance ==
  /\ pc = "advance"
  /\ TransitionRun("validating")
  /\ Goto("idle")
  /\ UNCHANGED <<approval, completed, head, taskVars, branches, intVars,
                 restarts>>

-----------------------------------------------------------------------------
(* The tick: validation and finalization *)

VisitValidating ==
  /\ pc = "visit"
  /\ seen = "validating"
  /\ Goto("verify")
  /\ UNCHANGED <<runVars, approval, completed, head, taskVars, branches,
                 intVars, restarts>>

Verify ==
  /\ pc = "verify"
  /\ Goto(IF Sound THEN "accept" ELSE "failed")
  /\ UNCHANGED <<runVars, approval, completed, head, taskVars, branches,
                 intVars, restarts>>

\* A sound integration moves on from the phase the tick has read.
Accept ==
  /\ pc = "accept"
  /\ TransitionRun(IF seen = "integrating" THEN "validating" ELSE "finalizing")
  /\ Goto("idle")
  /\ UNCHANGED <<approval, completed, head, taskVars, branches, intVars,
                 restarts>>

\* run.integration.failed is appended, then the run is blocked.
ReportFailure ==
  /\ pc = "failed"
  /\ Goto("block")
  /\ UNCHANGED <<runVars, approval, completed, head, taskVars, branches,
                 intVars, restarts>>

\* Mutant of Block: the failure is reported and the run left as it is.
BlockNothing ==
  /\ pc = "block"
  /\ Goto("idle")
  /\ UNCHANGED <<runVars, approval, completed, head, taskVars, branches,
                 intVars, restarts>>

Block ==
  /\ pc = "block"
  /\ TransitionRun("blocked")
  /\ Goto("idle")
  /\ UNCHANGED <<approval, completed, head, taskVars, branches, intVars,
                 restarts>>

\* Mutant of VisitFinalizing: cleanupOk is not reset on a new attempt.
VisitFinalizingSticky ==
  /\ pc = "visit"
  /\ seen = "finalizing"
  /\ pc' = "cleanup"
  /\ todo' = {t \in Tasks : work[t] \in {"running", "succeeded", "canceled"}}
  /\ UNCHANGED <<runVars, approval, completed, head, taskVars, branches,
                 intVars, seen, clean, restarts>>

\* finalizeRun: the branch of every task that has one, whatever its status.
VisitFinalizing ==
  /\ pc = "visit"
  /\ seen = "finalizing"
  /\ pc' = "cleanup"
  /\ todo' = {t \in Tasks : work[t] \in {"running", "succeeded", "canceled"}}
  /\ clean' = TRUE
  /\ UNCHANGED <<runVars, approval, completed, head, taskVars, branches,
                 intVars, seen, restarts>>

\* git branch -D refuses a branch that a worktree still has checked out.
RemoveBranch ==
  /\ pc = "cleanup"
  /\ \E t \in todo :
       /\ todo' = todo \ {t}
       /\ \/ /\ t \notin trees
             /\ branches' = branches \ {t}
             /\ UNCHANGED clean
          \/ /\ t \in trees \/ Faults
             /\ clean' = FALSE
             /\ UNCHANGED branches
  /\ UNCHANGED <<runVars, approval, completed, head, taskVars, intVars, pc,
                 seen, restarts>>

BranchesDone ==
  /\ pc = "cleanup"
  /\ todo = {}
  /\ Goto("dismantle")
  /\ UNCHANGED <<runVars, approval, completed, head, taskVars, branches,
                 intVars, restarts>>

\* The integration worktree goes, its branch stays.  Any failure keeps the
\* run in finalizing until the next tick.
Dismantle ==
  /\ pc = "dismantle"
  /\ \/ intTree' = FALSE /\ pc' = IF clean THEN "conclude" ELSE "idle"
     \/ Faults /\ UNCHANGED intTree /\ pc' = "idle"
  /\ UNCHANGED <<runVars, approval, completed, head, taskVars, branches,
                 intBranch, merged, seen, todo, clean, restarts>>

Conclude ==
  /\ pc = "conclude"
  /\ TransitionRun("succeeded")
  /\ Goto("idle")
  /\ UNCHANGED <<approval, completed, head, taskVars, branches, intVars,
                 restarts>>

\* An append that throws ends the tick; the next one starts over.
TickThrows ==
  /\ Faults
  /\ pc \in {"visit", "gate", "failed", "announce"}
  /\ Goto("idle")
  /\ UNCHANGED <<runVars, approval, completed, head, taskVars, branches,
                 intVars, restarts>>

TickStep ==
  \/ TickStart \/ VisitNothing \/ VisitExecuting \/ Gate
  \/ VisitIntegrating \/ Discard \/ Provision \/ Merge \/ Merged
  \/ IntegrationFails \/ Attach \/ Announce \/ Advance
  \/ VisitValidating \/ Verify \/ Accept \/ ReportFailure \/ Block
  \/ VisitFinalizing \/ RemoveBranch \/ BranchesDone \/ Dismantle \/ Conclude
  \/ TickThrows

-----------------------------------------------------------------------------
(* The operator and the process *)

\* The RPC runTransition.  A canceled run retires its unfinished tasks.
OperatorTransition ==
  /\ \E m \in OperatorMoves :
       /\ phase = m[1]
       /\ CanMove(phase, suspendedFrom, m[2])
       /\ TransitionRun(m[2])
       /\ work' = [t \in Tasks |->
                     IF m[2] = "canceled" /\ work[t] # "succeeded"
                     THEN "canceled" ELSE work[t]]
  /\ UNCHANGED <<approval, completed, head, based, trees, made, leaving,
                 branches, intVars, tickVars, restarts>>

\* resolveApproval: the answer is recorded; no hook is wired to act on it.
ResolveApproval ==
  /\ approval = "pending"
  /\ approval' \in {"approved", "rejected"}
  /\ UNCHANGED <<runVars, completed, head, taskVars, branches, intVars,
                 tickVars, restarts>>

\* The process ends and starts again; reconciliation re-queues the tasks of
\* a live run that were under way.
Restart ==
  /\ restarts < MaxRestarts
  /\ restarts' = restarts + 1
  /\ made' = {}
  /\ leaving' = {}
  /\ work' = [t \in Tasks |->
                IF work[t] \in {"provisioning", "running"}
                   /\ phase \notin TerminalPhases
                THEN "ready" ELSE work[t]]
  /\ pc' = "idle"
  /\ UNCHANGED <<runVars, approval, completed, head, based, trees, branches,
                 intVars, seen, todo, clean>>

Next ==
  \/ \E t \in Tasks : TaskStep(t)
  \/ TickStep
  \/ OperatorTransition
  \/ ResolveApproval
  \/ Restart

Spec == Init /\ [][Next]_vars

\* The timer keeps starting ticks, and every piece of a tick is followed by
\* the next; a task keeps going until its worktree is removed.  Nothing
\* obliges the operator, no attempt has to fail.
Fairness ==
  /\ WF_vars(TickStep)
  /\ \A t \in Tasks :
       WF_vars(RecordIdentity(t) \/ TaskSucceeds(t) \/ RemoveTaskTree(t))

FairSpec == Spec /\ Fairness

-----------------------------------------------------------------------------
(* Properties *)

\* Every variable has its type.
TypeOK ==
  /\ phase \in Phases
  /\ suspendedFrom \in Phases \cup {NoPhase}
  /\ approval \in {"none", "pending", "approved", "rejected"}
  /\ completed \in BOOLEAN
  /\ head \in {"none", "tip", "old"}
  /\ work \in [Tasks -> WorkStages]
  /\ based \subseteq Tasks
  /\ branches \subseteq Tasks
  /\ trees \subseteq Tasks
  /\ intBranch \in BOOLEAN
  /\ intTree \in BOOLEAN
  /\ merged \subseteq Tasks
  /\ made \subseteq Tasks
  /\ leaving \subseteq Tasks
  /\ pc \in Pcs
  /\ seen \in Phases \cup {NoPhase}
  /\ todo \subseteq Tasks
  /\ clean \in BOOLEAN
  /\ restarts \in 0..MaxRestarts

\* The commits of a succeeded task are always somewhere: on its own branch,
\* or on the integration branch.  Re-merging deletes the integration branch
\* and finalizing deletes the task branches; a crash, a cancellation or a
\* stale tick must not let the two meet.
WorkKept ==
  \A t \in Tasks \ Empty : work[t] = "succeeded" =>
    t \in branches \/ (intBranch /\ t \in merged)

\* A run that succeeded has the work of all its tasks on its integration
\* branch, whatever was paused, repeated or cut short on the way.
SucceededIsIntegrated ==
  phase = "succeeded" =>
    /\ AllSucceeded
    /\ intBranch /\ Tasks \ Empty \subseteq merged

\* The pipeline keeps the promise of CompletionPromise: a run is open until
\* its phase is terminal, a task is dropped when its branch is gone.
Promise ==
  INSTANCE CompletionPromise WITH
    Tasks <- Tasks \ Empty,
    outcome <- IF phase \in TerminalPhases THEN phase ELSE "open",
    merged <- IF intBranch THEN merged \ Empty ELSE {},
    dropped <- {t \in Tasks \ Empty :
                  work[t] = "succeeded" /\ t \notin branches}

\* The integration branch is rebuilt only while every task branch exists,
\* branches go only when all is merged, and the run is decided once.
PromiseKept == Promise!Spec

\* Once the log says the integration is completed, run.integrationHead names
\* the tip of the branch as it is, not of an attempt that was thrown away.
HeadIsTip == completed => head = "tip"

\* "no re-merge" (task-service.ts, the crash-safety leg): a completed
\* integration is never touched again.
MergedOnce == [][completed => UNCHANGED <<merged, intBranch>>]_vars

\* A run does not stay in integrating or validating: its tick moves it on or
\* blocks it, also after a restart in the middle.
CompletionMoves ==
  /\ phase = "integrating" ~> phase # "integrating"
  /\ phase = "validating" ~> phase # "validating"

\* A finalizing run ends if, in the end, no task worktree is left, however
\* its first attempts at the cleanup went and wherever a restart cut them.
CleanFinalizingEnds ==
  <>[](trees = {}) => (phase = "finalizing" ~> phase \in TerminalPhases)
=============================================================================
