--------------------------- MODULE IssueOrchestrator ---------------------------
(***************************************************************************)
(* The issue orchestrator of one project (src/src/orchestrator/            *)
(* orchestrator.ts) with the agent runner (src/src/agent/                  *)
(* harness-runner.ts) and the workspace manager it drives: it polls a task *)
(* source, launches an agent per eligible issue, aborts agents whose issue *)
(* moved away, retries, and removes the workspaces of finished issues.     *)
(*                                                                         *)
(* Agents, people and the provider move the issues at any time; a poll     *)
(* works on the board it read some awaits ago.  An action is the code      *)
(* between two awaits.                                                     *)
(*                                                                         *)
(* Times are abstract: the timer is armed or not, a retry is due or not.   *)
(* Attempt numbers, runtime views and timelines are left out.              *)
(***************************************************************************)
EXTENDS WorkspaceManager, Naturals, FiniteSets

CONSTANTS
  Rank,           \* the order of compareCandidates
  MaxConcurrent,  \* agent.max_concurrent_agents
  StateLimit,     \* agent.max_concurrent_agents_by_state, for each active state
  MaxEvents,      \* bound on what disturbs the desk: moves of issues, commands,
                  \* faults and restarts
  NoIssue

\* "held" is an active state of an issue that is not dispatchable or lacks a
\* required label; "gone" an issue the task source no longer lists.
ActiveStates == {"todo", "doing", "held"}
TrackerStates == ActiveStates \cup {"parked", "done", "gone"}

ASSUME OrchestratorAssumptions ==
  /\ IsFiniteSet(Issues) /\ NoIssue \notin Issues
  /\ Rank \in [Issues -> Nat]
  /\ \A i, j \in Issues : Rank[i] = Rank[j] => i = j
  /\ MaxConcurrent \in Nat \ {0}
  /\ StateLimit \in [ActiveStates -> Nat]
  /\ MaxEvents \in Nat
  /\ Worktree \in BOOLEAN

\* Where execute stands for an issue; "idle" means it is not in the running map.
\*   prepare..before      workspaces.prepare, then the before_run hook
\*   agent                the session works
\*   closing              the outcome is known, the session is being disposed
\*   afterTerminal        after_run before the removal of a finished issue
\*   beforeRemove         before_remove is running
\*   afterFinal           after_run in the finally block
RunPcs == {"idle", "prepare", "check", "checkNew", "init", "undo", "before", "agent",
           "closing", "afterTerminal", "beforeRemove", "afterFinal"}

\* Where the outcome of an attempt is still open.
Working == {"prepare", "check", "checkNew", "init", "undo", "before", "agent"}

\* How the attempt ended, once it is known.
Outcomes == {"none", "terminal", "active", "inactive", "error"}

VARIABLES
  (* the task source; history: issues that were done since their last launch *)
  tracker, over,
  (* the running map: record.issue.state, the abort signal, execute's locals *)
  run,
  (* the retry map, and those entries whose time has come *)
  retries, due,
  (* marks left by reconciliation and by the operator *)
  manualStops, terminalStops,
  (* the poll *)
  pollPc, dispatchEnabled, fetched, visited, removing,
  timer,      \* a timer is armed
  joined,     \* a refresh waits for an overview poll to end
  (* a Dashboard mutation, and how far it is to be seen: the poll that may show *)
  (* it has not read the source, has read it, or has set the board *)
  mutation, shown,
  (* switches *)
  active, paused, disposed,
  events

sourceVars == <<tracker, over>>
execVars == <<run, retries, due, manualStops, terminalStops>>
pollVars == <<pollPc, dispatchEnabled, fetched, visited, removing, timer, joined>>
mutationVars == <<mutation, shown>>
switchVars == <<active, paused, disposed>>
vars == <<dir, sourceVars, execVars, pollVars, mutationVars, switchVars, events>>

\* One more of the bounded disturbances, or none.
Event == events < MaxEvents /\ events' = events + 1
Calm == UNCHANGED events

NothingRead == [i \in Issues |-> "gone"]

Idle == [pc |-> "idle", seen |-> "todo", aborted |-> FALSE,
         outcome |-> "none"]

Running == {i \in Issues : run[i].pc # "idle"}

-----------------------------------------------------------------------------
(* Dispatch *)

Dispatchable(s) == s \in {"todo", "doing"}

\* Mutant of Candidates: an issue that waits for a retry is taken.
CandidatesFresh(kept) ==
  {i \in Issues : Dispatchable(fetched[i]) /\ i \notin Running \cup kept}

\* The filters of dispatch, given the retry map at that point.
Candidates(kept) ==
  {i \in Issues : /\ Dispatchable(fetched[i])
                  /\ i \notin Running
                  /\ i \notin (kept \ due)}

\* compareCandidates: a strict order, by priority, age and identifier.
Before(i, j) == Rank[i] < Rank[j]

\* stateLimit.
LimitOf(s) == StateLimit[s]

\* The running issues that count against the limit of a state, given the
\* records as reconciliation has just left them.
CountedIn(s, runs) == {i \in Running : runs[i].seen = s}

\* Mutant of Admits: the issues launched by this dispatch take no slot.
AdmitsUncounted(i, earlier, runs) ==
  /\ Cardinality(Running) < MaxConcurrent
  /\ Cardinality(CountedIn(fetched[i], runs)) < LimitOf(fetched[i])

\* Whether the loop launches i after it launched the issues in `earlier`.
Admits(i, earlier, runs) ==
  /\ Cardinality(Running \cup earlier) < MaxConcurrent
  /\ Cardinality(CountedIn(fetched[i], runs)
                 \cup {j \in earlier : fetched[j] = fetched[i]})
       < LimitOf(fetched[i])

\* The issues one dispatch launches: the loop goes by rank and skips an issue
\* that does not fit.
Dispatched(kept, runs) ==
  LET candidates == Candidates(kept)
  IN  CHOOSE L \in SUBSET candidates :
        \A i \in candidates :
          i \in L <=> Admits(i, {j \in L : Before(j, i)}, runs)

\* Mutant of RetriesAfter: the retry that is launched stays in the map.
RetriesAfterKept(kept, launched) == kept

RetriesAfter(kept, launched) == kept \ launched

Launch(i) == [Idle EXCEPT !.pc = "prepare", !.seen = fetched[i]]

-----------------------------------------------------------------------------
(* Reconciliation: what a fetched board does to the records *)

\* Mutant of SyncVerdict: an issue that disappeared counts as terminal.
SyncVerdictMissingTerminal(i) ==
  IF fetched[i] \in {"done", "gone"} THEN "terminal"
  ELSE IF fetched[i] \in ActiveStates THEN "keep"
  ELSE "manual"

\* The first loop of reconcileRuntime, for a running issue.
SyncVerdict(i) ==
  IF fetched[i] = "done" THEN "terminal"
  ELSE IF fetched[i] \in ActiveStates THEN "keep"
  ELSE "manual"

Synced ==
  [i \in Issues |->
     IF i \notin Running THEN run[i]
     ELSE IF SyncVerdict(i) = "keep" THEN [run[i] EXCEPT !.seen = fetched[i]]
     ELSE [run[i] EXCEPT !.aborted = TRUE]]

MarkSynced ==
  /\ manualStops' = manualStops \cup {i \in Running : SyncVerdict(i) = "manual"}
  /\ terminalStops' =
       terminalStops \cup {i \in Running : SyncVerdict(i) = "terminal"}

\* refresh: what a call does, to be combined with the end of a poll.
StartPoll(withDispatch) ==
  /\ pollPc' = "listing"
  /\ dispatchEnabled' = withDispatch

\* The end of a poll: a dispatching one arms the timer (scheduleNext), an
\* overview one lets the refresh that joined it start a poll of its own.
PollEnds ==
  /\ visited' = {} /\ removing' = NoIssue /\ fetched' = NothingRead
  /\ timer' = (timer \/ (dispatchEnabled /\ active /\ ~disposed))
  /\ joined' = FALSE
  /\ mutation' = IF mutation = "refreshing" THEN "none" ELSE mutation
  /\ IF joined /\ ~dispatchEnabled /\ active /\ ~disposed
     THEN StartPoll(TRUE)
     ELSE pollPc' = "idle" /\ dispatchEnabled' = FALSE

\* Mutant of MayDispatch: ownership is not looked at again after the read.
MayDispatchStale == dispatchEnabled

\* poll, after reconciliation: the desk still owns the project.
MayDispatch == dispatchEnabled /\ active /\ ~paused

\* Mutant of KeptRetries: a finished issue is dropped like one that moved away.
KeptRetriesActive(left) == {i \in left : fetched[i] \in ActiveStates}

\* The retries that the second loop of reconcileRuntime does not drop at once.
KeptRetries(left) == {i \in left : fetched[i] \in ActiveStates \cup {"done"}}

\* The rest of reconcileRuntime and of the poll, from the retry map `left` and
\* the records `runs`: drop the retries of issues that moved away, remove the
\* next finished one (an await), or dispatch and end.
ContinuePoll(left, seenRetries, runs) ==
  LET kept == KeptRetries(left)
      finished == {i \in kept \ seenRetries : fetched[i] = "done"}
  IN  IF finished # {}
      THEN \E i \in finished :
             /\ pollPc' = "removing" /\ removing' = i
             /\ visited' = seenRetries \cup {i}
             /\ retries' = kept /\ due' = due \cap kept
             /\ run' = runs
             /\ UNCHANGED <<over, dispatchEnabled, fetched, timer, joined, mutation>>
      ELSE LET launched == IF MayDispatch THEN Dispatched(kept, runs) ELSE {}
           IN  /\ retries' = RetriesAfter(kept, launched)
               /\ due' = due \cap RetriesAfter(kept, launched)
               /\ run' = [i \in Issues |-> IF i \in launched THEN Launch(i)
                                           ELSE runs[i]]
               /\ over' = over \ {i \in launched : tracker[i] # "done"}
               /\ PollEnds

-----------------------------------------------------------------------------
(* The poll *)

Init ==
  /\ WorkspaceInit
  /\ tracker = [i \in Issues |-> "todo"] /\ over = {}
  /\ run = [i \in Issues |-> Idle]
  /\ retries = {} /\ due = {}
  /\ manualStops = {} /\ terminalStops = {}
  /\ pollPc = "idle" /\ dispatchEnabled = FALSE /\ fetched = NothingRead
  /\ visited = {} /\ removing = NoIssue
  /\ timer = TRUE /\ joined = FALSE
  /\ mutation = "none" /\ shown = "board"
  /\ active = TRUE /\ paused = FALSE /\ disposed = FALSE
  /\ events = 0

\* Mutant of RefreshCall: a call that meets an overview poll is content with it.
RefreshCallSatisfied ==
  IF disposed \/ ~active \/ pollPc # "idle"
  THEN UNCHANGED <<pollPc, dispatchEnabled, joined>>
  ELSE StartPoll(TRUE) /\ UNCHANGED joined

\* refresh, from the timer or a client.
RefreshCall ==
  IF disposed \/ ~active
  THEN UNCHANGED <<pollPc, dispatchEnabled, joined>>
  ELSE IF pollPc = "idle"
       THEN StartPoll(TRUE) /\ UNCHANGED joined
       ELSE /\ joined' = (joined \/ ~dispatchEnabled)
            /\ UNCHANGED <<pollPc, dispatchEnabled>>

TimerFires ==
  /\ timer
  /\ timer' = FALSE
  /\ RefreshCall
  /\ Calm
  /\ UNCHANGED <<fetched, visited, removing>>
  /\ UNCHANGED <<dir, sourceVars, execVars, mutationVars, switchVars>>

ClientRefreshes ==
  /\ Event
  /\ RefreshCall
  /\ UNCHANGED <<fetched, visited, removing, timer>>
  /\ UNCHANGED <<dir, sourceVars, execVars, mutationVars, switchVars>>

\* refreshOverview, for the view of all projects: a poll that is running will
\* do.
RefreshOverview ==
  /\ Event
  /\ ~disposed /\ pollPc = "idle"
  /\ StartPoll(FALSE)
  /\ UNCHANGED <<fetched, visited, removing, timer, joined>>
  /\ UNCHANGED <<dir, sourceVars, execVars, mutationVars, switchVars>>

\* listBoardIssues: the moment the task source takes the list.
PollRead ==
  /\ pollPc = "listing"
  /\ pollPc' = "fetched"
  /\ fetched' = tracker
  /\ shown' = IF shown = "no" THEN "fetched" ELSE shown
  /\ Calm
  /\ UNCHANGED <<dispatchEnabled, visited, removing, timer, joined, mutation>>
  /\ UNCHANGED <<dir, sourceVars, execVars, switchVars>>

\* The workflow is missing, or the task source throws.
PollFails ==
  /\ pollPc = "listing"
  /\ Event
  /\ PollEnds
  /\ UNCHANGED <<dir, sourceVars, execVars, shown, switchVars>>

PollReconcile ==
  /\ pollPc = "fetched"
  /\ shown' = IF shown = "fetched" THEN "board" ELSE shown
  /\ MarkSynced
  /\ ContinuePoll(retries, {}, Synced)
  /\ Calm
  /\ UNCHANGED <<dir, tracker, switchVars>>

\* workspaces.remove of a finished retry ends; a hook or check that fails keeps
\* the entry for the next poll.
PollRemoved ==
  /\ pollPc = "removing"
  /\ \/ /\ RemoveTarget(removing)
        /\ ContinuePoll(retries \ {removing}, visited, run)
        /\ Calm
     \/ /\ dir[removing] # "absent" /\ Event
        /\ UNCHANGED dir
        /\ ContinuePoll(retries, visited, run)
  /\ UNCHANGED <<tracker, manualStops, terminalStops, shown, switchVars>>

\* Mutant of RetryDue: the time of a retry that is gone comes too.
RetryDueAny(i) ==
  /\ i \notin due
  /\ due' = due \cup {i}
  /\ Calm
  /\ UNCHANGED <<run, retries, manualStops, terminalStops>>
  /\ UNCHANGED <<dir, sourceVars, pollVars, mutationVars, switchVars>>

RetryDue(i) ==
  /\ i \in retries \ due
  /\ due' = due \cup {i}
  /\ Calm
  /\ UNCHANGED <<run, retries, manualStops, terminalStops>>
  /\ UNCHANGED <<dir, sourceVars, pollVars, mutationVars, switchVars>>

-----------------------------------------------------------------------------
(* One execution: execute, with prepare, the hooks and the runner.  The    *)
(* actions leave the task source, the switches and most of the poll alone. *)

ExecFrame ==
  /\ UNCHANGED <<pollPc, dispatchEnabled, fetched, removing, joined>>
  /\ UNCHANGED <<sourceVars, mutationVars, switchVars>>

\* A hook, command or session fails by itself or because it was aborted.
Fails(i) == IF run[i].aborted THEN Calm ELSE Event

Goto(i, pc) == run' = [run EXCEPT ![i].pc = pc]

NoMarks == UNCHANGED <<manualStops, terminalStops>>
NoRetry == UNCHANGED <<retries, due, visited>>

\* A step of execute that only goes on.
Proceed(i, pc) ==
  /\ Goto(i, pc)
  /\ NoMarks /\ NoRetry /\ UNCHANGED timer

\* scheduleRetry.  An entry written while the poll iterates over the map is
\* visited by that poll.
ScheduleRetry(i) ==
  /\ retries' = retries \cup {i}
  /\ due' = due \ {i}
  /\ visited' = visited \ {i}

\* The marks of the run are dropped (the catch and the finally block).
DropMarks(i) ==
  /\ manualStops' = manualStops \ {i}
  /\ terminalStops' = terminalStops \ {i}

\* Mutant of Finish: the marks outlive the run.
FinishMarked(i) ==
  /\ run' = [run EXCEPT ![i] = Idle]
  /\ NoMarks
  /\ timer' = (timer \/ (active /\ ~disposed))

\* The end of the finally block and the deletion of the running entry, which
\* schedules a poll.
Finish(i) ==
  /\ run' = [run EXCEPT ![i] = Idle]
  /\ DropMarks(i)
  /\ timer' = (timer \/ (active /\ ~disposed))

\* The catch block reads and drops the marks.  `owed` says that after_run has
\* still to run because prepare returned.
Catch(i, owed) ==
  IF i \in terminalStops
  THEN /\ run' = [run EXCEPT ![i].outcome = "error",
                             ![i].pc = IF owed THEN "afterTerminal"
                                       ELSE "beforeRemove"]
       /\ DropMarks(i) /\ NoRetry /\ UNCHANGED timer
  ELSE /\ IF i \in manualStops \/ disposed THEN NoRetry ELSE ScheduleRetry(i)
       /\ IF owed THEN Goto(i, "afterFinal") /\ DropMarks(i) /\ UNCHANGED timer
          ELSE Finish(i)

\* The directory is looked up and made if missing.  The abort signal can cut
\* the making of a worktree short.
ExecEnsure(i) ==
  /\ run[i].pc = "prepare"
  /\ \/ /\ EnsureDirectory(i)
        /\ Proceed(i, IF dir[i] = "absent" THEN "checkNew" ELSE "check")
        /\ Calm
     \/ /\ Fails(i)
        /\ UNCHANGED dir \/ (Worktree /\ CutInitialization(i))
        /\ Catch(i, FALSE)
  /\ ExecFrame

\* assertGitWorktree, which runs under the abort signal, before after_create.
ExecCheck(i) ==
  /\ run[i].pc \in {"check", "checkNew"}
  /\ \/ /\ Worktree => ~run[i].aborted
        /\ Proceed(i, IF run[i].pc = "checkNew" THEN "init" ELSE "before")
        /\ Calm /\ UNCHANGED dir
     \/ /\ Worktree /\ Fails(i)
        /\ IF run[i].pc = "checkNew" THEN CutInitialization(i) ELSE UNCHANGED dir
        /\ Catch(i, FALSE)
  /\ ExecFrame

\* after_create; an abort counts as a failure of the hook.
ExecInit(i) ==
  /\ run[i].pc = "init"
  /\ \/ ~run[i].aborted /\ Calm /\ Initialize(i) /\ Proceed(i, "before")
     \/ Fails(i) /\ UNCHANGED dir /\ Proceed(i, "undo")
  /\ ExecFrame

\* removeFailedInitialization, which may itself fail.
ExecUndo(i) ==
  /\ run[i].pc = "undo"
  /\ \/ Calm /\ RemoveFailedInitialization(i)
     \/ Event /\ CutInitialization(i)
  /\ Catch(i, FALSE)
  /\ ExecFrame

\* before_run.
ExecBefore(i) ==
  /\ run[i].pc = "before"
  /\ \/ ~run[i].aborted /\ Calm /\ Proceed(i, "agent")
     \/ Fails(i) /\ Catch(i, TRUE)
  /\ UNCHANGED dir
  /\ ExecFrame

\* What the runner makes of the issue it refreshes after its last turn.
OutcomeOf(s) ==
  IF s = "done" THEN "terminal"
  ELSE IF s \in ActiveStates THEN "active" ELSE "inactive"

\* The last turn of the session ends, in an error or completed; which turn is
\* the last is not told.
AgentEnds(i) ==
  /\ run[i].pc = "agent"
  /\ \E o \in {OutcomeOf(tracker[i]), "error"} :
       /\ run' = [run EXCEPT ![i].pc = "closing", ![i].outcome = o]
       /\ IF o = "error" THEN Fails(i) ELSE Calm
  /\ NoMarks /\ NoRetry /\ UNCHANGED <<timer, dir>>
  /\ ExecFrame

\* The session is disposed and execute gets the outcome.
AgentCloses(i) ==
  /\ run[i].pc = "closing"
  /\ CASE run[i].outcome = "terminal" -> Proceed(i, "afterTerminal")
       [] run[i].outcome = "inactive" -> Proceed(i, "afterFinal")
       [] run[i].outcome = "active" ->
            /\ ScheduleRetry(i)
            /\ Goto(i, "afterFinal") /\ NoMarks /\ UNCHANGED timer
       [] OTHER -> Catch(i, TRUE)
  /\ Calm /\ UNCHANGED dir
  /\ ExecFrame

\* after_run of a finished issue.
AfterRunTerminal(i) ==
  /\ run[i].pc = "afterTerminal"
  /\ Proceed(i, "beforeRemove")
  /\ Calm /\ UNCHANGED dir
  /\ ExecFrame

\* remove: before_remove, the second look at the target, the removal.  The
\* failure is logged in the catch block, and caught by it otherwise.
RemoveFinished(i) ==
  /\ run[i].pc = "beforeRemove"
  /\ \/ /\ RemoveTarget(i) /\ Calm
        /\ Finish(i) /\ NoRetry
     \/ /\ dir[i] # "absent" /\ Event /\ UNCHANGED dir
        /\ IF run[i].outcome = "terminal" THEN Catch(i, FALSE)
           ELSE Finish(i) /\ NoRetry
  /\ ExecFrame

\* after_run in the finally block.
AfterRunFinal(i) ==
  /\ run[i].pc = "afterFinal"
  /\ Finish(i) /\ NoRetry
  /\ Calm /\ UNCHANGED dir
  /\ ExecFrame

Execution(i) ==
  \/ ExecEnsure(i) \/ ExecCheck(i) \/ ExecInit(i) \/ ExecUndo(i) \/ ExecBefore(i)
  \/ AgentEnds(i) \/ AgentCloses(i)
  \/ AfterRunTerminal(i) \/ RemoveFinished(i) \/ AfterRunFinal(i)

-----------------------------------------------------------------------------
(* The issues move; the operator commands; the process restarts *)

Moves(i, s) ==
  /\ Event
  /\ s # tracker[i]
  /\ tracker' = [tracker EXCEPT ![i] = s]
  /\ over' = IF s = "done" THEN over \cup {i} ELSE over

\* An agent, a person or the provider moves an issue.
TrackerMoves(i, s) ==
  /\ Moves(i, s)
  /\ UNCHANGED <<dir, execVars, pollVars, mutationVars, switchVars>>

\* createTask, updateTask, deleteTask: the source has applied the change.
MutateTask(i, s) ==
  /\ mutation = "none"
  /\ Moves(i, s)
  /\ mutation' = "draining" /\ shown' = "no"
  /\ UNCHANGED <<dir, execVars, pollVars, switchVars>>

\* Mutant of RefreshAfterMutation: the poll that is running will do.
RefreshAfterMutationJoined ==
  /\ mutation = "draining"
  /\ mutation' = IF active /\ ~disposed THEN "refreshing" ELSE "none"
  /\ IF pollPc = "idle" /\ active /\ ~disposed
     THEN StartPoll(TRUE) ELSE UNCHANGED <<pollPc, dispatchEnabled>>
  /\ Calm
  /\ UNCHANGED <<fetched, visited, removing, timer, joined>>
  /\ UNCHANGED <<dir, sourceVars, execVars, shown, switchVars>>

\* refreshAfterMutation: polls that may have read too early are waited out,
\* then a fresh one is started; a suspended desk returns at once.
RefreshAfterMutation ==
  /\ mutation = "draining" /\ pollPc = "idle"
  /\ IF active /\ ~disposed
     THEN StartPoll(TRUE) /\ mutation' = "refreshing"
     ELSE mutation' = "none" /\ UNCHANGED <<pollPc, dispatchEnabled>>
  /\ Calm
  /\ UNCHANGED <<fetched, visited, removing, timer, joined>>
  /\ UNCHANGED <<dir, sourceVars, execVars, shown, switchVars>>

\* stopIssue.
StopIssue(i) ==
  /\ Event
  /\ i \in Running
  /\ manualStops' = manualStops \cup {i}
  /\ run' = [run EXCEPT ![i].aborted = TRUE]
  /\ UNCHANGED <<retries, due, terminalStops>>
  /\ UNCHANGED <<dir, sourceVars, pollVars, mutationVars, switchVars>>

\* setPaused.
SetPaused(p) ==
  /\ Event
  /\ p # paused
  /\ paused' = p
  /\ timer' = (timer \/ (~p /\ active /\ ~disposed))
  /\ UNCHANGED <<pollPc, dispatchEnabled, fetched, visited, removing, joined>>
  /\ UNCHANGED <<dir, sourceVars, execVars, mutationVars, active, disposed>>

\* setActive: another project is selected, or this one again.
SetActive(a) ==
  /\ Event
  /\ ~disposed /\ a # active
  /\ active' = a
  /\ timer' = a
  /\ UNCHANGED <<pollPc, dispatchEnabled, fetched, visited, removing, joined>>
  /\ UNCHANGED <<dir, sourceVars, execVars, mutationVars, paused, disposed>>

\* The disposer returned by start.
Dispose ==
  /\ Event
  /\ ~disposed
  /\ disposed' = TRUE /\ active' = FALSE /\ timer' = FALSE
  /\ run' = [i \in Issues |-> [run[i] EXCEPT !.aborted = (i \in Running)]]
  /\ UNCHANGED <<pollPc, dispatchEnabled, fetched, visited, removing, joined>>
  /\ UNCHANGED <<retries, due, manualStops, terminalStops, paused>>
  /\ UNCHANGED <<dir, sourceVars, mutationVars>>

\* The process ends between any two steps, and a new one starts the project.
Restart ==
  /\ Event
  /\ dir' = [i \in Issues |-> IF dir[i] = "fresh" THEN "cut" ELSE dir[i]]
  /\ run' = [i \in Issues |-> Idle]
  /\ retries' = {} /\ due' = {} /\ manualStops' = {} /\ terminalStops' = {}
  /\ pollPc' = "idle" /\ dispatchEnabled' = FALSE /\ fetched' = NothingRead
  /\ visited' = {} /\ removing' = NoIssue
  /\ timer' = TRUE /\ joined' = FALSE
  /\ mutation' = "none" /\ shown' = "board"
  /\ active' = TRUE /\ paused' = FALSE /\ disposed' = FALSE
  /\ UNCHANGED sourceVars

Poll ==
  \/ TimerFires \/ PollRead \/ PollFails \/ PollReconcile \/ PollRemoved
  \/ \E i \in Issues : RetryDue(i)
  \/ RefreshAfterMutation

Next ==
  \/ Poll
  \/ \E i \in Issues : Execution(i)
  \/ \E i \in Issues, s \in TrackerStates : TrackerMoves(i, s) \/ MutateTask(i, s)
  \/ ClientRefreshes \/ RefreshOverview
  \/ \E i \in Issues : StopIssue(i)
  \/ \E b \in BOOLEAN : SetPaused(b) \/ SetActive(b)
  \/ Dispose \/ Restart

Spec == Init /\ [][Next]_vars

\* Timers fire, the task source answers, hooks have a timeout, and the turns of
\* a session end.
Fairness ==
  /\ WF_vars(TimerFires)
  /\ WF_vars(PollRead \/ PollFails \/ PollReconcile \/ PollRemoved)
  /\ WF_vars(\E i \in Issues : RetryDue(i))
  /\ \A i \in Issues : WF_vars(Execution(i))

FairSpec == Spec /\ Fairness

-----------------------------------------------------------------------------
(* Properties *)

RunRecords == [pc : RunPcs, seen : TrackerStates, aborted : BOOLEAN,
               outcome : Outcomes]

TypeOK ==
  /\ WorkspaceTypeOK
  /\ tracker \in [Issues -> TrackerStates] /\ over \subseteq Issues
  /\ run \in [Issues -> RunRecords]
  /\ retries \subseteq Issues /\ due \subseteq retries
  /\ manualStops \subseteq Issues /\ terminalStops \subseteq Issues
  /\ pollPc \in {"idle", "listing", "fetched", "removing"}
  /\ fetched \in [Issues -> TrackerStates]
  /\ visited \subseteq Issues /\ removing \in Issues \cup {NoIssue}
  /\ (pollPc = "removing") <=> (removing # NoIssue)
  /\ mutation \in {"none", "draining", "refreshing"}
  /\ shown \in {"no", "fetched", "board"}
  /\ {dispatchEnabled, timer, joined, active, paused, disposed} \subseteq BOOLEAN
  /\ events \in 0..MaxEvents

\* The stop marks that reconciliation and the operator leave belong to a run
\* that is in the running map: no later run of the issue finds them.
MarksOwned == manualStops \cup terminalStops \subseteq Running

\* A desk that is active never goes deaf: a timer is armed, or a poll that will
\* arm one is on its way, whatever refreshes, overviews, runs and selections
\* met in between.
PollingArmed ==
  active /\ ~disposed =>
    timer \/ (pollPc # "idle" /\ (dispatchEnabled \/ joined))

\* While the poll removes the workspace of a retry whose issue is over, no
\* agent, and no hook but a last after_run, is at work in it.
WorkspaceExclusive ==
  removing # NoIssue => run[removing].pc \in {"idle", "afterFinal"}

\* An agent only meets a workspace whose after_create hook completed, unless an
\* abort, a refused check or a crash cut the initialization off before.
InitializedBeforeUse ==
  \A i \in Issues :
    run[i].pc \in {"before", "agent"} => dir[i] # "fresh"

\* The desk in every state: its stop marks are owned, it goes on polling, and no
\* two of the poll, the hooks and the agent use a workspace against each other.
DeskInv ==
  TypeOK /\ MarksOwned /\ PollingArmed /\ WorkspaceExclusive /\ InitializedBeforeUse

Launches(i) == run[i].pc = "idle" /\ run'[i].pc # "idle"

\* A poll that outlived a pause, a switch to another project or a disposal
\* launches nothing.
LaunchesOwned == \A i \in Issues : Launches(i) => active /\ ~paused /\ ~disposed

\* A launch never takes the running agents above the capacity, nor those known
\* to be in its issue's state above the limit of that state.
LaunchesWithinCapacity ==
  \A i \in Issues : Launches(i) =>
       /\ Cardinality(Running') <= MaxConcurrent
       /\ Cardinality({j \in Running' : run'[j].seen = run'[i].seen})
            <= StateLimit[run'[i].seen]

\* A workspace is removed only when its issue was in a terminal state at some
\* time since its last launch, or when its initialization is undone: an issue
\* that disappears or is parked keeps its workspace.
OnlyFinishedRemoved ==
  \A i \in Issues : dir[i] # "absent" /\ dir'[i] = "absent" =>
       i \in over \/ run[i].pc = "undo"

\* When a Dashboard mutation returns, the board was read after the source
\* applied it, unless the poll failed, the desk is suspended or the process ends.
MutationOnBoard ==
  mutation # "none" /\ mutation' = "none" =>
       shown' = "board" \/ pollPc = "listing" \/ ~active \/ disposed

\* What no step of the desk does: launch for a desk that has stopped or above
\* the capacity, delete work that is not over, answer a mutation from before it.
DeskSteps ==
  [][LaunchesOwned /\ LaunchesWithinCapacity /\ OnlyFinishedRemoved /\ MutationOnBoard]_vars

\* When nothing disturbs the desk any more, the workspace of an issue that is
\* done goes, if the desk still works on the issue or waits to retry it and no
\* poll that read the issue before holds it for parked: by the agent's own look
\* at the issue, by the abort of its run, or by the poll.
FinishedCleaned ==
  \A i \in Issues :
    /\ tracker[i] = "done" /\ events = MaxEvents
    /\ active /\ ~disposed
    /\ pollPc \in {"idle", "listing"}
    /\ i \in retries \/ (run[i].pc \in Working /\ ~run[i].aborted)
    ~> dir[i] = "absent"

\* As long as the desk may dispatch and the tracker holds an issue to work on,
\* it does not stay without an agent.
WorkIsPickedUp ==
  (\E i \in Issues : Dispatchable(tracker[i])) /\ Running = {}
    /\ active /\ ~paused /\ ~disposed
  ~> \/ Running # {} \/ ~active \/ paused \/ disposed
     \/ \A i \in Issues : ~Dispatchable(tracker[i])
=============================================================================
