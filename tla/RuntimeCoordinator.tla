-------------------------- MODULE RuntimeCoordinator --------------------------
(***************************************************************************)
(* The runtimes of the registered projects                                 *)
(* (src/src/runtime/coordinator.ts): every project has a context with its  *)
(* workflow file and its orchestrator; one of them is selected and polls,  *)
(* or all are shown, read only, in the global view.                        *)
(*                                                                         *)
(* Switches are serialized.  A refresh of the global view, its timer and   *)
(* the registrations, which rebuild the context of their project, are not. *)
(* Contexts are objects: a step that awaits goes on with the object it     *)
(* took, whatever the table of contexts says by then.                      *)
(*                                                                         *)
(* At most four contexts are loaded at once: with no more projects than    *)
(* that a pass begins them all together.  What an orchestrator does is     *)
(* modelled in IssueOrchestrator; a directory that cannot be watched, and  *)
(* the snapshots, are left out.                                            *)
(***************************************************************************)
EXTENDS ProjectCatalog

ASSUME FewProjects == MaxProjects <= 4

\* Who awaits is told apart.
ASSUME CallerNames == {"switch", "job"} \cap Registrars = {}

VARIABLES
  pool,     \* the contexts ever made for each project
  contexts, \* the index of the context a project has now, None for none
  current,  \* activeProjectId, or GlobalView for globalSelected
  switch,   \* the switch under way
  queue,    \* switches that wait for it
  job,      \* globalRefreshing
  force,    \* globalRefreshForceRequested
  timer,    \* globalTimer is armed
  reg,      \* where a registration stands in refreshProjectContext
  loading,  \* the contexts whose workflow each caller has begun to watch
  life,     \* "up", "stopping" or "stopped"
  owed      \* history: projects a refresh was asked for and that no pass has taken up

runtimeVars == <<pool, contexts, current, switch, queue, job, force, timer, reg, loading, life, owed>>
vars == <<catalogVars, runtimeVars, asks, torn>>

Callers == {"switch", "job"} \cup Registrars
Fresh == [watching |-> FALSE, watchers |-> 0, run |-> "none", active |-> FALSE]
NoContext == <<None, None>>
IdleSwitch == [pc |-> "off", to |-> None, target |-> NoContext]
IdleJob == [pc |-> "off", forced |-> FALSE]
IdleReg == [pc |-> "off", target |-> NoContext]

At(pl, o) == pl[o[1]][o[2]]
Here(p) == <<p, contexts[p]>>
Known == {r.id : r \in projects}
Global == current = GlobalView

TypeOK ==
  /\ CatalogTypeOK
  /\ \A p \in Ids : /\ pool[p] \in Seq([watching : BOOLEAN, watchers : Nat, active : BOOLEAN,
                                        run : {"none", "live", "disposed"}])
                    /\ contexts[p] \in 0..Len(pool[p])
  /\ current \in Known \cup {GlobalView}
  /\ switch.pc \in {"off", "ensure", "load", "reload", "commit", "refresh"}
  /\ job.pc \in {"off", "ensure", "view", "ending", "again"}
  /\ \A x \in Registrars : reg[x].pc \in {"off", "dispose", "load", "preload"}
  /\ force \in BOOLEAN /\ timer \in BOOLEAN
  /\ life \in {"up", "stopping", "stopped"} /\ owed \subseteq Known
  /\ torn \subseteq {"mutation", "context"}

-----------------------------------------------------------------------------
(* Contexts *)

\* ensureContext: the table with a context for each of ids.
PoolWith(pl, ids) == [p \in Ids |->
  IF p \in ids /\ contexts[p] = None THEN Append(pl[p], Fresh) ELSE pl[p]]
ContextsWith(ids) == [p \in Ids |->
  IF p \in ids /\ contexts[p] = None THEN Len(pool[p]) + 1 ELSE contexts[p]]

\* The ones of them whose workflow is not watched yet.
Unwatched(ids) == {p \in ids : contexts[p] = None \/ ~At(pool, Here(p)).watching}

\* ensureRuntime and, the first time, orchestrator.start(false).
Begun(c) == IF c.run = "none" THEN [c EXCEPT !.run = "live"] ELSE c
BegunIn(pl, ids) == [p \in Ids |->
  IF p \in ids THEN [pl[p] EXCEPT ![contexts[p]] = Begun(@)] ELSE pl[p]]

\* setActive, which a stopped orchestrator ignores.
ActiveIs(c, on) == IF c.run = "live" THEN [c EXCEPT !.active = on] ELSE c

\* workflow.start() has read the file and adds a watcher.
Watched(c) == [c EXCEPT !.watching = TRUE, !.watchers = @ + 1]

\* Mutant of Disposed: the workflow is not stopped.
DisposedWatching(c) == c

\* Mutant of Disposed: a watcher is counted down that never was.
DisposedTwice(c) == [c EXCEPT !.watchers = @ - 1]

\* workflow.stop(), at the end of a disposal: it closes the last watcher.
Disposed(c) == [c EXCEPT !.watchers = IF @ = 0 THEN 0 ELSE @ - 1]

\* disposeOrchestrator, up to its first await.
Disposing(c) ==
  [c EXCEPT !.run = IF @ = "live" THEN "disposed" ELSE @, !.active = FALSE]

\* Whether another caller is about to watch, or dispose of, what f would take.
Taken(f, ids) ==
  \E p \in ids, g \in Callers \ {f} :
    /\ contexts[p] # None
    /\ \/ Here(p) \in loading[g]
       \/ g \in Registrars /\ reg[g].pc = "dispose" /\ reg[g].target = Here(p)

Overlaps(f, ids) == torn' = torn \cup (IF Taken(f, ids) THEN {"context"} ELSE {})

-----------------------------------------------------------------------------
(* The refresh of the global view *)

\* A pass of the refresh, which takes up the requests made so far: the contexts of all projects are ensured first.
BeginPass(pl, forced) ==
  /\ job' = [pc |-> "ensure", forced |-> forced]
  /\ force' = FALSE
  /\ pool' = BegunIn(PoolWith(pl, Known), Known \ Unwatched(Known))
  /\ contexts' = ContextsWith(Known)
  /\ loading' = [loading EXCEPT !["job"] =
                   {<<p, ContextsWith(Known)[p]>> : p \in Unwatched(Known)}]
  /\ Overlaps("job", Known)

Running == job.pc \in {"ensure", "view", "ending"}

\* Mutant of Joined: who finds a refresh under way waits for that one.
JoinedCoalesced(forced) == force

Joined(forced) == force \/ forced

\* refreshGlobal in the global view: one that runs is told, or one begins.
RefreshGlobal(pl, forced) ==
  IF Running
  THEN /\ force' = Joined(forced) /\ pool' = pl
       /\ UNCHANGED <<job, contexts, loading, torn>>
  ELSE BeginPass(pl, force \/ forced)

\* refresh: the operator asks for it.
ClientRefreshes ==
  /\ Ask /\ life = "up" /\ Global
  /\ RefreshGlobal(pool, TRUE) /\ owed' = owed \cup Known
  /\ UNCHANGED <<catalogVars, current, switch, queue, timer, reg, life>>

TimerFires ==
  /\ timer /\ timer' = FALSE
  /\ RefreshGlobal(pool, FALSE)
  /\ UNCHANGED <<catalogVars, asks, current, switch, queue, reg, life, owed>>

\* A context that the refresh has awaited: it is watched, and its runtime begins.
JobLoads(o) ==
  /\ o \in loading["job"]
  /\ loading' = [loading EXCEPT !["job"] = @ \ {o}]
  /\ pool' = [pool EXCEPT ![o[1]][o[2]] = Begun(Watched(@))]
  /\ UNCHANGED <<catalogVars, asks, torn, contexts, current, switch, queue, job, force, timer, reg,
                 life, owed>>

\* Those that are shown are polled: all of them in a forced pass, else the
\* ones whose time has come, which may be none.
Shown == {p \in Known : contexts[p] # None /\ At(pool, Here(p)).run # "none"}

JobEnsured ==
  /\ job.pc = "ensure" /\ loading["job"] = {}
  /\ job' = [job EXCEPT !.pc = "view"]
  /\ owed' = IF job.forced THEN owed \ Shown ELSE owed
  /\ UNCHANGED <<catalogVars, asks, torn, pool, contexts, current, switch, queue, force, timer, reg,
                 loading, life>>

\* The polls are done: the loop asks for another pass, or ends.
JobViewed ==
  /\ job.pc = "view"
  /\ IF force /\ life = "up" /\ Global
     THEN BeginPass(pool, TRUE)
     ELSE /\ job' = [job EXCEPT !.pc = "ending"]
          /\ UNCHANGED <<force, pool, contexts, loading, torn>>
  /\ UNCHANGED <<catalogVars, asks, current, switch, queue, timer, reg, life, owed>>

\* Mutant of Scheduled: no timer when someone waits to refresh again.
ScheduledUnlessForced == life = "up" /\ Global /\ ~job.forced

\* scheduleGlobal.
Scheduled == life = "up" /\ Global

\* finally: the timer is armed.  One who asked after the loop had ended goes
\* on from the await of this job.
JobFinally ==
  /\ job.pc = "ending"
  /\ timer' = Scheduled
  /\ job' = [IdleJob EXCEPT !.pc = IF force /\ Scheduled THEN "again" ELSE "off"]
  /\ UNCHANGED <<catalogVars, asks, torn, pool, contexts, current, switch, queue, force, reg,
                 loading, life, owed>>

JobAgain ==
  /\ job.pc = "again"
  /\ IF force /\ life = "up" /\ Global
     THEN BeginPass(pool, TRUE)
     ELSE job' = IdleJob /\ UNCHANGED <<force, pool, contexts, loading, torn>>
  /\ UNCHANGED <<catalogVars, asks, current, switch, queue, timer, reg, life, owed>>

-----------------------------------------------------------------------------
(* Switches *)

SwitchFrame == UNCHANGED <<catalogVars, reg, life>>

\* switchProject, switchGlobal.
RequestSwitch(to) ==
  /\ Ask /\ life = "up" /\ to \in Known \cup {GlobalView}
  /\ queue' = Append(queue, to)
  /\ UNCHANGED <<catalogVars, torn, pool, contexts, current, switch, job, force, timer, reg,
                 loading, life, owed>>

Dequeue(next) == queue' = Tail(queue) /\ switch' = next

\* The next switch begins.  To what is selected already it only refreshes.
SwitchBegins ==
  LET to == Head(queue)
      ids == IF to = GlobalView THEN Known ELSE {to}
  IN /\ queue # <<>> /\ switch.pc = "off"
     /\ CASE life # "up" \/ (to = current /\ to # GlobalView) ->
               /\ Dequeue(IdleSwitch)
               /\ UNCHANGED <<pool, contexts, loading, job, force, owed, torn>>
          [] to = current /\ to = GlobalView /\ life = "up" ->
               /\ Dequeue([IdleSwitch EXCEPT !.pc = "refresh"])
               /\ RefreshGlobal(pool, TRUE) /\ owed' = owed \cup Known
          [] OTHER ->
               /\ Dequeue([pc |-> IF to = GlobalView THEN "ensure" ELSE "load", to |-> to,
                           target |-> IF to = GlobalView THEN NoContext
                                      ELSE <<to, ContextsWith(ids)[to]>>])
               /\ pool' = IF to = GlobalView
                          THEN BegunIn(PoolWith(pool, ids), ids \ Unwatched(ids))
                          ELSE PoolWith(pool, ids)
               /\ contexts' = ContextsWith(ids)
               /\ loading' = [loading EXCEPT !["switch"] =
                                {<<p, ContextsWith(ids)[p]>> : p \in Unwatched(ids)}]
               /\ Overlaps("switch", ids)
               /\ UNCHANGED <<job, force, owed>>
     /\ SwitchFrame /\ UNCHANGED <<asks, current, timer>>

SwitchLoads(o) ==
  /\ o \in loading["switch"]
  /\ loading' = [loading EXCEPT !["switch"] = @ \ {o}]
  /\ pool' = [pool EXCEPT ![o[1]][o[2]] = IF switch.pc = "ensure" THEN Begun(Watched(@))
                                                                  ELSE Watched(@)]
  /\ SwitchFrame
  /\ UNCHANGED <<asks, torn, contexts, current, switch, queue, job, force, timer, owed>>

SwitchEnsured ==
  /\ switch.pc \in {"ensure", "load"} /\ loading["switch"] = {}
  /\ switch' = [switch EXCEPT !.pc = IF @ = "load" THEN "reload" ELSE "commit"]
  /\ SwitchFrame
  /\ UNCHANGED <<asks, torn, pool, contexts, current, queue, job, force, timer, loading, owed>>

\* The workflow file is read again; the runtime begins, not active yet.
SwitchReloads ==
  /\ switch.pc = "reload"
  /\ switch' = [switch EXCEPT !.pc = "commit"]
  /\ pool' = [pool EXCEPT ![switch.target[1]][switch.target[2]] = Begun(@)]
  /\ SwitchFrame
  /\ UNCHANGED <<asks, torn, contexts, current, queue, job, force, timer, loading, owed>>

\* The file is invalid, or the selection cannot be written.
SwitchFails ==
  /\ Ask /\ switch.pc \in {"reload", "commit"}
  /\ switch' = IdleSwitch
  /\ SwitchFrame
  /\ UNCHANGED <<torn, pool, contexts, current, queue, job, force, timer, loading, owed>>

\* Mutant of Suspended: the previous runtime is looked up after the selection.
SuspendedLate == pool

\* The orchestrator of the project selected so far is no longer active.
Suspended ==
  IF Global \/ contexts[current] = None THEN pool
  ELSE [pool EXCEPT ![current][contexts[current]] = ActiveIs(@, FALSE)]

\* activateProject has written the selection; the rest is one step.
SwitchCommits ==
  /\ switch.pc = "commit" /\ switch.to # GlobalView /\ Activated(switch.to)
  /\ current' = switch.to
  /\ timer' = FALSE /\ force' = FALSE /\ owed' = {}
  /\ pool' = [Suspended EXCEPT ![switch.target[1]][switch.target[2]] = ActiveIs(@, TRUE)]
  /\ switch' = IdleSwitch
  /\ UNCHANGED <<projects, repos, root, claims, scanning, disk, writer, asks, torn,
                 contexts, queue, job, reg, loading, life>>

\* activateGlobal has written it.
SwitchCommitsGlobal ==
  /\ switch.pc = "commit" /\ switch.to = GlobalView /\ Activated(GlobalView)
  /\ current' = GlobalView
  /\ IF life = "up"
     THEN /\ RefreshGlobal(Suspended, TRUE) /\ owed' = Known
          /\ switch' = [IdleSwitch EXCEPT !.pc = "refresh"]
     ELSE /\ pool' = Suspended /\ switch' = IdleSwitch
          /\ UNCHANGED <<job, force, contexts, loading, owed, torn>>
  /\ UNCHANGED <<projects, repos, root, claims, scanning, disk, writer, asks,
                 queue, timer, reg, life>>

SwitchRefreshed ==
  /\ switch.pc = "refresh" /\ job.pc = "off"
  /\ switch' = IdleSwitch
  /\ SwitchFrame
  /\ UNCHANGED <<asks, torn, pool, contexts, current, queue, job, force, timer, loading, owed>>

-----------------------------------------------------------------------------
(* Registrations, when the catalog is done: refreshProjectContext *)

RegFrame == UNCHANGED <<tables, claims, scanning, disk, asks, current, switch, queue, job, force,
                        timer, life, owed>>
RegDone(x) == writer' = [writer EXCEPT ![x] = NoWriter] /\ reg' = [reg EXCEPT ![x] = IdleReg]

IdOf(x) == RecordOf(writer[x].path).id

\* Its last part, with the table as tbl and the contexts as pl: in the global
\* view the context is watched and its runtime begins, else it is only loaded.
Continue(x, p, pl, tbl) ==
  LET new == tbl[p] = None
      o == <<p, IF new THEN Len(pl[p]) + 1 ELSE tbl[p]>>
      made == IF new THEN [pl EXCEPT ![p] = Append(@, Fresh)] ELSE pl
      table == [tbl EXCEPT ![p] = o[2]]
  IN CASE Global /\ ~At(made, o).watching ->
            /\ pool' = made /\ contexts' = table
            /\ loading' = [loading EXCEPT ![x] = {o}]
            /\ reg' = [reg EXCEPT ![x] = [pc |-> "load", target |-> o]]
            /\ UNCHANGED writer
       [] Global /\ At(made, o).watching ->
            /\ pool' = [made EXCEPT ![p][o[2]] = Begun(@)]
            /\ RegDone(x) /\ contexts' = tbl /\ UNCHANGED loading
       [] ~Global /\ p # current /\ new ->
            /\ pool' = made /\ contexts' = table
            /\ reg' = [reg EXCEPT ![x] = [pc |-> "preload", target |-> o]]
            /\ UNCHANGED <<loading, writer>>
       [] OTHER ->
            RegDone(x) /\ pool' = pl /\ contexts' = tbl /\ UNCHANGED loading

\* Mutant of MayDispose: the selected project is rebuilt as well.
MayDisposeSelected(p) == contexts[p] # None /\ ~Global

MayDispose(p) == contexts[p] # None /\ p # current /\ ~Global

\* A context that is not selected is disposed of first.
RegBegins(x) ==
  LET p == IdOf(x) IN
  /\ InWriter(x, "done") /\ reg[x].pc = "off"
  /\ IF MayDispose(p)
     THEN /\ pool' = [pool EXCEPT ![p][contexts[p]] = Disposing(@)]
          /\ reg' = [reg EXCEPT ![x] = [pc |-> "dispose", target |-> Here(p)]]
          /\ torn' = torn \cup
               (IF Taken(x, {p}) \/ switch.target = Here(p) THEN {"context"} ELSE {})
          /\ UNCHANGED <<contexts, loading, writer>>
     ELSE /\ Continue(x, p, pool, contexts)
          /\ Overlaps(x, IF Global THEN {p} ELSE {})
  /\ RegFrame

\* Its agents have ended: the workflow is stopped, the context forgotten.
RegDisposed(x) ==
  LET o == reg[x].target IN
  /\ reg[x].pc = "dispose"
  /\ Continue(x, o[1], [pool EXCEPT ![o[1]][o[2]] = Disposed(@)],
              [contexts EXCEPT ![o[1]] = None])
  /\ UNCHANGED torn /\ RegFrame

RegLoaded(x) ==
  LET o == reg[x].target IN
  /\ reg[x].pc = "load"
  /\ pool' = [pool EXCEPT ![o[1]][o[2]] = Begun(Watched(@))]
  /\ loading' = [loading EXCEPT ![x] = {}]
  /\ RegDone(x) /\ UNCHANGED <<contexts, torn>> /\ RegFrame

RegPreloaded(x) ==
  /\ reg[x].pc = "preload"
  /\ RegDone(x) /\ UNCHANGED <<pool, contexts, loading, torn>> /\ RegFrame

-----------------------------------------------------------------------------
(* Stop and start *)

StopBegins ==
  /\ Ask /\ life = "up"
  /\ life' = "stopping" /\ timer' = FALSE
  /\ UNCHANGED <<catalogVars, torn, pool, contexts, current, switch, queue, job, force, reg,
                 loading, owed>>

\* The switches and the refresh are waited for, the registrations are not.
StopEnds ==
  /\ life = "stopping" /\ switch.pc = "off" /\ queue = <<>> /\ job.pc = "off"
  /\ life' = "stopped"
  /\ pool' = [p \in Ids |-> IF contexts[p] = None THEN pool[p] ELSE
                 [pool[p] EXCEPT ![contexts[p]] = Disposed(Disposing(@))]]
  /\ contexts' = [p \in Ids |-> None]
  /\ force' = FALSE /\ owed' = {}
  /\ torn' = torn \cup (IF \E x \in Registrars : writer[x].pc # "off" THEN {"context"} ELSE {})
  /\ UNCHANGED <<catalogVars, asks, current, switch, queue, job, timer, reg, loading>>

Started(p, sel) ==
  IF p = sel THEN [watching |-> TRUE, watchers |-> 1, run |-> "live", active |-> TRUE]
  ELSE IF sel = GlobalView THEN [watching |-> TRUE, watchers |-> 1, run |-> "live", active |-> FALSE]
  ELSE Fresh

\* start: the remembered selection, with a context for every project.
StartPool(ids, sel) == [p \in Ids |-> IF p \in ids THEN <<Started(p, sel)>> ELSE <<>>]
StartContexts(ids) == [p \in Ids |-> IF p \in ids THEN 1 ELSE None]

\* The host ends, anywhere or after a stop, and starts again: catalog.start
\* registers its own workspace anew.
Restart ==
  LET home == RecordOf(Home)
      now == (projects \ {home}) \cup {[home EXCEPT !.repo = disk[Home]]}
      left == IF Referenced(home.repo, now) THEN {} ELSE {home.repo}
  IN /\ Ask
     /\ projects' = now /\ repos' = (repos \cup ({disk[Home]} \ {NoRepo})) \ left
     /\ writer' = [x \in Registrars |-> NoWriter] /\ claims' = {} /\ scanning' = None
     /\ torn' = IF Free THEN torn \ {"context"} ELSE {"mutation"}
     /\ pool' = StartPool(Known, Restored) /\ contexts' = StartContexts(Known)
     /\ current' = Restored /\ timer' = (Restored = GlobalView)
     /\ switch' = IdleSwitch /\ queue' = <<>> /\ job' = IdleJob /\ force' = FALSE
     /\ reg' = [x \in Registrars |-> IdleReg] /\ loading' = [f \in Callers |-> {}]
     /\ life' = "up" /\ owed' = {}
     /\ UNCHANGED <<root, setting, disk>>

-----------------------------------------------------------------------------
CatalogOnly == UNCHANGED runtimeVars

\* What the catalog does by itself.
CatalogSteps ==
  /\ CatalogOnly
  /\ \/ /\ UNCHANGED <<asks, torn>>
        /\ \/ \E x \in Registrars : WriterSteps(x)
           \/ ScanEnds
           \/ \E c \in claims : ClaimExpires(c)
     \/ /\ UNCHANGED torn /\ life = "up"
        /\ \/ \E x \in Registrars, d \in Paths : RegisterPath(x, d)
           \/ \E x \in Registrars, c \in claims : RegisterCandidate(x, c)
           \/ AddRoot \/ RemoveRoot \/ ScanBegins
           \/ \E d \in Paths, g \in Repos \cup {NoRepo} : RepositoryMoves(d, g)
     \/ \E x \in Registrars : (PutProjectFails(x) /\ UNCHANGED torn) \/ RemovalFails(x)

JobSteps ==
  \/ \E o \in loading["job"] : JobLoads(o)
  \/ JobEnsured \/ JobViewed \/ JobFinally \/ JobAgain

SwitchSteps ==
  \/ SwitchBegins \/ (\E o \in loading["switch"] : SwitchLoads(o)) \/ SwitchEnsured
  \/ SwitchReloads \/ SwitchCommits \/ SwitchCommitsGlobal \/ SwitchRefreshed

RegSteps(x) == RegBegins(x) \/ RegDisposed(x) \/ RegLoaded(x) \/ RegPreloaded(x)

Init ==
  /\ CatalogInit /\ asks = 0 /\ torn = {}
  /\ pool = StartPool(Known, Restored) /\ contexts = StartContexts(Known)
  /\ current = Restored /\ timer = FALSE
  /\ switch = IdleSwitch /\ queue = <<>> /\ job = IdleJob /\ force = FALSE
  /\ reg = [x \in Registrars |-> IdleReg] /\ loading = [f \in Callers |-> {}]
  /\ life = "up" /\ owed = {}

Next ==
  \/ CatalogSteps
  \/ JobSteps \/ SwitchSteps \/ (\E x \in Registrars : RegSteps(x))
  \/ ClientRefreshes \/ TimerFires \/ SwitchFails
  \/ \E to \in Ids \cup {GlobalView} : RequestSwitch(to)
  \/ StopBegins \/ StopEnds \/ Restart

Spec == Init /\ [][Next]_vars

\* Timers fire, and an await that has been answered goes on.
Fairness ==
  /\ WF_vars(TimerFires) /\ WF_vars(JobSteps) /\ WF_vars(SwitchSteps) /\ WF_vars(StopEnds)
  /\ \A x \in Registrars : WF_vars(RegSteps(x)) /\ WF_vars(CatalogOnly /\ WriterSteps(x) /\ UNCHANGED <<asks, torn>>)

FairSpec == Spec /\ Fairness

-----------------------------------------------------------------------------
(* Properties *)

Objects == UNION {{<<p, i>> : i \in 1..Len(pool[p])} : p \in Ids}
Undisturbed == "context" \notin torn

\* Only the selected project dispatches agents: no orchestrator stays active
\* behind a switch, a registration, a failed switch or the global view.
OnlySelectedActive ==
  Undisturbed => \A o \in Objects : At(pool, o).active => o[1] = current /\ o = Here(current)

\* The selected project has a context, watched once, whose orchestrator is live
\* and active: no registration or switch takes it away.
SelectedIsLive ==
  (Undisturbed /\ life # "stopped" /\ ~Global) =>
    /\ contexts[current] # None
    /\ LET c == At(pool, Here(current)) IN c.run = "live" /\ c.active /\ c.watchers = 1

\* Nothing is leaked: a live orchestrator, or a watcher, belongs to the context
\* its project has now, and no file is watched twice.
NothingLeaked ==
  Undisturbed => \A o \in Objects :
    /\ At(pool, o).watchers <= 1
    /\ (At(pool, o).run = "live" \/ At(pool, o).watchers > 0) => o = Here(o[1])

\* The global view goes on refreshing itself, whatever was selected and asked
\* for meanwhile.
GlobalKeepsRefreshing ==
  (Global /\ life = "up") => timer \/ job.pc # "off"

\* The catalog names every directory once, with its repository; a project has
\* one live context, and only the selected one works.
ContextsInv ==
  TypeOK /\ OneProjectPerPath /\ RepositoriesMatch /\ OnlySelectedActive /\ SelectedIsLive /\ NothingLeaked /\ GlobalKeepsRefreshing

\* A refresh the operator asked for reaches every project, also when it was
\* asked for during another one.
RefreshReaches ==
  \A p \in Ids : (p \in owed /\ Undisturbed) ~> (p \notin owed \/ ~Undisturbed)
=============================================================================
