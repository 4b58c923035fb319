----------------------------- MODULE MemoryView -----------------------------
(***************************************************************************)
(* The memory tab of a browser (MemoryView in src/src/client/Dashboard.tsx *)
(* and the on-demand loads of controller.ts) over the memory and the       *)
(* artifacts of the host.  The list is loaded when the tab is opened, when *)
(* another project is selected and after a change made here; loads overlap *)
(* and their replies come in any order.  The tabs of the artifacts and the *)
(* triggers load their lists in the same way.                              *)
(*                                                                         *)
(* The filters of the list, whose change loads it as a selection does, are *)
(* left out, and so is a second change sent while one is under way: the    *)
(* buttons of the rows forbid it, a dialog that is open does not.          *)
(*                                                                         *)
(* What is made of the entries, the retrieval, is pure and stands beside   *)
(* the behaviours.                                                         *)
(***************************************************************************)
EXTENDS ProjectArtifacts, MemoryRetrieval

CONSTANTS
  Loads, \* bound: loads in flight
  Tab    \* the writer that serves this browser; the others serve callers elsewhere

ASSUME TabConstants == Tab \in Writers \ {Lead}

VARIABLES
  selected, \* projectId
  list,     \* the result shown, with the project it is of; None
  fetching,
  load,     \* the loads in flight whose effect is not cleaned up
  pending,  \* pendingKey: a change of this browser is under way
  mine      \* history: the last entry written from here, with its version

viewVars == <<selected, list, fetching, load, pending, mine>>
vars == <<memoryVars, artifactVars, viewVars>>

NoLoad == [stage |-> "none", of |-> None, reply |-> {}]
Nothing == [id |-> 0, version |-> 0]

TypeOK ==
  /\ MemoryTypeOK /\ ArtifactTypeOK
  /\ selected \in Projects /\ fetching \in BOOLEAN /\ pending \in BOOLEAN
  /\ \A k \in Loads : load[k].stage \in {"none", "asked", "answered"}
  /\ Cardinality({k \in Loads : load[k] # NoLoad}) <= 1
  /\ mine.id \in Ids \cup {0}

Init ==
  /\ MemoryInit /\ ArtifactInit
  /\ selected \in Projects /\ list = None /\ fetching = FALSE
  /\ load = [k \in Loads |-> NoLoad] /\ pending = FALSE /\ mine = Nothing

\* Mutant of Cancelled: a load is not told that another one has followed it.
CancelledNever(l) == l

\* The clean-up of an effect: what its load will return is ignored.
Cancelled(l) == NoLoad

\* The effect of the list: the load of before is cancelled, a load of p begins.
LoadList(p) ==
  /\ \E k \in Loads :
       /\ load[k] = NoLoad
       /\ load' = [j \in Loads |-> IF j = k THEN [stage |-> "asked", of |-> p, reply |-> {}]
                                   ELSE Cancelled(load[j])]
  /\ fetching' = TRUE

\* The tab is opened, or another project selected.
Select(p) ==
  /\ p # selected \/ (list = None /\ ~fetching)
  /\ selected' = p /\ LoadList(p)
  /\ UNCHANGED <<memoryVars, artifactVars, list, pending, mine>>

\* memoryList: the active entries, and the archived ones if they are asked for.
Listed(p) == {i \in Ids : memory[i].project = p /\ memory[i].status # "superseded"}

ServeList(k) ==
  /\ load[k].stage = "asked"
  /\ load' = [load EXCEPT ![k].stage = "answered",
                          ![k].reply = {[id |-> i, entry |-> memory[i]] : i \in Listed(load[k].of)}]
  /\ UNCHANGED <<memoryVars, artifactVars, selected, list, fetching, pending, mine>>

ListArrives(k) ==
  /\ load[k].stage = "answered" /\ load' = [load EXCEPT ![k] = NoLoad]
  /\ list' = [of |-> load[k].of, rows |-> load[k].reply] /\ fetching' = FALSE
  /\ UNCHANGED <<memoryVars, artifactVars, selected, pending, mine>>

\* A change is sent from a row of the list or from the dialog of a new note.
Mutates ==
  /\ ~pending /\ pending' = TRUE /\ Ask
  /\ \/ \E t \in Titles : Create(Tab, selected, t, FALSE)
     \/ /\ list # None
        /\ \E r \in list.rows : \/ \E t \in Titles : Update(Tab, r.id, r.entry, t)
                                \/ \E to \in Statuses : SetStatus(Tab, r.id, r.entry, to)
  /\ UNCHANGED <<artifactVars, selected, list, fetching, load, mine>>

\* Mutant of MayReload: a change that superseded nothing does not load the list again.
MayReloadSuperseding(w) == frame[w].id # 0

MayReload(w) == TRUE

\* A call of this browser is done: the list is loaded again.
MutationReturns(written) ==
  /\ pending' = FALSE /\ mine' = written
  /\ IF MayReload(Tab) THEN LoadList(selected) ELSE UNCHANGED <<load, fetching>>
  /\ UNCHANGED <<artifactVars, selected, list>>

MemoryStep(w) ==
  LET last == Len(frame[w].todo) = 1 IN
  \/ /\ Put(w)
     /\ IF w = Tab /\ last THEN MutationReturns([id |-> Len(memory'), version |-> 1])
        ELSE UNCHANGED <<artifactVars, viewVars>>
  \/ /\ Mark(w)
     /\ IF w = Tab /\ last THEN MutationReturns(mine) ELSE UNCHANGED <<artifactVars, viewVars>>
  \/ /\ Change(w)
     /\ IF w = Tab THEN MutationReturns([id |-> frame[w].id, version |-> memory'[frame[w].id].version])
        ELSE UNCHANGED <<artifactVars, viewVars>>
  \/ /\ Stale(w)
     /\ IF w = Tab THEN pending' = FALSE /\ UNCHANGED <<artifactVars, selected, list, fetching, load, mine>>
        ELSE UNCHANGED <<artifactVars, viewVars>>

\* Another caller, who has just read the entries.
Elsewhere(w) ==
  /\ w \notin {Tab, Lead} /\ Ask
  /\ \/ \E p \in Projects, t \in Titles : Create(w, p, t, FALSE)
     \/ \E i \in Ids : \/ \E t \in Titles : Update(w, i, memory[i], t)
                       \/ \E to \in Statuses : SetStatus(w, i, memory[i], to)
  /\ UNCHANGED <<artifactVars, viewVars>>

\* Steps of the run and its report.
Ending == RunEnds \/ CompletedAppended \/ CompletedLost \/ SessionEnds
Answered(g) == WriteReport(g) \/ ReportReturns(g)
Reports(g) == OnDemand(g) \/ Answered(g) \/ ReportFails(g) \/ FailureLost(g)

\* Every call of the browser fails: a load leaves an error instead of the list.
HostCrashes ==
  /\ Crash
  /\ pending' = FALSE
  /\ load' = [k \in Loads |-> NoLoad]
  /\ fetching' = FALSE
  /\ list' = IF \E k \in Loads : load[k] # NoLoad THEN None ELSE list
  /\ UNCHANGED <<selected, mine>>

Next ==
  \/ \E p \in Projects : Select(p)
  \/ \E k \in Loads : ServeList(k) \/ ListArrives(k)
  \/ Mutates
  \/ \E w \in Writers : MemoryStep(w) \/ Elsewhere(w)
  \/ (Ending /\ UNCHANGED viewVars) \/ (Distill /\ UNCHANGED viewVars)
  \/ \E g \in Generators : Reports(g) /\ UNCHANGED viewVars
  \/ HostCrashes

Spec == Init /\ [][Next]_vars

\* Storage answers; users and runs owe nothing.
Fairness ==
  /\ WF_vars(CompletedAppended /\ UNCHANGED viewVars)
  /\ \A g \in Generators : WF_vars(Answered(g) /\ UNCHANGED viewVars)

FairSpec == Spec /\ Fairness

-----------------------------------------------------------------------------
(* Properties *)

(* The list that is shown when nothing is being fetched is the one of the project that is selected, whatever *)
(* loads overlapped (the cancelled flag of the effect in MemoryView).                                        *)
ListMatchesSelection == ~fetching /\ list # None => list.of = selected

(* After a change made here has returned and nothing is being fetched, the list shows it, or what came after *)
(* it: no reply from before the change is shown over it (reload in MemoryView).                              *)
OwnChangeShown ==
  ~fetching /\ ~pending /\ list # None /\ mine.id \in Ids /\ memory[mine.id].project = selected =>
    \/ \E r \in list.rows : r.id = mine.id /\ r.entry.version >= mine.version
    \/ memory[mine.id].status = "superseded"

(* Of two entries about one thing the newer one is active, a run has one report, and what is shown is the *)
(* selected list as it is after the changes made here.                                                     *)
RecordsInv ==
  /\ TypeOK /\ SupersessionComplete /\ SuccessorKept /\ OneReport
  /\ ListMatchesSelection /\ OwnChangeShown

(* The tables, what is shown of them, and what reaches an agent. *)
NotesInv == RecordsInv /\ RetrievalInv
=============================================================================
