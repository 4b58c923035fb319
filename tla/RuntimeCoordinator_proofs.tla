---------------------- MODULE RuntimeCoordinator_proofs ----------------------
(***************************************************************************)
(* Proofs about ProjectCatalog, RuntimeCoordinator and ProjectScan: for    *)
(* any directories and repositories, any number of registrations, any      *)
(* switches, refreshes, stops and restarts, and any tree to scan.          *)
(*                                                                         *)
(* The inductive invariant has three parts.  The catalog's says what a     *)
(* registration in the middle of its writes still owes the tables.  The    *)
(* runtime's says who may touch a context: whoever is about to watch one,  *)
(* to dispose of one, or to select one has it for itself.  The scan's says *)
(* what the queue still covers: its parts of the tree are apart, lie level *)
(* by level, and hold every project that was not found yet.                *)
(***************************************************************************)
EXTENDS ProjectSides, Integers, FiniteSetTheorems, SequenceTheorems, TLAPS

-----------------------------------------------------------------------------
(* The inductive invariant of the catalog *)

\* The mutation of x is under way.
Mutates(x) == writer[x].pc \in {"repo", "project", "prune"}

\* Mutations are serialized.
OneMutates == \A x, y \in Registrars : Mutates(x) /\ Mutates(y) => x = y

\* What a mutation has looked up is still so, and what it has put is there.
WriterHolds(x) ==
  LET w == writer[x] IN
  /\ w.pc \in {"repo", "project"} =>
       IF w.id = None THEN ~Registered(w.path) /\ w.old = NoRepo
       ELSE [id |-> w.id, path |-> w.path, repo |-> w.old] \in projects
  /\ (w.pc = "project" /\ w.repo # NoRepo) => w.repo \in repos
  /\ w.pc = "prune" => \E r \in projects : r.path = w.path /\ r.repo = w.repo
  /\ w.pc = "done" => Registered(w.path)

\* The repository that nothing refers to until the mutation of x is over.
InHand(x) ==
  CASE writer[x].pc = "project" -> {writer[x].repo}
    [] writer[x].pc = "prune" -> {writer[x].old}
    [] OTHER -> {}

NoOrphans ==
  "mutation" \notin torn =>
    \A g \in repos : Referenced(g, projects) \/ \E x \in Registrars : g \in InHand(x)

RepositoriesFound == \A r \in projects : r.repo # NoRepo => r.repo \in repos

CatalogIInv ==
  /\ CatalogTypeOK /\ IsFiniteSet(projects) /\ OneProjectPerPath /\ RepositoriesFound
  /\ Registered(Home) /\ setting \in Known \cup {None, GlobalView}
  /\ OneMutates /\ NoOrphans /\ \A x \in Registrars : WriterHolds(x)

-----------------------------------------------------------------------------
(* The inductive invariant of the runtimes *)

Contexts == [watching : BOOLEAN, watchers : Nat, run : {"none", "live", "disposed"}, active : BOOLEAN]
Refs == Nat \X Nat
SwitchPcs == {"off", "ensure", "load", "reload", "commit", "refresh"}

\* A switch that has taken the context of a project.
Targets == switch.pc \in {"load", "reload", "commit"} /\ switch.to # GlobalView

SwitchShape ==
  /\ switch \in [pc : SwitchPcs, to : Ids \cup {None, GlobalView}, target : Refs]
  /\ switch.pc = "commit" => switch.to # None
  /\ switch.pc \in {"load", "reload"} => switch.to \in Ids
  /\ switch.pc = "ensure" => switch.to = GlobalView
  /\ Targets => switch.to \in Known /\ switch.target[1] = switch.to /\ switch.target \in Objects
  /\ ~Targets => switch.target = NoContext

RegShape(x) ==
  /\ reg[x] \in [pc : {"off", "dispose", "load", "preload"}, target : Refs]
  /\ reg[x].pc # "off" => writer[x].pc = "done" /\ reg[x].target \in Objects
  /\ reg[x].pc = "load" => loading[x] = {reg[x].target}
  /\ reg[x].pc # "load" => loading[x] = {}

RuntimeShape ==
  /\ pool \in [Ids -> Seq(Contexts)]
  /\ contexts \in [Ids -> Nat] /\ \A p \in Ids : contexts[p] <= Len(pool[p])
  /\ current \in Known \cup {GlobalView}
  /\ SwitchShape /\ queue \in Seq(Known \cup {GlobalView})
  /\ job \in [pc : {"off", "ensure", "view", "ending", "again"}, forced : BOOLEAN]
  /\ reg \in [Registrars -> [pc : {"off", "dispose", "load", "preload"}, target : Refs]]
  /\ \A x \in Registrars : RegShape(x)
  /\ loading \in [Callers -> SUBSET Objects]
  /\ loading["job"] # {} => job.pc = "ensure"
  /\ loading["switch"] # {} => switch.pc \in {"ensure", "load"}
  /\ force \in BOOLEAN /\ timer \in BOOLEAN
  /\ life \in {"up", "stopping", "stopped"} /\ owed \subseteq Known
  /\ torn \subseteq {"mutation", "context"}

\* The registration of x disposes of o.
Disposes(x, o) == reg[x].pc = "dispose" /\ reg[x].target = o
IsHere(o) == o = Here(o[1])

\* What a context may be: only the one a project has now is watched, and once;
\* only that one works, and only if it is selected.
ContextHolds(o) ==
  LET c == At(pool, o) IN
  /\ c.watchers = IF IsHere(o) /\ c.watching THEN 1 ELSE 0
  /\ c.run = "live" => IsHere(o) /\ c.watching
  /\ c.active => c.run = "live" /\ o[1] = current
  /\ (IsHere(o) /\ c.run = "disposed") => \E x \in Registrars : Disposes(x, o)

\* Who is about to watch a context is the only one.
LoadsHold ==
  \A f \in Callers : \A o \in loading[f] :
    /\ IsHere(o) /\ ~At(pool, o).watching
    /\ \A g \in Callers \ {f} : o \notin loading[g]

\* Who disposes of a context has it for itself.
DisposalHolds(x) ==
  LET o == reg[x].target IN
  reg[x].pc = "dispose" =>
    /\ IsHere(o) /\ At(pool, o).run # "live" /\ o[1] # current /\ o # switch.target
    /\ \A f \in Callers : o \notin loading[f]
    /\ \A y \in Registrars \ {x} : ~Disposes(y, o)

\* The context that a switch has taken stays the one of its project, comes to
\* be watched, and then works.
TargetHolds ==
  Targets =>
    /\ IsHere(switch.target)
    /\ switch.target \in loading["switch"] \/ At(pool, switch.target).watching
    /\ loading["switch"] \subseteq {switch.target}
    /\ switch.pc = "commit" => At(pool, switch.target).run = "live"

SelectedHolds ==
  (life # "stopped" /\ ~Global) =>
    contexts[current] # None /\ At(pool, Here(current)).run = "live" /\ At(pool, Here(current)).active

\* A refresh that waits for another one to begin again has left the timer armed.
TimerHolds == (Global /\ life = "up") => timer \/ job.pc \notin {"off", "again"}

RuntimeIInv ==
  /\ RuntimeShape /\ TimerHolds
  /\ Undisturbed =>
       /\ \A o \in Objects : ContextHolds(o)
       /\ LoadsHold /\ (\A x \in Registrars : DisposalHolds(x)) /\ TargetHolds /\ SelectedHolds

ProjectsIInv == CatalogIInv /\ RuntimeIInv

-----------------------------------------------------------------------------
(* The steps of the catalog *)

Writers == [pc : WriterPcs, path : Paths, root : Nat, id : Ids \cup {None},
            repo : Repos \cup {NoRepo}, old : Repos \cup {NoRepo}]

LEMMA NoWriterType == NoWriter \in Writers /\ NoWriter.pc = "off"
  BY CatalogAssumptions DEF NoWriter, Writers, WriterPcs, None

\* A record is found by its path, and by its id.
LEMMA RecordFound ==
  ASSUME OneProjectPerPath, NEW r \in projects
  PROVE  RecordOf(r.path) = r
  BY DEF OneProjectPerPath, RecordOf

\* What leaves the tables alone, and no mutation in the middle, keeps the
\* invariant.
LEMMA CatalogRests ==
  ASSUME CatalogIInv, UNCHANGED <<projects, repos, disk>>,
         root' \in [id : Nat, configured : BOOLEAN], claims' \subseteq Paths \X Nat, scanning' \in Nat,
         setting' \in Known \cup {None, GlobalView},
         "mutation" \in torn => "mutation" \in torn',
         writer' \in [Registrars -> Writers],
         \A x \in Registrars :
           writer'[x] = writer[x] \/ (~Mutates(x) /\ writer'[x].pc \in {"off", "queued"})
  PROVE  CatalogIInv'
<1>1. CatalogTypeOK'
  <2>1. setting' \in Ids \cup {None, GlobalView}
    BY DEF CatalogIInv, CatalogTypeOK, Known
  <2> QED  BY <2>1 DEF CatalogIInv, CatalogTypeOK, Writers
<1>2. OneMutates' /\ \A x \in Registrars : WriterHolds(x)'
  BY DEF CatalogIInv, OneMutates, Mutates, WriterHolds, Registered
<1>3. NoOrphans'
  <2> SUFFICES ASSUME "mutation" \notin torn', NEW g \in repos, ~Referenced(g, projects)
               PROVE  \E x \in Registrars : g \in InHand(x)'
    BY DEF NoOrphans, Referenced
  <2>1. PICK x \in Registrars : g \in InHand(x)  BY DEF CatalogIInv, NoOrphans
  <2>2. writer'[x] = writer[x]  BY <2>1 DEF InHand, Mutates
  <2> QED  BY <2>1, <2>2 DEF InHand
<1> QED  BY <1>1, <1>2, <1>3 DEF CatalogIInv, OneProjectPerPath, RepositoriesFound, Registered, Known

\* A mutation begins when none is under way.
LEMMA InspectKeeps ==
  ASSUME CatalogIInv, NEW x \in Registrars, Inspect(x), UNCHANGED torn
  PROVE  CatalogIInv'
<1> DEFINE w == writer[x]
           known == Registered(w.path)
           v == writer'[x]
<1>1. writer \in [Registrars -> Writers] /\ disk \in [Paths -> Repos \cup {NoRepo}]
      /\ projects \subseteq [id : Ids, path : Paths, repo : Repos \cup {NoRepo}]
  BY DEF CatalogIInv, CatalogTypeOK, Writers
<1>2. CASE ~MayRegister(x)
  <2>1. writer' = [writer EXCEPT ![x] = NoWriter] /\ w.pc = "queued"
    BY <1>2 DEF Inspect, InWriter
  <2> QED  BY <1>1, <2>1, NoWriterType, CatalogRests DEF Inspect, tables, Mutates, CatalogIInv, CatalogTypeOK
<1>3. CASE MayRegister(x)
  <2>1. /\ w.pc = "queued" /\ Free
        /\ writer' = [writer EXCEPT ![x] = [w EXCEPT !.pc = "repo", !.repo = disk[w.path],
                         !.id = IF known THEN RecordOf(w.path).id ELSE None,
                         !.old = IF known THEN RecordOf(w.path).repo ELSE NoRepo]]
        /\ UNCHANGED <<projects, repos, root, setting, claims, scanning, disk>>
    BY <1>3 DEF Inspect, InWriter, tables
  <2>2. known => RecordOf(w.path) \in projects /\ RecordOf(w.path).path = w.path
    BY DEF Registered, RecordOf
  <2>3. w \in Writers  BY <1>1
  <2>4. /\ v \in Writers /\ v.pc = "repo" /\ v.path = w.path
        /\ v.id = (IF known THEN RecordOf(w.path).id ELSE None)
        /\ v.old = (IF known THEN RecordOf(w.path).repo ELSE NoRepo)
    BY <1>1, <2>1, <2>2, <2>3 DEF Writers, WriterPcs
  <2>5. writer' \in [Registrars -> Writers] /\ \A y \in Registrars \ {x} : writer'[y] = writer[y]
    BY <1>1, <2>1, <2>4
  <2>6. OneMutates'
    BY <2>1, <2>5 DEF OneMutates, Mutates, Free
  <2>7. WriterHolds(x)'
    <3>1. CASE known
      <4>1. RecordOf(w.path) = [id |-> v.id, path |-> v.path, repo |-> v.old]
        BY <1>1, <2>2, <2>4, <3>1
      <4>2. v.id # None
        BY <1>1, <2>2, <2>4, <3>1 DEF Ids, None
      <4> QED  BY <2>1, <2>2, <2>4, <3>1, <4>1, <4>2 DEF WriterHolds
    <3>2. CASE ~known
      BY <2>1, <2>4, <3>2 DEF WriterHolds, Registered
    <3> QED  BY <3>1, <3>2
  <2>8. \A y \in Registrars \ {x} : WriterHolds(y)'
    BY <2>1, <2>5 DEF CatalogIInv, WriterHolds, Registered
  <2>9. NoOrphans'
    BY <2>1, <2>5 DEF CatalogIInv, NoOrphans, InHand, Referenced
  <2> QED  BY <2>1, <2>5, <2>6, <2>7, <2>8, <2>9
           DEF CatalogIInv, CatalogTypeOK, OneProjectPerPath, RepositoriesFound, Registered, Known, Writers
<1> QED  BY <1>2, <1>3

LEMMA PutRepositoryKeeps ==
  ASSUME CatalogIInv, NEW x \in Registrars, PutRepository(x), UNCHANGED torn
  PROVE  CatalogIInv'
<1>1. writer \in [Registrars -> Writers]  BY DEF CatalogIInv, CatalogTypeOK, Writers
<1>2. /\ writer[x].pc = "repo" /\ repos' = repos \cup ({writer[x].repo} \ {NoRepo})
      /\ writer' = [writer EXCEPT ![x] = [writer[x] EXCEPT !.pc = "project"]]
      /\ UNCHANGED <<projects, root, setting, claims, scanning, disk>>
  BY <1>1 DEF PutRepository, InWriter
<1>3. /\ writer' \in [Registrars -> Writers] /\ \A y \in Registrars \ {x} : writer'[y] = writer[y]
      /\ writer'[x] = [writer[x] EXCEPT !.pc = "project"]
  BY <1>1, <1>2 DEF Writers, WriterPcs
<1>4. writer[x].repo \in Repos \cup {NoRepo}  BY <1>1 DEF Writers
<1>5. CatalogTypeOK'  BY <1>2, <1>3, <1>4 DEF CatalogIInv, CatalogTypeOK, Writers
<1>6. OneMutates'  BY <1>1, <1>2, <1>3 DEF CatalogIInv, OneMutates, Mutates, Writers
<1>7. \A y \in Registrars : WriterHolds(y)'
  <2>1. WriterHolds(x)'
    BY <1>1, <1>2, <1>3 DEF CatalogIInv, WriterHolds, Registered, Writers
  <2>2. ASSUME NEW y \in Registrars \ {x}  PROVE WriterHolds(y)'
    BY <1>2, <1>3 DEF CatalogIInv, WriterHolds, Registered
  <2> QED  BY <2>1, <2>2
<1>8. NoOrphans'
  <2> SUFFICES ASSUME "mutation" \notin torn, NEW g \in repos', ~Referenced(g, projects)
               PROVE  \E y \in Registrars : g \in InHand(y)'
    BY <1>2 DEF NoOrphans, Referenced
  <2>1. CASE g = writer[x].repo
    <3>1. writer'[x].pc = "project" /\ writer'[x].repo = writer[x].repo  BY <1>1, <1>3 DEF Writers
    <3> QED  BY <2>1, <3>1 DEF InHand
  <2>2. CASE g # writer[x].repo
    <3>1. PICK y \in Registrars : g \in InHand(y)  BY <1>2, <2>2 DEF CatalogIInv, NoOrphans
    <3>2. y # x  BY <1>2, <3>1 DEF InHand
    <3> QED  BY <1>3, <3>1, <3>2 DEF InHand
  <2> QED  BY <2>1, <2>2
<1>9. RepositoriesFound'  BY <1>2 DEF CatalogIInv, RepositoriesFound
<1> QED  BY <1>2, <1>5, <1>6, <1>7, <1>8, <1>9 DEF CatalogIInv, OneProjectPerPath, Registered, Known

\* With less records than ids there is an id for a new one.
LEMMA FreeId ==
  ASSUME CatalogIInv, Cardinality(projects) < MaxProjects
  PROVE  NewId \in Ids /\ NewId # None /\ \A r \in projects : r.id # NewId
<1>1. Known \subseteq Ids  BY DEF CatalogIInv, CatalogTypeOK, Known
<1>2. Ids \ Known # {}
  <2> SUFFICES ASSUME Ids \subseteq Known PROVE FALSE  OBVIOUS
  <2> DEFINE f == [r \in projects |-> r.id]
  <2>1. f \in Surjection(projects, Known)  BY DEF Surjection, Known
  <2> HIDE DEF f
  <2>2. Cardinality(Known) <= Cardinality(projects)  BY <2>1, FS_Surjection DEF CatalogIInv
  <2>3. Cardinality(Ids) = MaxProjects  BY FS_Interval, CatalogAssumptions DEF Ids
  <2>4. Known = Ids  BY <1>1
  <2>5. Cardinality(projects) \in Nat  BY FS_CardinalityType DEF CatalogIInv
  <2> QED  BY <2>2, <2>3, <2>4, <2>5, CatalogAssumptions
<1>3. NewId \in Ids \ Known  BY <1>2 DEF NewId, Known
<1> QED  BY <1>3, CatalogAssumptions DEF Ids, None, Known

LEMMA PutProjectKeeps ==
  ASSUME CatalogIInv, NEW x \in Registrars, PutProject(x), UNCHANGED torn
  PROVE  CatalogIInv' /\ Known \subseteq Known'
<1> DEFINE w == writer[x]
           id == IF w.id = None THEN NewId ELSE w.id
           new == [id |-> id, path |-> w.path, repo |-> w.repo]
<1>1. writer \in [Registrars -> Writers] /\ w \in Writers
      /\ projects \subseteq [id : Ids, path : Paths, repo : Repos \cup {NoRepo}]
  BY DEF CatalogIInv, CatalogTypeOK, Writers
<1>2. /\ w.pc = "project" /\ projects' = {r \in projects : r.id # id} \cup {new}
      /\ w.id # None \/ Cardinality(projects) < MaxProjects
      /\ writer' = [writer EXCEPT ![x] = [w EXCEPT !.pc = "prune"]]
      /\ UNCHANGED <<repos, root, setting, claims, scanning, disk>>
  BY <1>1 DEF PutProject, InWriter
<1>3. /\ writer' \in [Registrars -> Writers] /\ \A y \in Registrars \ {x} : writer'[y] = writer[y]
      /\ writer'[x] = [w EXCEPT !.pc = "prune"]
  BY <1>1, <1>2 DEF Writers, WriterPcs
<1>4. id \in Ids  BY <1>1, <1>2, FreeId DEF Writers
<1>5. new \in [id : Ids, path : Paths, repo : Repos \cup {NoRepo}]  BY <1>1, <1>4 DEF Writers
\* The record that goes, if any, is the one of the same path.
<1>6. \A r \in projects : r.id = id <=> r.path = w.path
  <2>1. CASE w.id = None
    BY <1>1, <1>2, <2>1, FreeId DEF CatalogIInv, WriterHolds, Registered
  <2>2. CASE w.id # None
    <3>1. [id |-> w.id, path |-> w.path, repo |-> w.old] \in projects
      BY <1>2, <2>2 DEF CatalogIInv, WriterHolds
    <3> QED  BY <2>2, <3>1 DEF CatalogIInv, OneProjectPerPath
  <2> QED  BY <2>1, <2>2
<1>7. \A r \in projects : r.id = id => r.repo = w.old
  <2>1. CASE w.id = None
    BY <1>1, <1>2, <2>1, FreeId
  <2>2. CASE w.id # None
    <3>1. [id |-> w.id, path |-> w.path, repo |-> w.old] \in projects
      BY <1>2, <2>2 DEF CatalogIInv, WriterHolds
    <3> QED  BY <2>2, <3>1 DEF CatalogIInv, OneProjectPerPath
  <2> QED  BY <2>1, <2>2
<1>8. /\ \A r \in projects : r.path # w.path => r \in projects'
      /\ \A r \in projects' : r = new \/ (r \in projects /\ r.id # id /\ r.path # w.path)
      /\ new \in projects' /\ new.id = id /\ new.path = w.path /\ new.repo = w.repo
  BY <1>2, <1>6
<1> HIDE DEF id, new
<1>9. \A d : Registered(d) => Registered(d)'
  <2> SUFFICES ASSUME NEW d, NEW r \in projects, r.path = d  PROVE Registered(d)'
    BY DEF Registered
  <2> QED  BY <1>8 DEF Registered
<1>10. Known \subseteq Known'
  BY <1>2, <1>8 DEF Known
<1>11. CatalogTypeOK' /\ IsFiniteSet(projects')
  <2>1. IsFiniteSet({r \in projects : r.id # id})  BY FS_Subset DEF CatalogIInv
  <2>2. IsFiniteSet(projects')  BY <1>2, <2>1, FS_AddElement
  <2> QED  BY <1>2, <1>3, <1>5, <2>2 DEF CatalogIInv, CatalogTypeOK, Writers
<1>12. OneMutates'  BY <1>1, <1>2, <1>3 DEF CatalogIInv, OneMutates, Mutates, Writers
<1>13. OneProjectPerPath'
  BY <1>8 DEF CatalogIInv, OneProjectPerPath
<1>14. RepositoriesFound'
  BY <1>2, <1>8 DEF CatalogIInv, RepositoriesFound, WriterHolds
<1>15. \A y \in Registrars : WriterHolds(y)'
  <2>1. WriterHolds(x)'
    <3>1. writer'[x].pc = "prune" /\ writer'[x].path = w.path /\ writer'[x].repo = w.repo
      BY <1>1, <1>3 DEF Writers
    <3> QED  BY <1>8, <3>1 DEF WriterHolds
  <2>2. ASSUME NEW y \in Registrars \ {x}  PROVE WriterHolds(y)'
    <3>1. writer[y].pc \notin {"repo", "project", "prune"}
      BY <1>2 DEF CatalogIInv, OneMutates, Mutates
    <3> QED  BY <1>3, <1>9, <3>1 DEF CatalogIInv, WriterHolds
  <2> QED  BY <2>1, <2>2
<1>16. NoOrphans'
  <2> SUFFICES ASSUME "mutation" \notin torn, NEW g \in repos, ~Referenced(g, projects')
               PROVE  \E y \in Registrars : g \in InHand(y)'
    BY <1>2 DEF NoOrphans, Referenced
  <2>1. writer'[x].pc = "prune" /\ writer'[x].old = w.old  BY <1>1, <1>3 DEF Writers
  <2>2. CASE Referenced(g, projects)
    <3>1. PICK r \in projects : r.repo = g  BY <2>2 DEF Referenced
    <3>2. r.id = id  BY <1>6, <1>8, <3>1 DEF Referenced
    <3> QED  BY <1>7, <2>1, <3>1, <3>2 DEF InHand
  <2>3. CASE ~Referenced(g, projects)
    <3>1. PICK y \in Registrars : g \in InHand(y)  BY <2>3 DEF CatalogIInv, NoOrphans
    <3>2. y # x  BY <1>2, <1>8, <3>1 DEF InHand, Referenced
    <3> QED  BY <1>3, <3>1, <3>2 DEF InHand
  <2> QED  BY <2>2, <2>3
<1>17. setting' \in Known' \cup {None, GlobalView}  BY <1>2, <1>10 DEF CatalogIInv
<1> QED  BY <1>9, <1>10, <1>11, <1>12, <1>13, <1>14, <1>15, <1>16, <1>17 DEF CatalogIInv

LEMMA PutProjectFailsKeeps ==
  ASSUME CatalogIInv, NEW x \in Registrars, PutProjectFails(x), UNCHANGED torn
  PROVE  CatalogIInv'
<1> DEFINE w == writer[x]
<1>1. writer \in [Registrars -> Writers] /\ w \in Writers  BY DEF CatalogIInv, CatalogTypeOK, Writers
<1>2. /\ w.pc = "project" /\ writer' = [writer EXCEPT ![x] = NoWriter]
      /\ repos' = IF Referenced(w.repo, projects) THEN repos ELSE repos \ {w.repo}
      /\ UNCHANGED <<projects, root, setting, claims, scanning, disk>>
  BY DEF PutProjectFails, InWriter
<1>3. /\ writer' \in [Registrars -> Writers] /\ writer'[x].pc = "off"
      /\ \A y \in Registrars \ {x} : writer'[y] = writer[y]
  BY <1>1, <1>2, NoWriterType
<1>4. CatalogTypeOK'  BY <1>2, <1>3 DEF CatalogIInv, CatalogTypeOK, Writers
<1>5. OneMutates'  BY <1>3 DEF CatalogIInv, OneMutates, Mutates
<1>6. RepositoriesFound'  BY <1>2 DEF CatalogIInv, RepositoriesFound, Referenced
<1>7. \A y \in Registrars : WriterHolds(y)'
  <2>1. WriterHolds(x)'  BY <1>3 DEF WriterHolds
  <2>2. ASSUME NEW y \in Registrars \ {x}  PROVE WriterHolds(y)'
    <3>1. writer[y].pc \notin {"repo", "project", "prune"}
      BY <1>2 DEF CatalogIInv, OneMutates, Mutates
    <3> QED  BY <1>2, <1>3, <3>1 DEF CatalogIInv, WriterHolds, Registered
  <2> QED  BY <2>1, <2>2
<1>8. NoOrphans'
  <2> SUFFICES ASSUME "mutation" \notin torn, NEW g \in repos', ~Referenced(g, projects)
               PROVE  FALSE
    BY <1>2 DEF NoOrphans, Referenced
  <2>1. PICK y \in Registrars : g \in InHand(y)  BY <1>2 DEF CatalogIInv, NoOrphans
  <2>2. y = x  BY <1>2, <2>1 DEF InHand, CatalogIInv, OneMutates, Mutates
  <2> QED  BY <1>2, <2>1, <2>2 DEF InHand
<1> QED  BY <1>2, <1>4, <1>5, <1>6, <1>7, <1>8 DEF CatalogIInv, OneProjectPerPath, Registered, Known

LEMMA PruneRepositoryKeeps ==
  ASSUME CatalogIInv, NEW x \in Registrars, PruneRepository(x), UNCHANGED torn
  PROVE  CatalogIInv'
<1> DEFINE w == writer[x]
<1>1. writer \in [Registrars -> Writers] /\ w \in Writers  BY DEF CatalogIInv, CatalogTypeOK, Writers
<1>2. /\ w.pc = "prune" /\ writer' = [writer EXCEPT ![x] = [w EXCEPT !.pc = "done"]]
      /\ repos' = repos \ Pruned(x)
      /\ UNCHANGED <<projects, root, setting, claims, scanning, disk>>
  BY <1>1 DEF PruneRepository, InWriter
<1>3. /\ writer' \in [Registrars -> Writers] /\ writer'[x] = [w EXCEPT !.pc = "done"]
      /\ \A y \in Registrars \ {x} : writer'[y] = writer[y]
  BY <1>1, <1>2 DEF Writers, WriterPcs
<1>4. CatalogTypeOK'  BY <1>2, <1>3 DEF CatalogIInv, CatalogTypeOK, Writers
<1>5. OneMutates'  BY <1>1, <1>3 DEF CatalogIInv, OneMutates, Mutates, Writers
<1>a. PICK r \in projects : r.path = w.path /\ r.repo = w.repo
  BY <1>2 DEF CatalogIInv, WriterHolds
<1>6. RepositoriesFound'
  BY <1>2 DEF CatalogIInv, RepositoriesFound, Referenced, Pruned
<1>7. \A y \in Registrars : WriterHolds(y)'
  <2>1. WriterHolds(x)'  BY <1>1, <1>2, <1>3, <1>a DEF WriterHolds, Writers, Registered
  <2>2. ASSUME NEW y \in Registrars \ {x}  PROVE WriterHolds(y)'
    <3>1. writer[y].pc \notin {"repo", "project", "prune"}
      BY <1>2 DEF CatalogIInv, OneMutates, Mutates
    <3> QED  BY <1>2, <1>3, <3>1 DEF CatalogIInv, WriterHolds, Registered
  <2> QED  BY <2>1, <2>2
<1>8. NoOrphans'
  <2> SUFFICES ASSUME "mutation" \notin torn, NEW g \in repos', ~Referenced(g, projects)
               PROVE  FALSE
    BY <1>2 DEF NoOrphans, Referenced
  <2>1. PICK y \in Registrars : g \in InHand(y)  BY <1>2 DEF CatalogIInv, NoOrphans
  <2>2. y = x  BY <1>2, <2>1 DEF InHand, CatalogIInv, OneMutates, Mutates
  <2>3. g = w.old  BY <1>2, <2>1, <2>2 DEF InHand
  <2>4. w.old # w.repo  BY <1>a, <2>3 DEF Referenced
  <2> QED  BY <1>2, <2>3, <2>4 DEF Pruned
<1> QED  BY <1>2, <1>4, <1>5, <1>6, <1>7, <1>8 DEF CatalogIInv, OneProjectPerPath, Registered, Known

LEMMA RemovalFailsKeeps ==
  ASSUME CatalogIInv, NEW x \in Registrars, RemovalFails(x)
  PROVE  CatalogIInv'
<1>1. writer \in [Registrars -> Writers]  BY DEF CatalogIInv, CatalogTypeOK, Writers
<1>2. /\ writer[x].pc \in {"project", "prune"} /\ writer' = [writer EXCEPT ![x] = NoWriter]
      /\ torn' = torn \cup {"mutation"}
      /\ UNCHANGED <<projects, repos, root, setting, claims, scanning, disk>>
  BY DEF RemovalFails, tables
<1>3. /\ writer' \in [Registrars -> Writers] /\ writer'[x].pc = "off"
      /\ \A y \in Registrars \ {x} : writer'[y] = writer[y]
  BY <1>1, <1>2, NoWriterType
<1>4. CatalogTypeOK'  BY <1>2, <1>3 DEF CatalogIInv, CatalogTypeOK, Writers
<1>5. OneMutates'  BY <1>3 DEF CatalogIInv, OneMutates, Mutates
<1>6. \A y \in Registrars : WriterHolds(y)'
  <2>1. WriterHolds(x)'  BY <1>3 DEF WriterHolds
  <2>2. ASSUME NEW y \in Registrars \ {x}  PROVE WriterHolds(y)'
    BY <1>2, <1>3 DEF CatalogIInv, WriterHolds, Registered
  <2> QED  BY <2>1, <2>2
<1>7. NoOrphans'  BY <1>2 DEF NoOrphans
<1> QED  BY <1>2, <1>4, <1>5, <1>6, <1>7
         DEF CatalogIInv, OneProjectPerPath, RepositoriesFound, Registered, Known

\* Requests, scans, the disk and the passing of time.
LEMMA QueueKeeps ==
  ASSUME CatalogIInv, NEW x \in Registrars, UNCHANGED torn,
         (\E d \in Paths : RegisterPath(x, d)) \/ (\E c \in claims : RegisterCandidate(x, c))
  PROVE  CatalogIInv'
<1>1. writer \in [Registrars -> Writers]  BY DEF CatalogIInv, CatalogTypeOK, Writers
<1>2. \A d \in Paths : LET v == [NoWriter EXCEPT !.pc = "queued", !.path = d] IN
        v \in Writers /\ v.pc = "queued"
  BY CatalogAssumptions DEF NoWriter, Writers, WriterPcs, None
<1>3. \A c \in Paths \X Nat : LET v == [NoWriter EXCEPT !.pc = "queued", !.path = c[1], !.root = c[2]] IN
        v \in Writers /\ v.pc = "queued"
  BY CatalogAssumptions DEF NoWriter, Writers, WriterPcs, None
<1>4. claims \subseteq Paths \X Nat  BY DEF CatalogIInv, CatalogTypeOK
<1>5. /\ UNCHANGED <<projects, repos, root, setting, scanning, disk>> /\ claims' \subseteq Paths \X Nat
      /\ writer[x].pc = "off"
      /\ \E v \in Writers : v.pc = "queued" /\ writer' = [writer EXCEPT ![x] = v]
  <2>1. CASE \E d \in Paths : RegisterPath(x, d)
    BY <1>2, <1>4, <2>1 DEF RegisterPath, InWriter, tables
  <2>2. CASE \E c \in claims : RegisterCandidate(x, c)
    BY <1>3, <1>4, <2>2 DEF RegisterCandidate, InWriter, tables
  <2> QED  BY <2>1, <2>2
<1>6. writer' \in [Registrars -> Writers]
      /\ \A y \in Registrars :
           writer'[y] = writer[y] \/ (~Mutates(y) /\ writer'[y].pc \in {"off", "queued"})
  BY <1>1, <1>5 DEF Mutates
<1> QED  BY <1>5, <1>6, CatalogRests DEF CatalogIInv, CatalogTypeOK

LEMMA RootKeeps ==
  ASSUME CatalogIInv, UNCHANGED torn,
         AddRoot \/ RemoveRoot \/ ScanBegins \/ ScanEnds \/ \E c \in claims : ClaimExpires(c)
  PROVE  CatalogIInv'
<1>1. /\ UNCHANGED <<projects, repos, setting, disk, writer>>
      /\ root' \in [id : Nat, configured : BOOLEAN] /\ claims' \subseteq Paths \X Nat /\ scanning' \in Nat
  <2>1. root \in [id : Nat, configured : BOOLEAN] /\ claims \subseteq Paths \X Nat /\ scanning \in Nat
    BY DEF CatalogIInv, CatalogTypeOK
  <2>2. CASE AddRoot  BY <2>1, <2>2 DEF AddRoot
  <2>3. CASE RemoveRoot  BY <2>1, <2>3 DEF RemoveRoot
  <2>4. CASE ScanBegins  BY <2>1, <2>4 DEF ScanBegins, tables
  <2>5. CASE ScanEnds  BY <2>1, <2>5 DEF ScanEnds, tables, None
  <2>6. CASE \E c \in claims : ClaimExpires(c)  BY <2>1, <2>6 DEF ClaimExpires, tables
  <2> QED  BY <2>2, <2>3, <2>4, <2>5, <2>6
<1> QED  BY <1>1, CatalogRests DEF CatalogIInv, CatalogTypeOK, Writers

LEMMA DiskKeeps ==
  ASSUME CatalogIInv, UNCHANGED torn, NEW d \in Paths, NEW g \in Repos \cup {NoRepo},
         RepositoryMoves(d, g)
  PROVE  CatalogIInv'
<1>1. UNCHANGED <<projects, repos, root, setting, claims, scanning, writer>>
      /\ disk' = [disk EXCEPT ![d] = g]
  BY DEF RepositoryMoves, tables
<1>2. CatalogTypeOK'  BY <1>1 DEF CatalogIInv, CatalogTypeOK
<1>3. \A x \in Registrars : WriterHolds(x)'  BY <1>1 DEF CatalogIInv, WriterHolds, Registered
<1>4. NoOrphans' /\ OneMutates'  BY <1>1 DEF CatalogIInv, NoOrphans, InHand, Referenced, OneMutates, Mutates
<1> QED  BY <1>1, <1>2, <1>3, <1>4 DEF CatalogIInv, OneProjectPerPath, RepositoriesFound, Registered, Known

LEMMA CatalogStepsKeep ==
  ASSUME CatalogIInv, CatalogSteps
  PROVE  CatalogIInv' /\ Known \subseteq Known'
<1>1. ASSUME NEW x \in Registrars, WriterSteps(x), UNCHANGED torn  PROVE CatalogIInv' /\ Known \subseteq Known'
  BY <1>1, InspectKeeps, PutRepositoryKeeps, PutProjectKeeps, PruneRepositoryKeeps
     DEF WriterSteps, Inspect, PutRepository, PruneRepository, tables, Known
<1>2. ASSUME NEW x \in Registrars, PutProjectFails(x), UNCHANGED torn
      PROVE  CatalogIInv' /\ Known \subseteq Known'
  BY <1>2, PutProjectFailsKeeps DEF PutProjectFails, Known
<1>3. ASSUME NEW x \in Registrars, RemovalFails(x)  PROVE CatalogIInv' /\ Known \subseteq Known'
  BY <1>3, RemovalFailsKeeps DEF RemovalFails, tables, Known
<1>4. ASSUME NEW x \in Registrars, UNCHANGED torn,
             (\E d \in Paths : RegisterPath(x, d)) \/ (\E c \in claims : RegisterCandidate(x, c))
      PROVE  CatalogIInv' /\ Known \subseteq Known'
  BY <1>4, QueueKeeps DEF RegisterPath, RegisterCandidate, tables, Known
<1>5. ASSUME AddRoot \/ RemoveRoot \/ ScanBegins \/ ScanEnds \/ \E c \in claims : ClaimExpires(c),
             UNCHANGED torn
      PROVE  CatalogIInv' /\ Known \subseteq Known'
  BY <1>5, RootKeeps DEF AddRoot, RemoveRoot, ScanBegins, ScanEnds, ClaimExpires, tables, Known
<1>6. ASSUME NEW d \in Paths, NEW g \in Repos \cup {NoRepo}, RepositoryMoves(d, g), UNCHANGED torn
      PROVE  CatalogIInv' /\ Known \subseteq Known'
  BY <1>6, DiskKeeps DEF RepositoryMoves, tables, Known
<1> QED  BY <1>1, <1>2, <1>3, <1>4, <1>5, <1>6 DEF CatalogSteps

\* The host has started once.
LEMMA CatalogBegins ==
  ASSUME CatalogInit, torn = {}
  PROVE  CatalogIInv
<1>1. PICK first \in SUBSET Paths :
        /\ Home \in first /\ Cardinality(first) <= MaxProjects
        /\ \E id \in {f \in [first -> 1..Cardinality(first)] : \A d, e \in first : f[d] = f[e] => d = e} :
             projects = {[id |-> id[d], path |-> d, repo |-> disk[d]] : d \in first}
        /\ repos = {disk[d] : d \in first} \ {NoRepo}
  BY DEF CatalogInit
<1>2. IsFiniteSet(first)  BY FS_Subset, CatalogAssumptions
<1>3. Cardinality(first) \in Nat  BY <1>2, FS_CardinalityType
<1>4. 1..Cardinality(first) \subseteq Ids  BY <1>1, <1>3, CatalogAssumptions DEF Ids
<1>5. PICK id \in [first -> 1..Cardinality(first)] :
        /\ \A d, e \in first : id[d] = id[e] => d = e
        /\ projects = {[id |-> id[d], path |-> d, repo |-> disk[d]] : d \in first}
  BY <1>1
<1>6. /\ disk \in [Paths -> Repos \cup {NoRepo}] /\ root \in [id : Nat, configured : BOOLEAN] /\ setting = None
      /\ claims = {} /\ scanning \in Nat /\ writer = [x \in Registrars |-> NoWriter]
  BY DEF CatalogInit, None
<1>7. writer \in [Registrars -> Writers] /\ \A x \in Registrars : writer[x].pc = "off"
  BY <1>6, NoWriterType
<1>a. \A d \in first : id[d] \in Ids /\ d \in Paths /\ disk[d] \in Repos \cup {NoRepo}
  BY <1>1, <1>4, <1>5, <1>6
<1>b. \A r \in projects : \E d \in first : r = [id |-> id[d], path |-> d, repo |-> disk[d]]
  BY <1>5
<1>c. \A d \in first : [id |-> id[d], path |-> d, repo |-> disk[d]] \in projects
  BY <1>5
<1>8. CatalogTypeOK
  <2>1. projects \subseteq [id : Ids, path : Paths, repo : Repos \cup {NoRepo}]
    BY <1>a, <1>b
  <2>2. repos \subseteq Repos  BY <1>1, <1>a
  <2> QED  BY <1>6, <1>7, <2>1, <2>2 DEF CatalogTypeOK, Writers
<1>9. IsFiniteSet(projects)
  <2> DEFINE f == [d \in first |-> [id |-> id[d], path |-> d, repo |-> disk[d]]]
  <2>1. f \in Surjection(first, projects)  BY <1>5 DEF Surjection
  <2> HIDE DEF f
  <2> QED  BY <1>2, <2>1, FS_Surjection
<1>10. OneProjectPerPath  BY <1>5 DEF OneProjectPerPath
<1>11. RepositoriesFound  BY <1>1, <1>5 DEF RepositoriesFound
<1>12. Registered(Home)
  <2>1. [id |-> id[Home], path |-> Home, repo |-> disk[Home]] \in projects  BY <1>1, <1>c
  <2> QED  BY <2>1 DEF Registered
<1>13. NoOrphans
  <2> SUFFICES ASSUME NEW g \in repos  PROVE Referenced(g, projects)  BY DEF NoOrphans
  <2>1. PICK d \in first : g = disk[d]  BY <1>1
  <2>2. [id |-> id[d], path |-> d, repo |-> disk[d]] \in projects  BY <1>c
  <2> QED  BY <2>1, <2>2 DEF Referenced
<1> QED  BY <1>6, <1>7, <1>8, <1>9, <1>10, <1>11, <1>12, <1>13 DEF CatalogIInv, OneMutates, Mutates, WriterHolds

\* What is restored is a project or the view of all.
LEMMA RestoredKnown ==
  ASSUME CatalogIInv
  PROVE  Restored \in Known \cup {GlobalView}
  BY DEF CatalogIInv, Restored, Registered, RecordOf, Known

\* A host that starts again registers its own workspace anew.
LEMMA RestartCatalog ==
  ASSUME CatalogIInv, Restart
  PROVE  CatalogIInv' /\ Known' = Known
<1> DEFINE home == RecordOf(Home)
           new == [home EXCEPT !.repo = disk[Home]]
           left == IF Referenced(home.repo, projects') THEN {} ELSE {home.repo}
<1>1. home \in projects /\ home.path = Home  BY DEF CatalogIInv, Registered, RecordOf
<1>2. projects \subseteq [id : Ids, path : Paths, repo : Repos \cup {NoRepo}]
      /\ disk[Home] \in Repos \cup {NoRepo}
  BY CatalogAssumptions DEF CatalogIInv, CatalogTypeOK
<1>3. new \in [id : Ids, path : Paths, repo : Repos \cup {NoRepo}]
      /\ new.id = home.id /\ new.path = Home /\ new.repo = disk[Home]
  BY <1>1, <1>2
<1>4. /\ projects' = (projects \ {home}) \cup {new}
      /\ repos' = (repos \cup ({disk[Home]} \ {NoRepo})) \ left
      /\ writer' = [x \in Registrars |-> NoWriter] /\ claims' = {} /\ scanning' = None
      /\ torn' = IF Free THEN torn \ {"context"} ELSE {"mutation"}
      /\ UNCHANGED <<root, setting, disk>>
  BY DEF Restart
<1> HIDE DEF new, home
<1>5. writer' \in [Registrars -> Writers] /\ \A x \in Registrars : writer'[x].pc = "off"
  BY <1>4, NoWriterType
<1>6. CatalogTypeOK'  BY <1>2, <1>3, <1>4, <1>5 DEF CatalogIInv, CatalogTypeOK, Writers, None
<1>7. IsFiniteSet(projects')  BY <1>4, FS_RemoveElement, FS_AddElement DEF CatalogIInv
<1>8. \A r \in projects' : r = new \/ (r \in projects /\ r # home)  BY <1>4
<1>9. OneProjectPerPath'  BY <1>1, <1>3, <1>8 DEF CatalogIInv, OneProjectPerPath
<1>10. RepositoriesFound'
  <2> SUFFICES ASSUME NEW r \in projects', r.repo # NoRepo  PROVE r.repo \in repos'
    BY DEF RepositoriesFound
  <2>1. r.repo \in repos \cup ({disk[Home]} \ {NoRepo})
    BY <1>3, <1>8 DEF CatalogIInv, RepositoriesFound
  <2>2. r.repo \notin left  BY DEF Referenced
  <2> QED  BY <1>4, <2>1, <2>2
<1>11. Registered(Home)'  BY <1>3, <1>4 DEF Registered
<1>12. NoOrphans'
  <2> SUFFICES ASSUME Free, "mutation" \notin torn, NEW g \in repos'  PROVE Referenced(g, projects')
    BY <1>4 DEF NoOrphans, Referenced
  <2>1. CASE g = disk[Home]  BY <1>3, <1>4, <2>1 DEF Referenced
  <2>2. CASE g # disk[Home]
    <3>1. g \in repos  BY <1>4, <2>2
    <3>2. \A x \in Registrars : InHand(x) = {}  BY DEF Free, InHand
    <3>3. PICK r \in projects : r.repo = g  BY <3>1, <3>2 DEF CatalogIInv, NoOrphans, Referenced
    <3>4. CASE r = home  BY <1>4, <3>3, <3>4
    <3>5. CASE r # home  BY <1>4, <3>3, <3>5 DEF Referenced
    <3> QED  BY <3>4, <3>5
  <2> QED  BY <2>1, <2>2
<1>13. Known' = Known
  <2>1. Known' \subseteq Known  BY <1>1, <1>3, <1>8 DEF Known
  <2>2. Known \subseteq Known'  BY <1>1, <1>3, <1>4 DEF Known
  <2> QED  BY <2>1, <2>2
<1> QED  BY <1>4, <1>5, <1>6, <1>7, <1>9, <1>10, <1>11, <1>12, <1>13
         DEF CatalogIInv, OneMutates, Mutates, WriterHolds

-----------------------------------------------------------------------------
(* Contexts, and tables of them *)

Pools == [Ids -> Seq(Contexts)]
Within(pl) == UNION {{<<p, i>> : i \in 1..Len(pl[p])} : p \in Ids}

\* What becomes of a context: the rest of it stays.
LEMMA BegunIs ==
  ASSUME NEW c \in Contexts
  PROVE  /\ Begun(c) \in Contexts /\ Begun(c).watching = c.watching /\ Begun(c).watchers = c.watchers
         /\ Begun(c).active = c.active /\ Begun(c).run = (IF c.run = "none" THEN "live" ELSE c.run)
<1>1. CASE c.run = "none"
  <2>1. Begun(c) = [c EXCEPT !.run = "live"]  BY <1>1 DEF Begun
  <2> QED  BY <1>1, <2>1 DEF Contexts
<1>2. CASE c.run # "none"
  BY <1>2 DEF Begun
<1> QED  BY <1>1, <1>2

LEMMA WatchedIs ==
  ASSUME NEW c \in Contexts
  PROVE  /\ Watched(c) \in Contexts /\ Watched(c).watching = TRUE /\ Watched(c).watchers = c.watchers + 1
         /\ Watched(c).active = c.active /\ Watched(c).run = c.run
<1>1. Watched(c) = [c EXCEPT !.watching = TRUE, !.watchers = c.watchers + 1]  BY DEF Watched, Contexts
<1>2. c.watchers + 1 \in Nat  BY DEF Contexts
<1> QED  BY <1>1, <1>2 DEF Contexts

LEMMA ActiveIsIs ==
  ASSUME NEW c \in Contexts, NEW on \in BOOLEAN
  PROVE  /\ ActiveIs(c, on) \in Contexts /\ ActiveIs(c, on).watching = c.watching
         /\ ActiveIs(c, on).watchers = c.watchers /\ ActiveIs(c, on).run = c.run
         /\ ActiveIs(c, on).active = (IF c.run = "live" THEN on ELSE c.active)
<1>1. CASE c.run = "live"
  <2>1. ActiveIs(c, on) = [c EXCEPT !.active = on]  BY <1>1 DEF ActiveIs
  <2> QED  BY <1>1, <2>1 DEF Contexts
<1>2. CASE c.run # "live"
  BY <1>2 DEF ActiveIs
<1> QED  BY <1>1, <1>2

LEMMA DisposingIs ==
  ASSUME NEW c \in Contexts
  PROVE  /\ Disposing(c) \in Contexts /\ Disposing(c).watching = c.watching
         /\ Disposing(c).watchers = c.watchers /\ Disposing(c).active = FALSE
         /\ Disposing(c).run = (IF c.run = "live" THEN "disposed" ELSE c.run)
<1> DEFINE to == IF c.run = "live" THEN "disposed" ELSE c.run
<1>1. Disposing(c) = [c EXCEPT !.run = to, !.active = FALSE]  BY DEF Disposing, Contexts
<1>2. to \in {"none", "live", "disposed"}  BY DEF Contexts
<1> HIDE DEF to
<1>3. [c EXCEPT !.run = to, !.active = FALSE] \in Contexts  BY <1>2 DEF Contexts
<1>4. /\ [c EXCEPT !.run = to, !.active = FALSE].watching = c.watching
      /\ [c EXCEPT !.run = to, !.active = FALSE].watchers = c.watchers
      /\ [c EXCEPT !.run = to, !.active = FALSE].active = FALSE
      /\ [c EXCEPT !.run = to, !.active = FALSE].run = to
  BY DEF Contexts
<1> QED  BY <1>1, <1>3, <1>4 DEF to

LEMMA DisposedIs ==
  ASSUME NEW c \in Contexts
  PROVE  /\ Disposed(c) \in Contexts /\ Disposed(c).watching = c.watching
         /\ Disposed(c).watchers = (IF c.watchers = 0 THEN 0 ELSE c.watchers - 1)
         /\ Disposed(c).active = c.active /\ Disposed(c).run = c.run
<1> DEFINE left == IF c.watchers = 0 THEN 0 ELSE c.watchers - 1
<1>1. Disposed(c) = [c EXCEPT !.watchers = left]  BY DEF Disposed, Contexts
<1>2. left \in Nat  BY DEF Contexts
<1> HIDE DEF left
<1>3. [c EXCEPT !.watchers = left] \in Contexts
      /\ [c EXCEPT !.watchers = left].watching = c.watching
      /\ [c EXCEPT !.watchers = left].watchers = left
      /\ [c EXCEPT !.watchers = left].active = c.active
      /\ [c EXCEPT !.watchers = left].run = c.run
  BY <1>2 DEF Contexts
<1> QED  BY <1>1, <1>3 DEF left

LEMMA FreshContext ==
  Fresh \in Contexts /\ Fresh.watching = FALSE /\ Fresh.watchers = 0 /\ Fresh.active = FALSE
  /\ Fresh.run = "none"
  BY DEF Contexts, Fresh

LEMMA WithinIs ==
  ASSUME NEW pl \in Pools
  PROVE  /\ \A o : o \in Within(pl) <=> \E p \in Ids : \E i \in 1..Len(pl[p]) : o = <<p, i>>
         /\ \A o \in Within(pl) : o[1] \in Ids /\ o[2] \in Nat \ {0} /\ o[2] <= Len(pl[o[1]])
                                  /\ o = <<o[1], o[2]>> /\ At(pl, o) \in Contexts
         /\ \A p \in Ids : \A i \in 1..Len(pl[p]) : <<p, i>> \in Within(pl) /\ At(pl, <<p, i>>) \in Contexts
<1>1. \A o : o \in Within(pl) <=> \E p \in Ids : \E i \in 1..Len(pl[p]) : o = <<p, i>>
  BY DEF Within
<1>2. \A p \in Ids : \A i \in 1..Len(pl[p]) : <<p, i>> \in Within(pl) /\ At(pl, <<p, i>>) \in Contexts
  BY <1>1 DEF Pools, At
<1>3. ASSUME NEW o \in Within(pl)
      PROVE  o[1] \in Ids /\ o[2] \in Nat \ {0} /\ o[2] <= Len(pl[o[1]])
             /\ o = <<o[1], o[2]>> /\ At(pl, o) \in Contexts
  <2>1. PICK p \in Ids : \E i \in 1..Len(pl[p]) : o = <<p, i>>  BY <1>1
  <2>2. PICK i \in 1..Len(pl[p]) : o = <<p, i>>  BY <2>1
  <2>3. Len(pl[p]) \in Nat  BY DEF Pools
  <2>4. o[1] = p /\ o[2] = i  BY <2>2
  <2> QED  BY <1>2, <2>2, <2>3, <2>4
<1> QED  BY <1>1, <1>2, <1>3

LEMMA ObjectsWithin == Objects = Within(pool)
  BY DEF Objects, Within

\* One context of the table changes.
Put(pl, o, v) == [pl EXCEPT ![o[1]][o[2]] = v]

LEMMA PoolPut ==
  ASSUME NEW pl \in Pools, NEW o \in Within(pl), NEW v \in Contexts
  PROVE  LET new == Put(pl, o, v)
         IN  /\ new \in Pools /\ \A p \in Ids : Len(new[p]) = Len(pl[p])
             /\ Within(new) = Within(pl)
             /\ At(new, o) = v /\ \A q \in Within(pl) : q # o => At(new, q) = At(pl, q)
<1> DEFINE new == Put(pl, o, v)
<1>1. o[1] \in Ids /\ o[2] \in 1..Len(pl[o[1]]) /\ o = <<o[1], o[2]>>  BY WithinIs
<1>2. pl[o[1]] \in Seq(Contexts)  BY <1>1 DEF Pools
<1>3. [pl[o[1]] EXCEPT ![o[2]] = v] \in Seq(Contexts)
      /\ Len([pl[o[1]] EXCEPT ![o[2]] = v]) = Len(pl[o[1]])
  BY <1>1, <1>2
<1>4. new = [pl EXCEPT ![o[1]] = [pl[o[1]] EXCEPT ![o[2]] = v]]  BY <1>1 DEF Pools, Put
<1> HIDE DEF new
<1>5. new \in Pools /\ \A p \in Ids : Len(new[p]) = Len(pl[p])
  BY <1>1, <1>3, <1>4 DEF Pools
<1>6. Within(new) = Within(pl)  BY <1>5 DEF Within
<1>7. At(new, o) = v  BY <1>1, <1>2, <1>4 DEF At, Pools
<1>8. ASSUME NEW q \in Within(pl), q # o  PROVE At(new, q) = At(pl, q)
  <2>1. q[1] \in Ids /\ q = <<q[1], q[2]>>  BY WithinIs
  <2>2. q[1] # o[1] \/ q[2] # o[2]  BY <1>1, <1>8, <2>1
  <2> QED  BY <1>1, <1>2, <1>4, <2>1, <2>2 DEF At, Pools
<1> QED  BY <1>5, <1>6, <1>7, <1>8 DEF new

\* A new context is made for some projects.
Appended(pl, ids) == [p \in Ids |-> IF p \in ids THEN Append(pl[p], Fresh) ELSE pl[p]]

LEMMA PoolAppends ==
  ASSUME NEW pl \in Pools, NEW ids \in SUBSET Ids,
         NEW new, new = Appended(pl, ids)
  PROVE  /\ new \in Pools
         /\ \A p \in Ids : Len(new[p]) = IF p \in ids THEN Len(pl[p]) + 1 ELSE Len(pl[p])
         /\ Within(pl) \subseteq Within(new)
         /\ \A q \in Within(pl) : At(new, q) = At(pl, q)
         /\ \A q \in Within(new) \ Within(pl) :
              q[1] \in ids /\ q = <<q[1], Len(pl[q[1]]) + 1>> /\ At(new, q) = Fresh
         /\ \A p \in ids : <<p, Len(pl[p]) + 1>> \in Within(new) \ Within(pl)
<1>1. \A p \in Ids : pl[p] \in Seq(Contexts) /\ Len(pl[p]) \in Nat  BY DEF Pools
<1>2. \A p \in Ids : /\ new[p] \in Seq(Contexts)
                     /\ Len(new[p]) = IF p \in ids THEN Len(pl[p]) + 1 ELSE Len(pl[p])
                     /\ \A i \in 1..Len(pl[p]) : new[p][i] = pl[p][i]
                     /\ p \in ids => new[p][Len(pl[p]) + 1] = Fresh
  BY <1>1, FreshContext DEF Appended
<1>3. new \in Pools  BY <1>2 DEF Pools, Appended
<1>4. ASSUME NEW q \in Within(pl)  PROVE q \in Within(new) /\ At(new, q) = At(pl, q)
  <2>1. q[1] \in Ids /\ q[2] \in 1..Len(pl[q[1]]) /\ q = <<q[1], q[2]>>  BY WithinIs, <1>1
  <2>2. q[2] \in 1..Len(new[q[1]])  BY <1>1, <1>2, <2>1
  <2> QED  BY <1>2, <1>3, <2>1, <2>2, WithinIs DEF At
<1>5. ASSUME NEW q \in Within(new) \ Within(pl)
      PROVE  q[1] \in ids /\ q = <<q[1], Len(pl[q[1]]) + 1>> /\ At(new, q) = Fresh
  <2>1. q[1] \in Ids /\ q[2] \in 1..Len(new[q[1]]) /\ q = <<q[1], q[2]>>  BY <1>3, WithinIs
  <2>2. q[2] \notin 1..Len(pl[q[1]])  BY <2>1, WithinIs
  <2> QED  BY <1>1, <1>2, <2>1, <2>2 DEF At
<1>6. ASSUME NEW p \in ids  PROVE <<p, Len(pl[p]) + 1>> \in Within(new) \ Within(pl)
  <2>1. Len(pl[p]) + 1 \in 1..Len(new[p])  BY <1>1, <1>2
  <2>2. <<p, Len(pl[p]) + 1>> \in Within(new)  BY <1>3, <2>1, WithinIs
  <2>3. <<p, Len(pl[p]) + 1>> \notin Within(pl)
    <3> SUFFICES ASSUME <<p, Len(pl[p]) + 1>> \in Within(pl) PROVE FALSE  OBVIOUS
    <3>1. <<p, Len(pl[p]) + 1>>[2] <= Len(pl[<<p, Len(pl[p]) + 1>>[1]])  BY WithinIs
    <3> QED  BY <1>1, <3>1
  <2> QED  BY <2>2, <2>3
<1> QED  BY <1>2, <1>3, <1>4, <1>5, <1>6

\* The tables agree on which contexts there are.
Indexed == pool \in Pools /\ contexts \in [Ids -> Nat] /\ \A p \in Ids : contexts[p] <= Len(pool[p])

LEMMA HereWithin ==
  ASSUME Indexed, NEW p \in Ids, contexts[p] # None
  PROVE  Here(p) \in Within(pool) /\ IsHere(Here(p)) /\ At(pool, Here(p)) \in Contexts
<1>1. Len(pool[p]) \in Nat /\ contexts[p] \in 1..Len(pool[p])  BY DEF Indexed, Pools, None
<1> QED  BY <1>1, WithinIs DEF Indexed, Here, IsHere

\* new is the table after ensureContext for each of ids.
Made(new, ids) ==
  /\ new \in Pools /\ Within(pool) \subseteq Within(new)
  /\ \A q \in Within(new) \ Within(pool) :
       /\ q[1] \in ids /\ contexts[q[1]] = None
       /\ q = <<q[1], ContextsWith(ids)[q[1]]>> /\ At(new, q) = Fresh
  /\ \A p \in ids : <<p, ContextsWith(ids)[p]>> \in Within(new)
  /\ \A p \in ids : contexts[p] = None => <<p, ContextsWith(ids)[p]>> \notin Within(pool)
  /\ ContextsWith(ids) \in [Ids -> Nat] /\ \A p \in Ids : ContextsWith(ids)[p] <= Len(new[p])

LEMMA MadeFor ==
  ASSUME Indexed, NEW ids \in SUBSET Ids,
         NEW pl \in Pools, \A p \in Ids : Len(pl[p]) = Len(pool[p])
  PROVE  LET new == PoolWith(pl, ids)
         IN  /\ Made(new, ids) /\ Within(pool) = Within(pl)
             /\ \A p \in Ids : Len(new[p]) >= Len(pool[p])
             /\ \A q \in Within(pool) : At(new, q) = At(pl, q)
<1> DEFINE none == {p \in ids : contexts[p] = None}
           new == PoolWith(pl, ids)
<1>1. new = Appended(pl, none)  BY DEF PoolWith, Appended
<1>2. none \in SUBSET Ids  OBVIOUS
<1>3. Within(pool) = Within(pl)  BY DEF Within
<1>4. \A p \in Ids : Len(pl[p]) \in Nat  BY DEF Pools
<1>5. \A p \in Ids : ContextsWith(ids)[p] = IF p \in none THEN Len(pl[p]) + 1 ELSE contexts[p]
  BY DEF ContextsWith
<1>6. ContextsWith(ids) \in [Ids -> Nat]  BY <1>4, <1>5 DEF ContextsWith, Indexed
<1> HIDE DEF new, none
<1>7. /\ new \in Pools
      /\ \A p \in Ids : Len(new[p]) = IF p \in none THEN Len(pl[p]) + 1 ELSE Len(pl[p])
      /\ Within(pl) \subseteq Within(new)
      /\ \A q \in Within(pl) : At(new, q) = At(pl, q)
      /\ \A q \in Within(new) \ Within(pl) :
           q[1] \in none /\ q = <<q[1], Len(pl[q[1]]) + 1>> /\ At(new, q) = Fresh
      /\ \A p \in none : <<p, Len(pl[p]) + 1>> \in Within(new) \ Within(pl)
  BY <1>1, <1>2, PoolAppends
<1>8. \A q \in Within(new) \ Within(pool) :
        /\ q[1] \in ids /\ contexts[q[1]] = None
        /\ q = <<q[1], ContextsWith(ids)[q[1]]>> /\ At(new, q) = Fresh
  BY <1>3, <1>5, <1>7 DEF none
<1>9. ASSUME NEW p \in ids  PROVE <<p, ContextsWith(ids)[p]>> \in Within(new)
  <2>1. CASE p \in none  BY <1>5, <1>7, <2>1
  <2>2. CASE p \notin none
    <3>1. <<p, contexts[p]>> \in Within(pool)  BY <2>2, HereWithin DEF none, Here
    <3> QED  BY <1>3, <1>5, <1>7, <2>2, <3>1
  <2> QED  BY <2>1, <2>2
<1>10. \A p \in ids : contexts[p] = None => <<p, ContextsWith(ids)[p]>> \notin Within(pool)
  BY <1>3, <1>5, <1>7 DEF none
<1>11. \A p \in Ids : Len(new[p]) >= Len(pool[p]) /\ ContextsWith(ids)[p] <= Len(new[p])
  BY <1>4, <1>5, <1>7 DEF Indexed
<1> QED  BY <1>3, <1>6, <1>7, <1>8, <1>9, <1>10, <1>11 DEF new, Made

\* ensureRuntime for the contexts that are watched already.
LEMMA BegunFor ==
  ASSUME Indexed, NEW mid \in Pools, \A p \in Ids : Len(mid[p]) >= Len(pool[p]),
         Within(pool) \subseteq Within(mid), NEW ids \in SUBSET Ids,
         \A p \in ids : contexts[p] # None
  PROVE  LET new == BegunIn(mid, ids)
         IN  /\ new \in Pools /\ Within(new) = Within(mid) /\ \A p \in Ids : Len(new[p]) = Len(mid[p])
             /\ \A q \in Within(mid) : At(new, q) =
                  IF q[1] \in ids /\ IsHere(q) THEN Begun(At(mid, q)) ELSE At(mid, q)
<1> DEFINE new == BegunIn(mid, ids)
<1>1. \A p \in Ids : mid[p] \in Seq(Contexts) /\ Len(mid[p]) \in Nat /\ Len(pool[p]) \in Nat
  BY DEF Pools, Indexed
<1>2. ASSUME NEW p \in ids
      PROVE  /\ contexts[p] \in 1..Len(mid[p])
             /\ mid[p][contexts[p]] \in Contexts /\ Begun(mid[p][contexts[p]]) \in Contexts
  <2>1. contexts[p] \in 1..Len(mid[p])  BY <1>1 DEF Indexed, None
  <2> QED  BY <1>1, <2>1, BegunIs
<1>3. \A p \in Ids : new[p] = IF p \in ids THEN [mid[p] EXCEPT ![contexts[p]] = Begun(mid[p][contexts[p]])]
                              ELSE mid[p]
  BY <1>1, <1>2 DEF BegunIn
<1>4. new = [p \in Ids |-> new[p]]  BY DEF BegunIn
<1> HIDE DEF new
<1>5. ASSUME NEW p \in Ids  PROVE new[p] \in Seq(Contexts) /\ Len(new[p]) = Len(mid[p])
  <2>1. CASE p \in ids
    <3> DEFINE v == Begun(mid[p][contexts[p]])
    <3>1. new[p] = [mid[p] EXCEPT ![contexts[p]] = v] /\ v \in Contexts
          /\ contexts[p] \in 1..Len(mid[p]) /\ mid[p] \in Seq(Contexts)
      BY <1>1, <1>2, <1>3, <2>1
    <3> HIDE DEF v
    <3> QED  BY <3>1
  <2>2. CASE p \notin ids  BY <1>1, <1>3, <2>2
  <2> QED  BY <2>1, <2>2
<1>6. new \in Pools  BY <1>4, <1>5 DEF Pools
<1>7. Within(new) = Within(mid)  BY <1>5 DEF Within
<1>8. ASSUME NEW q \in Within(mid)
      PROVE  At(new, q) = IF q[1] \in ids /\ IsHere(q) THEN Begun(At(mid, q)) ELSE At(mid, q)
  <2>1. q[1] \in Ids /\ q[2] \in 1..Len(mid[q[1]]) /\ q = <<q[1], q[2]>>  BY <1>1, WithinIs
  <2>2. IsHere(q) <=> q[2] = contexts[q[1]]  BY <2>1 DEF IsHere, Here
  <2>3. CASE q[1] \in ids
    <3>1. new[q[1]] = [mid[q[1]] EXCEPT ![contexts[q[1]]] = Begun(mid[q[1]][contexts[q[1]]])]
      BY <1>3, <2>1, <2>3
    <3>2. CASE q[2] = contexts[q[1]]  BY <1>1, <2>1, <2>2, <2>3, <3>1, <3>2 DEF At
    <3>3. CASE q[2] # contexts[q[1]]  BY <1>1, <2>1, <2>2, <2>3, <3>1, <3>3 DEF At
    <3> QED  BY <3>2, <3>3
  <2>4. CASE q[1] \notin ids  BY <1>3, <2>1, <2>4 DEF At
  <2> QED  BY <2>3, <2>4
<1> QED  BY <1>5, <1>6, <1>7, <1>8 DEF new

\* The contexts of ids, of which those that are watched begin their runtimes.
LEMMA Ensured ==
  ASSUME Indexed, NEW ids \in SUBSET Ids,
         NEW pl \in Pools, \A p \in Ids : Len(pl[p]) = Len(pool[p])
  PROVE  LET new == BegunIn(PoolWith(pl, ids), ids \ Unwatched(ids))
         IN  /\ Made(new, ids)
             /\ \A q \in Within(pool) : At(new, q) =
                  IF q[1] \in ids /\ IsHere(q) /\ At(pool, q).watching THEN Begun(At(pl, q))
                                                                      ELSE At(pl, q)
<1> DEFINE mid == PoolWith(pl, ids)
           some == ids \ Unwatched(ids)
           new == BegunIn(mid, some)
<1>1. /\ Made(mid, ids) /\ \A p \in Ids : Len(mid[p]) >= Len(pool[p])
      /\ \A q \in Within(pool) : At(mid, q) = At(pl, q)
  BY MadeFor
<1>2. \A p : p \in some <=> p \in ids /\ contexts[p] # None /\ At(pool, Here(p)).watching
  BY DEF Unwatched
<1> HIDE DEF mid, some
<1>3. some \in SUBSET Ids /\ \A p \in some : contexts[p] # None  BY <1>2
<1>4. mid \in Pools /\ Within(pool) \subseteq Within(mid)  BY <1>1 DEF Made
<1>5. /\ new \in Pools /\ Within(new) = Within(mid) /\ \A p \in Ids : Len(new[p]) = Len(mid[p])
      /\ \A q \in Within(mid) : At(new, q) =
           IF q[1] \in some /\ IsHere(q) THEN Begun(At(mid, q)) ELSE At(mid, q)
  BY <1>1, <1>3, <1>4, BegunFor
<1> HIDE DEF new
<1>6. \A q \in Within(new) \ Within(pool) : At(new, q) = At(mid, q)
  BY <1>1, <1>3, <1>5 DEF Made
<1>7. Made(new, ids)
  BY <1>1, <1>5, <1>6 DEF Made
<1>8. \A q \in Within(pool) : At(new, q) =
        IF q[1] \in ids /\ IsHere(q) /\ At(pool, q).watching THEN Begun(At(pl, q)) ELSE At(pl, q)
  <2> SUFFICES ASSUME NEW q \in Within(pool)
      PROVE At(new, q) = IF q[1] \in ids /\ IsHere(q) /\ At(pool, q).watching THEN Begun(At(pl, q))
                                                                            ELSE At(pl, q)
    OBVIOUS
  <2>1. q[1] \in Ids /\ q[2] \in Nat \ {0}  BY WithinIs DEF Indexed
  <2>2. IsHere(q) => q = Here(q[1]) /\ contexts[q[1]] # None
    BY <2>1 DEF IsHere, Here, None
  <2>3. (q[1] \in some /\ IsHere(q)) <=> (q[1] \in ids /\ IsHere(q) /\ At(pool, q).watching)
    BY <1>2, <2>2
  <2> QED  BY <1>1, <1>4, <1>5, <2>3
<1> QED  BY <1>7, <1>8 DEF new, mid, some

-----------------------------------------------------------------------------
(* Contexts are taken *)

\* f takes the contexts of ids, and begins to watch those of some.
Suits(q, ids) ==
  LET c == At(pool, q)
      d == At(pool', q)
  IN /\ d.watching = c.watching /\ d.watchers = c.watchers
     /\ d.active <=> c.active /\ current' = current
     /\ d.run = c.run \/ (c.run = "none" /\ d.run = "live" /\ c.watching /\ IsHere(q) /\ q[1] \in ids)

TakesTable(f, ids, some) ==
  /\ f \in Callers /\ ids \in SUBSET Ids /\ some \in SUBSET Unwatched(ids)
  /\ Made(pool', ids) /\ contexts' = ContextsWith(ids)
  /\ loading' = [loading EXCEPT ![f] = @ \cup {<<p, ContextsWith(ids)[p]>> : p \in some}]

Takes(f, ids, some) ==
  /\ TakesTable(f, ids, some) /\ ~Taken(f, ids)
  /\ \A q \in Within(pool) : Suits(q, ids)
  /\ \A x \in Registrars : /\ reg'[x].pc = "dispose" <=> reg[x].pc = "dispose"
                           /\ reg[x].pc = "dispose" => reg'[x].target = reg[x].target /\ x # f
  /\ current' \in {current, GlobalView}

LEMMA ShapeIndexed == RuntimeShape => Indexed
  BY DEF RuntimeShape, Indexed, Pools

LEMMA AtPrime == \A o : (At(pool, o))' = At(pool', o)
  BY DEF At

LEMMA ObjectsPrime == Objects' = Within(pool')
  BY DEF Objects, Within

LEMMA IsHerePrime == \A o : (IsHere(o))' <=> o = <<o[1], contexts'[o[1]]>>
  BY DEF IsHere, Here

\* Whose context is the present one does not change.
LEMMA TakenHere ==
  ASSUME RuntimeShape, NEW ids \in SUBSET Ids, Made(pool', ids), contexts' = ContextsWith(ids)
  PROVE  /\ Indexed
         /\ \A q \in Within(pool) : q \in Within(pool') /\ ((IsHere(q))' <=> IsHere(q))
         /\ \A p \in Ids : contexts[p] # None => contexts'[p] = contexts[p]
         /\ \A p \in ids : contexts'[p] # None
<1>1. Indexed  BY ShapeIndexed
<1>2. \A p \in Ids : contexts'[p] = IF p \in ids /\ contexts[p] = None THEN Len(pool[p]) + 1 ELSE contexts[p]
  BY DEF ContextsWith
<1>3. ASSUME NEW q \in Within(pool)  PROVE q \in Within(pool') /\ ((IsHere(q))' <=> IsHere(q))
  <2>1. q[1] \in Ids /\ q[2] \in Nat \ {0} /\ q = <<q[1], q[2]>>  BY <1>1, WithinIs DEF Indexed
  <2>2. q \in Within(pool')  BY DEF Made
  <2>3. CASE q[1] \in ids /\ contexts[q[1]] = None
    <3>1. <<q[1], contexts'[q[1]]>> \notin Within(pool)  BY <2>3 DEF Made
    <3>2. ~(IsHere(q))'  BY <3>1, IsHerePrime
    <3>3. ~IsHere(q)  BY <2>1, <2>3 DEF IsHere, Here, None
    <3> QED  BY <2>2, <3>2, <3>3
  <2>4. CASE ~(q[1] \in ids /\ contexts[q[1]] = None)
    <3>1. contexts'[q[1]] = contexts[q[1]]  BY <1>2, <2>1, <2>4
    <3> QED  BY <2>2, <3>1, IsHerePrime DEF IsHere, Here
  <2> QED  BY <2>3, <2>4
<1>4. \A p \in ids : contexts'[p] # None
  BY <1>1, <1>2 DEF Indexed, Pools, None
<1> QED  BY <1>1, <1>2, <1>3, <1>4

LEMMA TakeKeeps ==
  ASSUME RuntimeIInv, Undisturbed, NEW f, NEW ids, NEW some, Takes(f, ids, some),
         switch'.target \in {switch.target, NoContext} \cup {<<p, ContextsWith(ids)[p]>> : p \in ids}
  PROVE  (\A o \in Objects : ContextHolds(o))' /\ LoadsHold' /\ (\A x \in Registrars : DisposalHolds(x))'
<1>1. /\ RuntimeShape /\ LoadsHold /\ \A o \in Within(pool) : ContextHolds(o)
      /\ \A x \in Registrars : DisposalHolds(x)
  BY ObjectsWithin DEF RuntimeIInv
<1>2. /\ f \in Callers /\ ids \in SUBSET Ids /\ some \in SUBSET Unwatched(ids)
      /\ Made(pool', ids) /\ contexts' = ContextsWith(ids) /\ ~Taken(f, ids)
      /\ \A q \in Within(pool) : Suits(q, ids)
      /\ \A x \in Registrars : /\ reg'[x].pc = "dispose" <=> reg[x].pc = "dispose"
                               /\ reg[x].pc = "dispose" => reg'[x].target = reg[x].target /\ x # f
      /\ current' \in {current, GlobalView}
  BY DEF Takes, TakesTable
<1>3. /\ Indexed /\ \A q \in Within(pool) : q \in Within(pool') /\ ((IsHere(q))' <=> IsHere(q))
      /\ \A p \in Ids : contexts[p] # None => contexts'[p] = contexts[p]
  BY <1>1, <1>2, TakenHere
<1>4. /\ loading \in [Callers -> SUBSET Within(pool)]
      /\ \A x \in Registrars : reg[x].pc = "dispose" => reg[x].target \in Within(pool)
  BY <1>1, ObjectsWithin DEF RuntimeShape, RegShape
<1>5. \A g \in Callers : loading'[g] = loading[g] \cup
        (IF g = f THEN {<<p, ContextsWith(ids)[p]>> : p \in some} ELSE {})
  BY <1>4 DEF Takes, TakesTable
<1>6. \A q \in Within(pool') \ Within(pool) : (IsHere(q))' /\ At(pool', q) = Fresh
  BY <1>2, IsHerePrime DEF Made
<1>7. ASSUME NEW o \in Within(pool), NEW p \in ids, o = <<p, ContextsWith(ids)[p]>>
      PROVE  /\ contexts[p] # None /\ o = Here(p)
             /\ \A g \in Callers \ {f} : o \notin loading[g]
             /\ \A x \in Registrars : ~Disposes(x, o)
  <2>1. contexts[p] # None  BY <1>2, <1>7 DEF Made
  <2>2. o = Here(p)  BY <1>2, <1>3, <1>7, <2>1 DEF Here
  <2>3. \A x \in Registrars : x \in Callers  BY DEF Callers
  <2> QED  BY <1>2, <2>1, <2>2, <2>3 DEF Taken, Disposes
<1>8. ASSUME NEW o \in {<<p, ContextsWith(ids)[p]>> : p \in some}
      PROVE  /\ o \in Within(pool') /\ (IsHere(o))' /\ ~At(pool', o).watching
             /\ \A g \in Callers \ {f} : o \notin loading[g]
             /\ \A x \in Registrars : ~Disposes(x, o)
  <2>1. PICK p \in some : o = <<p, ContextsWith(ids)[p]>>  BY <1>8
  <2>2. p \in ids /\ (contexts[p] = None \/ ~At(pool, Here(p)).watching)  BY <1>2 DEF Unwatched
  <2>3. o \in Within(pool') /\ (IsHere(o))'  BY <1>2, <2>1, <2>2, IsHerePrime DEF Made
  <2>4. CASE o \in Within(pool)
    <3>1. At(pool', o).watching = At(pool, o).watching  BY <1>2, <2>4 DEF Suits
    <3> QED  BY <1>7, <2>1, <2>2, <2>3, <2>4, <3>1
  <2>5. CASE o \notin Within(pool)
    <3>1. At(pool', o) = Fresh  BY <1>6, <2>3, <2>5
    <3> QED  BY <1>4, <2>3, <2>5, <3>1, FreshContext DEF Disposes
  <2> QED  BY <2>4, <2>5
<1>9. \A x \in Registrars : \A o : (Disposes(x, o))' <=> Disposes(x, o)
  BY <1>2 DEF Disposes
<1>10. ASSUME NEW o \in Within(pool')  PROVE (ContextHolds(o))'
  <2>1. CASE o \in Within(pool)
    <3> DEFINE c == At(pool, o)
               d == At(pool', o)
    <3>1. /\ d.watching = c.watching /\ d.watchers = c.watchers
          /\ d.active <=> c.active /\ current' = current
          /\ d.run = c.run \/ (c.run = "none" /\ d.run = "live" /\ c.watching /\ IsHere(o))
      BY <1>2, <2>1 DEF Suits
    <3>2. /\ c.watchers = IF IsHere(o) /\ c.watching THEN 1 ELSE 0
          /\ c.run = "live" => IsHere(o) /\ c.watching
          /\ c.active => c.run = "live" /\ o[1] = current
          /\ (IsHere(o) /\ c.run = "disposed") => \E x \in Registrars : Disposes(x, o)
      BY <1>1, <2>1 DEF ContextHolds
    <3>3. (IsHere(o))' <=> IsHere(o)  BY <1>3, <2>1
    <3>4. (At(pool, o))' = d  BY AtPrime
    <3> HIDE DEF c, d
    <3>5. /\ d.watchers = IF (IsHere(o))' /\ d.watching THEN 1 ELSE 0
          /\ d.run = "live" => (IsHere(o))' /\ d.watching
          /\ d.active => d.run = "live" /\ o[1] = current'
          /\ ((IsHere(o))' /\ d.run = "disposed") => \E x \in Registrars : (Disposes(x, o))'
      BY <1>9, <3>1, <3>2, <3>3
    <3> QED  BY <3>4, <3>5 DEF ContextHolds
  <2>2. CASE o \notin Within(pool)
    <3>1. (At(pool, o))' = Fresh  BY <1>6, <2>2, AtPrime
    <3> QED  BY <3>1, FreshContext DEF ContextHolds
  <2> QED  BY <2>1, <2>2
<1>11. LoadsHold'
  <2> SUFFICES ASSUME NEW g \in Callers, NEW o \in loading'[g]
      PROVE  /\ (IsHere(o))' /\ ~At(pool', o).watching
             /\ \A h \in Callers \ {g} : o \notin loading'[h]
    BY AtPrime DEF LoadsHold
  <2>1. CASE o \in loading[g]
    <3>1. o \in Within(pool)  BY <1>4, <2>1
    <3>2. IsHere(o) /\ ~At(pool, o).watching /\ \A h \in Callers \ {g} : o \notin loading[h]
      BY <1>1, <2>1 DEF LoadsHold
    <3>3. g # f => o \notin {<<p, ContextsWith(ids)[p]>> : p \in some}  BY <1>8, <2>1
    <3> QED  BY <1>2, <1>3, <1>5, <3>1, <3>2, <3>3 DEF Suits
  <2>2. CASE o \notin loading[g]
    <3>1. g = f /\ o \in {<<p, ContextsWith(ids)[p]>> : p \in some}  BY <1>5, <2>2
    <3> QED  BY <1>5, <1>8, <3>1
  <2> QED  BY <2>1, <2>2
<1>12. ASSUME NEW x \in Registrars  PROVE (DisposalHolds(x))'
  <2> PICK o : o = reg[x].target  OBVIOUS
  <2> SUFFICES ASSUME reg'[x].pc = "dispose"
      PROVE  /\ (IsHere(reg[x].target))' /\ (At(pool, reg[x].target).run)' # "live" /\ (reg[x].target)'[1] # current'
             /\ (reg[x].target)' # switch'.target
             /\ \A g \in Callers : (reg[x].target)' \notin loading'[g]
             /\ \A y \in Registrars \ {x} : (~Disposes(y, reg[x].target))'
    BY DEF DisposalHolds
  <2>1. reg[x].pc = "dispose" /\ (reg[x].target)' = o /\ x # f  BY <1>2
  <2>2. o \in Within(pool)  BY <1>4, <2>1
  <2>3. /\ IsHere(o) /\ At(pool, o).run # "live" /\ o[1] # current /\ o # switch.target
        /\ \A g \in Callers : o \notin loading[g]
        /\ \A y \in Registrars \ {x} : ~Disposes(y, o)
    BY <1>1, <2>1 DEF DisposalHolds
  <2>4. Disposes(x, o)  BY <2>1 DEF Disposes
  <2>5. o[1] \in Ids /\ o[2] # 0 /\ o = <<o[1], o[2]>>  BY <1>3, <2>2, WithinIs DEF Indexed
  <2>6. \A p \in ids : o # <<p, ContextsWith(ids)[p]>>  BY <1>7, <2>2, <2>4
  <2>7. o # switch'.target  BY <2>3, <2>5, <2>6 DEF NoContext, None
  <2>8. \A g \in Callers : o \notin loading'[g]  BY <1>5, <1>8, <2>3, <2>4
  <2>9. o[1] \notin ids
    BY <1>2, <2>3, <2>6, <2>5, <1>3 DEF ContextsWith, IsHere, Here, None
  <2>10. At(pool', o).run # "live"  BY <1>2, <2>2, <2>3, <2>9 DEF Suits
  <2>11. o[1] # current'  BY <1>2, <2>3, <2>5, CatalogAssumptions DEF Ids, GlobalView
  <2>12. (IsHere(o))'  BY <1>3, <2>2, <2>3
  <2>13. (IsHere(reg[x].target))' <=> o = <<o[1], contexts'[o[1]]>>  BY <2>1 DEF IsHere, Here
  <2>14. (At(pool, reg[x].target))' = At(pool', o)  BY <2>1 DEF At
  <2>15. \A y \in Registrars \ {x} : (~Disposes(y, reg[x].target))'
    <3> SUFFICES ASSUME NEW y \in Registrars \ {x}  PROVE ~(reg'[y].pc = "dispose" /\ reg'[y].target = o)
      BY <2>1 DEF Disposes
    <3> QED  BY <1>2, <2>3 DEF Disposes
  <2> QED  BY <2>1, <2>7, <2>8, <2>10, <2>11, <2>12, <2>13, <2>14, <2>15, IsHerePrime
<1> QED  BY <1>10, <1>11, <1>12, ObjectsPrime

\* What the tables are after it.
LEMMA TakeShape ==
  ASSUME RuntimeShape, NEW f, NEW ids, NEW some, TakesTable(f, ids, some)
  PROVE  /\ Indexed' /\ Objects \subseteq Objects' /\ loading' \in [Callers -> SUBSET Objects']
         /\ \A g \in Callers \ {f} : loading'[g] = loading[g]
         /\ loading'[f] = loading[f] \cup {<<p, ContextsWith(ids)[p]>> : p \in some}
<1>1. /\ pool' \in Pools /\ contexts' = ContextsWith(ids) /\ Within(pool) \subseteq Within(pool')
      /\ \A p \in ids : <<p, ContextsWith(ids)[p]>> \in Within(pool')
      /\ ContextsWith(ids) \in [Ids -> Nat] /\ \A p \in Ids : ContextsWith(ids)[p] <= Len(pool'[p])
  BY DEF TakesTable, Made
<1>2. f \in Callers /\ some \subseteq ids  BY DEF TakesTable, Unwatched
<1>3. loading \in [Callers -> SUBSET Within(pool)]  BY ObjectsWithin DEF RuntimeShape
<1>4. loading' = [loading EXCEPT ![f] = loading[f] \cup {<<p, ContextsWith(ids)[p]>> : p \in some}]
  BY DEF TakesTable
<1>5. {<<p, ContextsWith(ids)[p]>> : p \in some} \subseteq Within(pool')  BY <1>1, <1>2
<1>6. Indexed'  BY <1>1 DEF Indexed, Pools
<1>7. loading' \in [Callers -> SUBSET Within(pool')]  BY <1>1, <1>2, <1>3, <1>4, <1>5
<1> QED  BY <1>1, <1>2, <1>3, <1>4, <1>6, <1>7, ObjectsWithin, ObjectsPrime

LEMMA TakeTarget ==
  ASSUME RuntimeIInv, Undisturbed, NEW f, NEW ids, NEW some, Takes(f, ids, some),
         switch' = switch, f # "switch"
  PROVE  TargetHolds'
<1> SUFFICES ASSUME Targets
    PROVE /\ (IsHere(switch.target))'
          /\ switch.target \in loading'["switch"] \/ At(pool', switch.target).watching
          /\ loading'["switch"] \subseteq {switch.target}
          /\ switch.pc = "commit" => At(pool', switch.target).run = "live"
  BY DEF TargetHolds, Targets, At
<1>1. RuntimeShape /\ TakesTable(f, ids, some) /\ \A q \in Within(pool) : Suits(q, ids)
  BY DEF RuntimeIInv, Takes
<1>2. switch.target \in Within(pool)  BY <1>1, ObjectsWithin DEF RuntimeShape, SwitchShape
<1>3. loading'["switch"] = loading["switch"]  BY <1>1, TakeShape DEF Callers
<1>4. (IsHere(switch.target))' <=> IsHere(switch.target)
  <2> PICK o : o = switch.target  OBVIOUS
  <2>1. (IsHere(o))' <=> IsHere(o)  BY <1>1, <1>2, TakenHere DEF TakesTable
  <2> QED  BY <2>1 DEF IsHere, Here
<1>5. /\ IsHere(switch.target)
      /\ switch.target \in loading["switch"] \/ At(pool, switch.target).watching
      /\ loading["switch"] \subseteq {switch.target}
      /\ switch.pc = "commit" => At(pool, switch.target).run = "live"
  BY DEF RuntimeIInv, TargetHolds
<1> QED  BY <1>1, <1>2, <1>3, <1>4, <1>5 DEF Suits

LEMMA TakeSelected ==
  ASSUME RuntimeIInv, Undisturbed, NEW f, NEW ids, NEW some, Takes(f, ids, some),
         CatalogIInv, life' # "stopped" => life # "stopped"
  PROVE  SelectedHolds'
<1> SUFFICES ASSUME life' # "stopped", ~Global'
    PROVE /\ contexts'[current'] # None
          /\ At(pool', <<current', contexts'[current']>>).run = "live"
          /\ At(pool', <<current', contexts'[current']>>).active
  BY DEF SelectedHolds, At, Here
<1>1. RuntimeShape /\ TakesTable(f, ids, some) /\ \A q \in Within(pool) : Suits(q, ids)
  BY DEF RuntimeIInv, Takes
<1>2. current' = current /\ ~Global  BY DEF Global, Takes
<1>3. current \in Ids  BY <1>1, <1>2 DEF RuntimeShape, Global, Known, CatalogIInv, CatalogTypeOK
<1>4. contexts[current] # None /\ At(pool, Here(current)).run = "live" /\ At(pool, Here(current)).active
  BY <1>2 DEF RuntimeIInv, SelectedHolds
<1>5. contexts'[current] = contexts[current]  BY <1>1, <1>3, <1>4, TakenHere DEF TakesTable
<1>6. Here(current) \in Within(pool)  BY <1>1, <1>3, <1>4, ShapeIndexed, HereWithin
<1> QED  BY <1>1, <1>2, <1>4, <1>5, <1>6 DEF Suits, Here

-----------------------------------------------------------------------------
(* The refresh of the global view *)


\* A refresh that takes what it may take.
LEMMA JobTakes ==
  ASSUME ProjectsIInv, Known' = Known, NEW ids, NEW some, TakesTable("job", ids, some),
         Undisturbed' => Undisturbed /\ Takes("job", ids, some),
         job' \in [pc : {"off", "ensure", "view", "ending", "again"}, forced : BOOLEAN],
         loading'["job"] # {} => job'.pc = "ensure",
         force' \in BOOLEAN, timer' \in BOOLEAN, owed' \subseteq Known, life' = life,
         current' \in {current, GlobalView}, torn' \subseteq {"mutation", "context"},
         reg' = reg, writer' = writer, queue' \in Seq(Known \cup {GlobalView}),
         \/ switch' = switch
         \/ loading["switch"] = {} /\ switch' \in {IdleSwitch, [IdleSwitch EXCEPT !.pc = "refresh"]},
         (Global' /\ life = "up") => timer' \/ job'.pc \notin {"off", "again"}
  PROVE  RuntimeIInv'
<1>1. RuntimeShape /\ CatalogIInv  BY DEF ProjectsIInv, RuntimeIInv
<1>2. /\ Indexed' /\ Objects \subseteq Objects' /\ loading' \in [Callers -> SUBSET Objects']
      /\ \A g \in Callers \ {"job"} : loading'[g] = loading[g]
  BY <1>1, TakeShape
<1>3. "switch" \in Callers /\ "job" \in Callers /\ Registrars \subseteq Callers \ {"job"}
      /\ "job" \notin Registrars
  BY CallerNames DEF Callers
<1>4. loading'["switch"] = loading["switch"] /\ \A x \in Registrars : loading'[x] = loading[x]
  BY <1>2, <1>3
<1>5. \/ switch' = switch
      \/ /\ switch'.pc \in {"off", "refresh"} /\ loading["switch"] = {}
         /\ switch' = [pc |-> switch'.pc, to |-> None, target |-> NoContext]
  BY DEF IdleSwitch
<1>6. SwitchShape'
  <2>1. CASE switch' = switch  BY <1>1, <1>2, <2>1 DEF RuntimeShape, SwitchShape, Targets
  <2>2. CASE /\ switch'.pc \in {"off", "refresh"}
             /\ switch' = [pc |-> switch'.pc, to |-> None, target |-> NoContext]
    BY <2>2 DEF SwitchShape, SwitchPcs, Targets, Refs, NoContext, None
  <2> QED  BY <1>5, <2>1, <2>2
<1>7. \A x \in Registrars : RegShape(x)'
  BY <1>1, <1>2, <1>4 DEF RuntimeShape, RegShape
<1>8. loading'["switch"] # {} => switch'.pc \in {"ensure", "load"}
  BY <1>1, <1>4, <1>5 DEF RuntimeShape
<1>9. current' \in Known' \cup {GlobalView}  BY <1>1 DEF RuntimeShape
<1>10. RuntimeShape'
  BY <1>1, <1>2, <1>6, <1>7, <1>8, <1>9 DEF RuntimeShape, Indexed, Pools
<1>11. TimerHolds'  BY DEF TimerHolds
<1>12. ASSUME Undisturbed'
       PROVE  /\ (\A o \in Objects : ContextHolds(o))' /\ LoadsHold'
              /\ (\A x \in Registrars : DisposalHolds(x))' /\ TargetHolds' /\ SelectedHolds'
  <2>1. RuntimeIInv /\ Undisturbed /\ Takes("job", ids, some)  BY <1>12 DEF ProjectsIInv
  <2>2. switch'.target \in {switch.target, NoContext}  BY <1>5
  <2>3. (\A o \in Objects : ContextHolds(o))' /\ LoadsHold' /\ (\A x \in Registrars : DisposalHolds(x))'
    BY <2>1, <2>2, TakeKeeps
  <2>4. TargetHolds'
    <3>1. CASE switch' = switch  BY <2>1, <3>1, TakeTarget
    <3>2. CASE switch'.pc \in {"off", "refresh"}  BY <3>2 DEF TargetHolds, Targets
    <3> QED  BY <1>5, <3>1, <3>2
  <2>5. SelectedHolds'  BY <1>1, <2>1, TakeSelected
  <2> QED  BY <2>3, <2>4, <2>5
<1> QED  BY <1>10, <1>11, <1>12 DEF RuntimeIInv

\* What a pass, or one who tells it to go on, takes from the table pl.
SetAside(pl) ==
  /\ pl \in Pools /\ \A p \in Ids : Len(pl[p]) = Len(pool[p])
  /\ Undisturbed => \A q \in Within(pool) :
       LET c == At(pool, q)
           d == At(pl, q)
       IN d.watching = c.watching /\ d.watchers = c.watchers /\ d.run = c.run
          /\ (d.active <=> c.active /\ current' = current)

LEMMA PassTakes ==
  ASSUME ProjectsIInv, NEW pl, SetAside(pl), NEW forced \in BOOLEAN, BeginPass(pl, forced),
         reg' = reg, loading["job"] = {}, current' \in {current, GlobalView}
  PROVE  /\ TakesTable("job", Known, Unwatched(Known))
         /\ Undisturbed' => Undisturbed /\ Takes("job", Known, Unwatched(Known))
         /\ job' = [pc |-> "ensure", forced |-> forced] /\ force' = FALSE
         /\ torn' \subseteq {"mutation", "context"}
<1>1. RuntimeShape /\ Indexed /\ Known \in SUBSET Ids /\ "job" \in Callers
  BY ShapeIndexed DEF ProjectsIInv, RuntimeIInv, CatalogIInv, CatalogTypeOK, Known, Callers
<1>2. /\ Made(pool', Known)
      /\ \A q \in Within(pool) : At(pool', q) =
           IF q[1] \in Known /\ IsHere(q) /\ At(pool, q).watching THEN Begun(At(pl, q)) ELSE At(pl, q)
  BY <1>1, Ensured DEF SetAside, BeginPass
<1>3. TakesTable("job", Known, Unwatched(Known))
  BY <1>1, <1>2 DEF TakesTable, BeginPass, Unwatched, RuntimeShape
<1>4. ASSUME Undisturbed'  PROVE Undisturbed /\ Takes("job", Known, Unwatched(Known))
  <2>1. Undisturbed /\ ~Taken("job", Known)  BY <1>4 DEF BeginPass, Overlaps, Undisturbed
  <2>2. ASSUME NEW q \in Within(pool)  PROVE Suits(q, Known)
    <3>1. Within(pl) = Within(pool) /\ pl \in Pools  BY DEF SetAside, Within
    <3>2. At(pl, q) \in Contexts /\ At(pool, q) \in Contexts  BY <1>1, <3>1, WithinIs DEF Indexed
    <3>3. LET c == At(pool, q)
              d == At(pl, q)
          IN d.watching = c.watching /\ d.watchers = c.watchers /\ d.run = c.run
             /\ (d.active <=> c.active /\ current' = current)
      BY <2>1 DEF SetAside
    <3>4. CASE q[1] \in Known /\ IsHere(q) /\ At(pool, q).watching
      <4>1. At(pool', q) = Begun(At(pl, q))  BY <1>2, <3>4
      <4> QED  BY <3>2, <3>3, <3>4, <4>1, BegunIs DEF Suits
    <3>5. CASE ~(q[1] \in Known /\ IsHere(q) /\ At(pool, q).watching)
      <4>1. At(pool', q) = At(pl, q)  BY <1>2, <3>5
      <4> QED  BY <3>3, <4>1 DEF Suits
    <3> QED  BY <3>4, <3>5
  <2>3. \A x \in Registrars : x # "job"  BY CallerNames
  <2> QED  BY <1>3, <2>1, <2>2, <2>3 DEF Takes
<1> QED  BY <1>1, <1>3, <1>4 DEF BeginPass, Overlaps, RuntimeShape

\* Disposals and their targets stay.
SameDisposals ==
  \A x \in Registrars : /\ reg'[x].pc = "dispose" <=> reg[x].pc = "dispose"
                        /\ reg[x].pc = "dispose" => reg'[x].target = reg[x].target

LEMMA ToldTakes ==
  ASSUME ProjectsIInv, NEW pl, SetAside(pl), pool' = pl, SameDisposals,
         current' \in {current, GlobalView}, contexts' = contexts, loading' = loading, torn' = torn
  PROVE  /\ TakesTable("job", {}, {})
         /\ Undisturbed' => Undisturbed /\ Takes("job", {}, {})
<1>1. RuntimeShape /\ Indexed /\ "job" \in Callers
  BY ShapeIndexed DEF ProjectsIInv, RuntimeIInv, Callers
<1>2. ContextsWith({}) = contexts  BY <1>1 DEF ContextsWith, Indexed
<1>3. Within(pl) = Within(pool) /\ pl \in Pools /\ \A p \in Ids : Len(pl[p]) = Len(pool[p])
  BY DEF SetAside, Within
<1>4. Made(pool', {})  BY <1>1, <1>2, <1>3 DEF Made, Indexed
<1>5. TakesTable("job", {}, {})
  <2>1. loading = [loading EXCEPT !["job"] = @ \cup {<<p, ContextsWith({})[p]>> : p \in {}}]
    BY <1>1 DEF RuntimeShape
  <2> QED  BY <1>1, <1>2, <1>4, <2>1 DEF TakesTable
<1>6. ASSUME Undisturbed'  PROVE Undisturbed /\ Takes("job", {}, {})
  <2>1. Undisturbed  BY <1>6 DEF Undisturbed
  <2>2. \A q \in Within(pool) : Suits(q, {})  BY <2>1 DEF SetAside, Suits
  <2>3. \A x \in Registrars : x # "job"  BY CallerNames
  <2> QED  BY <1>5, <2>1, <2>2, <2>3 DEF Takes, Taken, SameDisposals
<1> QED  BY <1>5, <1>6

\* refreshGlobal, by whoever asks for it.
LEMMA RefreshKeeps ==
  ASSUME ProjectsIInv, NEW pl, SetAside(pl), NEW forced \in BOOLEAN, RefreshGlobal(pl, forced),
         Known' = Known, timer' \in BOOLEAN, owed' \subseteq Known, life' = life,
         current' \in {current, GlobalView}, reg' = reg, writer' = writer,
         queue' \in Seq(Known \cup {GlobalView}),
         switch' = switch \/ (loading["switch"] = {} /\ switch' = [IdleSwitch EXCEPT !.pc = "refresh"])
  PROVE  RuntimeIInv'
<1>1. RuntimeShape  BY DEF ProjectsIInv, RuntimeIInv
<1>2. CASE Running
  <2>1. /\ force' = Joined(forced) /\ pool' = pl /\ job' = job
        /\ contexts' = contexts /\ loading' = loading /\ torn' = torn
    BY <1>2 DEF RefreshGlobal
  <2>2. TakesTable("job", {}, {}) /\ (Undisturbed' => Undisturbed /\ Takes("job", {}, {}))
    <3>1. SameDisposals  BY DEF SameDisposals
    <3> QED  BY <2>1, <3>1, ToldTakes
  <2>3. /\ job' \in [pc : {"off", "ensure", "view", "ending", "again"}, forced : BOOLEAN]
        /\ loading'["job"] # {} => job'.pc = "ensure"
        /\ torn' \subseteq {"mutation", "context"} /\ job'.pc \notin {"off", "again"}
        /\ force' \in BOOLEAN
    BY <1>1, <1>2, <2>1 DEF RuntimeShape, Running, Joined
  <2> QED  BY <2>2, <2>3, JobTakes
<1>3. CASE ~Running
  <2>1. BeginPass(pl, force \/ forced)  BY <1>3 DEF RefreshGlobal
  <2>2. loading["job"] = {} /\ (force \/ forced) \in BOOLEAN  BY <1>1, <1>3 DEF RuntimeShape, Running
  <2>3. /\ TakesTable("job", Known, Unwatched(Known))
        /\ Undisturbed' => Undisturbed /\ Takes("job", Known, Unwatched(Known))
        /\ job' = [pc |-> "ensure", forced |-> (force \/ forced)] /\ force' = FALSE
        /\ torn' \subseteq {"mutation", "context"}
    BY <2>1, <2>2, PassTakes
  <2> QED  BY <2>2, <2>3, JobTakes
<1> QED  BY <1>2, <1>3

\* A table that nothing was done to.
LEMMA AsideItself ==
  ASSUME ProjectsIInv, current' = current
  PROVE  SetAside(pool)
  BY ShapeIndexed DEF ProjectsIInv, RuntimeIInv, SetAside, Indexed

\* The requests of the global view, and the passes they begin.
LEMMA ClientRefreshesKeeps == ProjectsIInv /\ ClientRefreshes => RuntimeIInv'
<1> SUFFICES ASSUME ProjectsIInv, ClientRefreshes PROVE RuntimeIInv'  OBVIOUS
<1>1. /\ RefreshGlobal(pool, TRUE) /\ owed' = owed \cup Known /\ projects' = projects /\ writer' = writer
      /\ current' = current /\ switch' = switch /\ queue' = queue /\ timer' = timer /\ reg' = reg
      /\ life' = life
  BY DEF ClientRefreshes, catalogVars, tables
<1>2. /\ Known' = Known /\ timer \in BOOLEAN /\ owed \subseteq Known
      /\ queue \in Seq(Known \cup {GlobalView})
  BY <1>1 DEF ProjectsIInv, RuntimeIInv, RuntimeShape, Known
<1>3. SetAside(pool)  BY <1>1, AsideItself
<1> QED  BY <1>1, <1>2, <1>3, RefreshKeeps

LEMMA TimerFiresKeeps == ProjectsIInv /\ TimerFires => RuntimeIInv'
<1> SUFFICES ASSUME ProjectsIInv, TimerFires PROVE RuntimeIInv'  OBVIOUS
<1>1. /\ RefreshGlobal(pool, FALSE) /\ owed' = owed /\ projects' = projects /\ writer' = writer
      /\ current' = current /\ switch' = switch /\ queue' = queue /\ timer' = FALSE /\ reg' = reg
      /\ life' = life
  BY DEF TimerFires, catalogVars, tables
<1>2. /\ Known' = Known /\ owed \subseteq Known /\ queue \in Seq(Known \cup {GlobalView})
  BY <1>1 DEF ProjectsIInv, RuntimeIInv, RuntimeShape, Known
<1>3. SetAside(pool)  BY <1>1, AsideItself
<1> QED  BY <1>1, <1>2, <1>3, RefreshKeeps

\* The job goes on: another pass, or it ends.
LEMMA JobGoesOn ==
  ASSUME ProjectsIInv, UNCHANGED <<catalogVars, current, switch, queue, timer, reg, life, owed>>,
         job.pc \in {"view", "ending", "again"},
         \/ BeginPass(pool, TRUE)
         \/ /\ job' \in [pc : {"off", "ensure", "view", "ending", "again"}, forced : BOOLEAN]
            /\ (Global /\ life = "up") => timer \/ job'.pc \notin {"off", "again"}
            /\ UNCHANGED <<force, pool, contexts, loading, torn>>
  PROVE  RuntimeIInv'
<1>1. RuntimeShape  BY DEF ProjectsIInv, RuntimeIInv
<1>2. /\ projects' = projects /\ writer' = writer /\ current' = current /\ switch' = switch
      /\ queue' = queue /\ timer' = timer /\ reg' = reg /\ life' = life /\ owed' = owed
  BY DEF catalogVars, tables
<1>3. /\ Known' = Known /\ owed \subseteq Known /\ queue \in Seq(Known \cup {GlobalView})
      /\ timer \in BOOLEAN /\ force \in BOOLEAN /\ loading["job"] = {}
      /\ torn \subseteq {"mutation", "context"}
  BY <1>1, <1>2 DEF RuntimeShape, Known
<1>4. SetAside(pool)  BY <1>2, AsideItself
<1>5. CASE BeginPass(pool, TRUE)
  <2>1. /\ TakesTable("job", Known, Unwatched(Known))
        /\ Undisturbed' => Undisturbed /\ Takes("job", Known, Unwatched(Known))
        /\ job' = [pc |-> "ensure", forced |-> TRUE] /\ force' = FALSE
        /\ torn' \subseteq {"mutation", "context"}
    BY <1>2, <1>3, <1>4, <1>5, PassTakes
  <2> QED  BY <1>2, <1>3, <2>1, JobTakes
<1>6. CASE /\ job' \in [pc : {"off", "ensure", "view", "ending", "again"}, forced : BOOLEAN]
           /\ (Global /\ life = "up") => timer \/ job'.pc \notin {"off", "again"}
           /\ UNCHANGED <<force, pool, contexts, loading, torn>>
  <2>1. pool' = pool /\ contexts' = contexts /\ loading' = loading /\ torn' = torn /\ force' = force
    BY <1>6
  <2>2. TakesTable("job", {}, {}) /\ (Undisturbed' => Undisturbed /\ Takes("job", {}, {}))
    <3>1. SameDisposals  BY <1>2 DEF SameDisposals
    <3> QED  BY <1>2, <1>4, <2>1, <3>1, ToldTakes
  <2>3. (Global' /\ life = "up") => timer' \/ job'.pc \notin {"off", "again"}
    BY <1>2, <1>6 DEF Global
  <2> QED  BY <1>2, <1>3, <1>6, <2>1, <2>2, <2>3, JobTakes
<1> QED  BY <1>5, <1>6

LEMMA JobViewedKeeps == ProjectsIInv /\ JobViewed => RuntimeIInv'
<1> SUFFICES ASSUME ProjectsIInv, JobViewed PROVE RuntimeIInv'  OBVIOUS
<1>1. /\ job.pc = "view" /\ UNCHANGED <<catalogVars, current, switch, queue, timer, reg, life, owed>>
      /\ \/ BeginPass(pool, TRUE)
         \/ job' = [job EXCEPT !.pc = "ending"] /\ UNCHANGED <<force, pool, contexts, loading, torn>>
  BY DEF JobViewed
<1>2. job \in [pc : {"off", "ensure", "view", "ending", "again"}, forced : BOOLEAN]
  BY DEF ProjectsIInv, RuntimeIInv, RuntimeShape
<1> QED  BY <1>1, <1>2, JobGoesOn

LEMMA JobAgainKeeps == ProjectsIInv /\ JobAgain => RuntimeIInv'
<1> SUFFICES ASSUME ProjectsIInv, JobAgain PROVE RuntimeIInv'  OBVIOUS
<1>1. /\ job.pc = "again" /\ UNCHANGED <<catalogVars, current, switch, queue, timer, reg, life, owed>>
      /\ \/ BeginPass(pool, TRUE)
         \/ job' = IdleJob /\ UNCHANGED <<force, pool, contexts, loading, torn>>
  BY DEF JobAgain
<1>2. (Global /\ life = "up") => timer  BY <1>1 DEF ProjectsIInv, RuntimeIInv, TimerHolds
<1>3. IdleJob \in [pc : {"off", "ensure", "view", "ending", "again"}, forced : BOOLEAN]  BY DEF IdleJob
<1> QED  BY <1>1, <1>2, <1>3, JobGoesOn

-----------------------------------------------------------------------------
(* A context is watched *)

\* One context of the table changes.
LEMMA PutShape ==
  ASSUME RuntimeShape, NEW o \in Objects, NEW v \in Contexts,
         pool' = [pool EXCEPT ![o[1]][o[2]] = v], contexts' = contexts
  PROVE  /\ Indexed' /\ Objects' = Objects /\ At(pool', o) = v
         /\ \A q \in Objects : q # o => At(pool', q) = At(pool, q)
         /\ \A q \in Objects : At(pool, q) \in Contexts
         /\ \A q : (IsHere(q))' <=> IsHere(q)
<1>1. Indexed /\ Objects = Within(pool) /\ Objects' = Within(pool')
  BY ShapeIndexed, ObjectsWithin, ObjectsPrime
<1>2. /\ pool' \in Pools /\ \A p \in Ids : Len(pool'[p]) = Len(pool[p])
      /\ Within(pool') = Within(pool)
      /\ At(pool', o) = v /\ \A q \in Within(pool) : q # o => At(pool', q) = At(pool, q)
  <2>1. pool \in Pools /\ o \in Within(pool)  BY <1>1 DEF Indexed
  <2>2. pool' = Put(pool, o, v)  BY DEF Put
  <2>3. /\ Put(pool, o, v) \in Pools /\ \A p \in Ids : Len(Put(pool, o, v)[p]) = Len(pool[p])
        /\ Within(Put(pool, o, v)) = Within(pool) /\ At(Put(pool, o, v), o) = v
        /\ \A q \in Within(pool) : q # o => At(Put(pool, o, v), q) = At(pool, q)
    BY ONLY <2>1, v \in Contexts, PoolPut
  <2> QED  BY ONLY <2>2, <2>3
<1>3. \A q \in Within(pool) : At(pool, q) \in Contexts  BY <1>1, WithinIs DEF Indexed
<1>4. \A q : (IsHere(q))' <=> IsHere(q)  BY DEF IsHere, Here
<1>5. Indexed'  BY <1>1, <1>2 DEF Indexed, Pools
<1> QED  BY <1>1, <1>2, <1>3, <1>4, <1>5

\* The workflow that f has read is watched, and maybe the runtime begins.
Loads(f, o) ==
  /\ f \in Callers /\ o \in loading[f] /\ contexts' = contexts
  /\ \E v \in {Watched(At(pool, o)), Begun(Watched(At(pool, o)))} :
       pool' = [pool EXCEPT ![o[1]][o[2]] = v]
  /\ loading' = [loading EXCEPT ![f] = @ \ {o}]

LEMMA LoadShape ==
  ASSUME RuntimeShape, NEW f, NEW o, Loads(f, o)
  PROVE  /\ o \in Objects /\ Indexed' /\ Objects' = Objects
         /\ \A q \in Objects : q # o => At(pool', q) = At(pool, q)
         /\ \A q : (IsHere(q))' <=> IsHere(q)
         /\ loading' \in [Callers -> SUBSET Objects']
         /\ \A g \in Callers : loading'[g] = IF g = f THEN loading[f] \ {o} ELSE loading[g]
         /\ LET c == At(pool, o)
                d == At(pool', o)
            IN /\ c \in Contexts /\ d.watching /\ d.watchers = c.watchers + 1 /\ d.active = c.active
               /\ d.run = c.run \/ (c.run = "none" /\ d.run = "live")
<1>1. o \in Objects /\ f \in Callers /\ loading \in [Callers -> SUBSET Objects]
  BY DEF Loads, RuntimeShape
<1>2. At(pool, o) \in Contexts  BY <1>1, ObjectsWithin, ShapeIndexed, WithinIs DEF Indexed
<1>3. PICK v \in {Watched(At(pool, o)), Begun(Watched(At(pool, o)))} :
        pool' = [pool EXCEPT ![o[1]][o[2]] = v]
  BY DEF Loads
<1>4. /\ v \in Contexts /\ v.watching = TRUE /\ v.watchers = At(pool, o).watchers + 1
      /\ v.active = At(pool, o).active
      /\ v.run = At(pool, o).run \/ (At(pool, o).run = "none" /\ v.run = "live")
  <2> DEFINE w == Watched(At(pool, o))
  <2>1. /\ w \in Contexts /\ w.watching = TRUE /\ w.watchers = At(pool, o).watchers + 1
        /\ w.active = At(pool, o).active /\ w.run = At(pool, o).run
    BY <1>2, WatchedIs
  <2>2. v = w \/ v = Begun(w)  BY <1>3
  <2> HIDE DEF w
  <2> QED  BY <2>1, <2>2, BegunIs
<1>5. /\ Indexed' /\ Objects' = Objects /\ At(pool', o) = v
      /\ \A q \in Objects : q # o => At(pool', q) = At(pool, q)
      /\ \A q : (IsHere(q))' <=> IsHere(q)
  BY <1>1, <1>3, <1>4, PutShape DEF Loads
<1>6. /\ loading' \in [Callers -> SUBSET Objects]
      /\ \A g \in Callers : loading'[g] = IF g = f THEN loading[f] \ {o} ELSE loading[g]
  BY <1>1 DEF Loads
<1> QED  BY <1>1, <1>2, <1>4, <1>5, <1>6

LEMMA LoadKeeps ==
  ASSUME RuntimeIInv, Undisturbed, NEW f, NEW o, Loads(f, o), SameDisposals,
         CatalogIInv, current' = current, switch' = switch, life' = life
  PROVE  /\ (\A q \in Objects : ContextHolds(q))' /\ LoadsHold'
         /\ (\A x \in Registrars : DisposalHolds(x))' /\ TargetHolds' /\ SelectedHolds'
<1>1. /\ RuntimeShape /\ LoadsHold /\ (\A q \in Objects : ContextHolds(q)) /\ TargetHolds
      /\ (\A x \in Registrars : DisposalHolds(x)) /\ SelectedHolds
  BY DEF RuntimeIInv
<1>2. /\ o \in Objects /\ Indexed' /\ Objects' = Objects
      /\ \A q \in Objects : q # o => At(pool', q) = At(pool, q)
      /\ \A q : (IsHere(q))' <=> IsHere(q)
      /\ \A g \in Callers : loading'[g] = IF g = f THEN loading[f] \ {o} ELSE loading[g]
      /\ f \in Callers /\ o \in loading[f] /\ contexts' = contexts
  <2>1. f \in Callers /\ o \in loading[f] /\ contexts' = contexts  BY DEF Loads
  <2> QED  BY <1>1, <2>1, LoadShape
<1> DEFINE c == At(pool, o)
           d == At(pool', o)
<1>3. /\ c \in Contexts /\ d.watching /\ d.watchers = c.watchers + 1 /\ d.active = c.active
      /\ d.run = c.run \/ (c.run = "none" /\ d.run = "live")
  BY <1>1, LoadShape
<1>4. \A x \in Registrars : ~Disposes(x, o)
  BY <1>1, <1>2 DEF DisposalHolds, Disposes
<1>5. IsHere(o) /\ ~c.watching  BY <1>1, <1>2 DEF LoadsHold
<1>6. c.watchers = 0 /\ c.run = "none" /\ ~c.active
  BY <1>1, <1>2, <1>3, <1>4, <1>5 DEF ContextHolds, Contexts
<1> HIDE DEF c, d
<1>7. \A x \in Registrars : \A q : (Disposes(x, q))' <=> Disposes(x, q)
  BY DEF SameDisposals, Disposes
<1>8. ASSUME NEW q \in Objects'  PROVE (ContextHolds(q))'
  <2>1. CASE q = o
    <3>1. (At(pool, q))' = d  BY <2>1, AtPrime DEF d
    <3>2. (IsHere(q))'  BY <1>2, <1>5, <2>1
    <3> QED  BY <1>3, <1>6, <3>1, <3>2 DEF ContextHolds
  <2>2. CASE q # o
    <3>1. (At(pool, q))' = At(pool, q)  BY <1>2, <2>2, AtPrime
    <3> QED  BY <1>1, <1>2, <1>7, <3>1 DEF ContextHolds
  <2> QED  BY <2>1, <2>2
<1>9. LoadsHold'
  <2> SUFFICES ASSUME NEW g \in Callers, NEW q \in loading'[g]
      PROVE  /\ (IsHere(q))' /\ ~At(pool', q).watching
             /\ \A h \in Callers \ {g} : q \notin loading'[h]
    BY AtPrime DEF LoadsHold
  <2>1. q \in loading[g] /\ q \in Objects  BY <1>1, <1>2 DEF RuntimeShape
  <2>2. q # o
    <3>1. CASE g = f  BY <1>2, <3>1
    <3>2. CASE g # f  BY <1>1, <1>2, <2>1, <3>2 DEF LoadsHold
    <3> QED  BY <3>1, <3>2
  <2> QED  BY <1>1, <1>2, <2>1, <2>2 DEF LoadsHold
<1>10. ASSUME NEW x \in Registrars  PROVE (DisposalHolds(x))'
  <2> PICK q : q = reg[x].target  OBVIOUS
  <2> SUFFICES ASSUME reg'[x].pc = "dispose"
      PROVE  /\ (IsHere(reg[x].target))' /\ (At(pool, reg[x].target).run)' # "live" /\ (reg[x].target)'[1] # current'
             /\ (reg[x].target)' # switch'.target
             /\ \A g \in Callers : (reg[x].target)' \notin loading'[g]
             /\ \A y \in Registrars \ {x} : (~Disposes(y, reg[x].target))'
    BY DEF DisposalHolds
  <2>1. reg[x].pc = "dispose" /\ (reg[x].target)' = q  BY DEF SameDisposals
  <2>2. q \in Objects  BY <1>1, <2>1 DEF RuntimeShape, RegShape
  <2>3. /\ IsHere(q) /\ At(pool, q).run # "live" /\ q[1] # current /\ q # switch.target
        /\ \A g \in Callers : q \notin loading[g]
        /\ \A y \in Registrars \ {x} : ~Disposes(y, q)
    BY <1>1, <2>1 DEF DisposalHolds
  <2>4. q # o  BY <1>2, <2>3
  <2>5. At(pool', q).run # "live" /\ \A g \in Callers : q \notin loading'[g]
    BY <1>2, <2>2, <2>3, <2>4
  <2>6. (IsHere(q))'  BY <1>2, <2>3
  <2>7. (IsHere(reg[x].target))' <=> q = <<q[1], contexts'[q[1]]>>  BY <2>1 DEF IsHere, Here
  <2>8. (At(pool, reg[x].target))' = At(pool', q)  BY <2>1 DEF At
  <2>9. \A y \in Registrars \ {x} : (~Disposes(y, reg[x].target))'
    <3> SUFFICES ASSUME NEW y \in Registrars \ {x}  PROVE ~(reg'[y].pc = "dispose" /\ reg'[y].target = q)
      BY <2>1 DEF Disposes
    <3> QED  BY <2>3 DEF Disposes, SameDisposals
  <2> QED  BY <2>1, <2>3, <2>5, <2>6, <2>7, <2>8, <2>9, IsHerePrime
<1>11. TargetHolds'
  <2> SUFFICES ASSUME Targets
      PROVE /\ (IsHere(switch.target))'
            /\ switch.target \in loading'["switch"] \/ At(pool', switch.target).watching
            /\ loading'["switch"] \subseteq {switch.target}
            /\ switch.pc = "commit" => At(pool', switch.target).run = "live"
    BY DEF TargetHolds, Targets, At
  <2>1. /\ IsHere(switch.target)
        /\ switch.target \in loading["switch"] \/ At(pool, switch.target).watching
        /\ loading["switch"] \subseteq {switch.target}
        /\ switch.pc = "commit" => At(pool, switch.target).run = "live"
    BY <1>1 DEF TargetHolds
  <2>2. switch.target \in Objects  BY <1>1 DEF RuntimeShape, SwitchShape
  <2>3. (IsHere(switch.target))'  BY <2>1 DEF IsHere, Here, Loads
  <2>4. "switch" \in Callers  BY DEF Callers
  <2>5. CASE switch.target = o
    BY <1>2, <1>3, <1>6, <2>1, <2>3, <2>4, <2>5 DEF d, c
  <2>6. CASE switch.target # o
    BY <1>2, <2>1, <2>2, <2>3, <2>4, <2>6
  <2> QED  BY <2>5, <2>6
<1>12. SelectedHolds'
  <2> SUFFICES ASSUME life # "stopped", ~Global
      PROVE /\ contexts[current] # None /\ At(pool', Here(current)).run = "live"
            /\ At(pool', Here(current)).active
    BY <1>2 DEF SelectedHolds, At, Here, Global
  <2>1. /\ contexts[current] # None /\ At(pool, Here(current)).run = "live"
        /\ At(pool, Here(current)).active
    BY <1>1 DEF SelectedHolds
  <2>2. current \in Ids  BY <1>1 DEF RuntimeShape, Global, Known, CatalogIInv, CatalogTypeOK
  <2>3. Here(current) \in Objects  BY <1>1, <2>1, <2>2, ShapeIndexed, HereWithin, ObjectsWithin
  <2> QED  BY <1>2, <1>6, <2>1, <2>3 DEF c
<1> QED  BY <1>8, <1>9, <1>10, <1>11, <1>12

-----------------------------------------------------------------------------
(* Steps that leave the contexts alone *)

LEMMA RestKeeps ==
  ASSUME ProjectsIInv, Undisturbed', SameDisposals, current' = current, torn' = torn,
         pool' = pool, contexts' = contexts, loading' = loading,
         life' # "stopped" => life # "stopped",
         switch'.target \in {switch.target, NoContext}
  PROVE  /\ (\A o \in Objects : ContextHolds(o))' /\ LoadsHold'
         /\ (\A x \in Registrars : DisposalHolds(x))' /\ SelectedHolds'
         /\ switch' = switch => TargetHolds'
<1>1. SetAside(pool)  BY AsideItself
<1>2. RuntimeIInv /\ CatalogIInv /\ Undisturbed /\ Takes("job", {}, {})  BY <1>1, ToldTakes DEF ProjectsIInv
<1>3. (\A o \in Objects : ContextHolds(o))' /\ LoadsHold' /\ (\A x \in Registrars : DisposalHolds(x))'
  BY <1>2, TakeKeeps
<1>4. SelectedHolds'  BY <1>2, TakeSelected
<1>5. switch' = switch => TargetHolds'  BY <1>2, TakeTarget
<1> QED  BY <1>3, <1>4, <1>5

\* What of the shape such a step leaves alone.
LEMMA RestShape ==
  ASSUME RuntimeShape, pool' = pool, contexts' = contexts, projects' = projects
  PROVE  Objects' = Objects /\ Known' = Known
  BY DEF Objects, Known

LEMMA JobEnsuredKeeps == ProjectsIInv /\ JobEnsured => RuntimeIInv'
<1> SUFFICES ASSUME ProjectsIInv, JobEnsured PROVE RuntimeIInv'  OBVIOUS
<1>1. RuntimeShape /\ TimerHolds  BY DEF ProjectsIInv, RuntimeIInv
<1>2. /\ pool' = pool /\ contexts' = contexts /\ loading' = loading /\ torn' = torn /\ reg' = reg
      /\ current' = current /\ life' = life /\ switch' = switch /\ projects' = projects
      /\ writer' = writer /\ queue' = queue /\ force' = force /\ timer' = timer
      /\ job' = [job EXCEPT !.pc = "view"] /\ owed' \subseteq owed /\ loading["job"] = {}
  BY DEF JobEnsured, catalogVars, tables
<1>3. Objects' = Objects /\ Known' = Known  BY <1>1, <1>2, RestShape
<1>4. SwitchShape'  BY <1>1, <1>2, <1>3 DEF RuntimeShape, SwitchShape, Targets
<1>5. \A x \in Registrars : RegShape(x)'  BY <1>1, <1>2, <1>3 DEF RuntimeShape, RegShape
<1>6. RuntimeShape'  BY <1>1, <1>2, <1>3, <1>4, <1>5 DEF RuntimeShape
<1>7. TimerHolds'  BY <1>1, <1>2 DEF RuntimeShape, TimerHolds, Global
<1>8. Undisturbed' => /\ (\A o \in Objects : ContextHolds(o))' /\ LoadsHold'
                      /\ (\A x \in Registrars : DisposalHolds(x))' /\ TargetHolds' /\ SelectedHolds'
  <2>1. SameDisposals  BY <1>2 DEF SameDisposals
  <2> QED  BY <1>2, <2>1, RestKeeps
<1> QED  BY <1>6, <1>7, <1>8 DEF RuntimeIInv

LEMMA JobFinallyKeeps == ProjectsIInv /\ JobFinally => RuntimeIInv'
<1> SUFFICES ASSUME ProjectsIInv, JobFinally PROVE RuntimeIInv'  OBVIOUS
<1>1. RuntimeShape  BY DEF ProjectsIInv, RuntimeIInv
<1>2. /\ pool' = pool /\ contexts' = contexts /\ loading' = loading /\ torn' = torn /\ reg' = reg
      /\ current' = current /\ life' = life /\ switch' = switch /\ projects' = projects
      /\ writer' = writer /\ queue' = queue /\ force' = force /\ timer' = Scheduled
      /\ job.pc = "ending" /\ owed' = owed
      /\ job' = [IdleJob EXCEPT !.pc = IF force /\ Scheduled THEN "again" ELSE "off"]
  BY DEF JobFinally, catalogVars, tables
<1>3. Objects' = Objects /\ Known' = Known  BY <1>1, <1>2, RestShape
<1>4. SwitchShape'  BY <1>1, <1>2, <1>3 DEF RuntimeShape, SwitchShape, Targets
<1>5. \A x \in Registrars : RegShape(x)'  BY <1>1, <1>2, <1>3 DEF RuntimeShape, RegShape
<1>6. /\ job' \in [pc : {"off", "ensure", "view", "ending", "again"}, forced : BOOLEAN]
      /\ timer' \in BOOLEAN /\ loading["job"] = {}
  BY <1>1, <1>2 DEF IdleJob, RuntimeShape, Scheduled
<1>7. RuntimeShape'  BY <1>1, <1>2, <1>3, <1>4, <1>5, <1>6 DEF RuntimeShape
<1>8. TimerHolds'  BY <1>2 DEF TimerHolds, Global, Scheduled
<1>9. Undisturbed' => /\ (\A o \in Objects : ContextHolds(o))' /\ LoadsHold'
                      /\ (\A x \in Registrars : DisposalHolds(x))' /\ TargetHolds' /\ SelectedHolds'
  <2>1. SameDisposals  BY <1>2 DEF SameDisposals
  <2> QED  BY <1>2, <2>1, RestKeeps
<1> QED  BY <1>7, <1>8, <1>9 DEF RuntimeIInv

LEMMA RequestSwitchKeeps == ASSUME NEW to PROVE ProjectsIInv /\ RequestSwitch(to) => RuntimeIInv'
<1> SUFFICES ASSUME ProjectsIInv, RequestSwitch(to) PROVE RuntimeIInv'  OBVIOUS
<1>1. RuntimeShape /\ TimerHolds  BY DEF ProjectsIInv, RuntimeIInv
<1>2. /\ pool' = pool /\ contexts' = contexts /\ loading' = loading /\ torn' = torn /\ reg' = reg
      /\ current' = current /\ life' = life /\ switch' = switch /\ projects' = projects
      /\ writer' = writer /\ force' = force /\ timer' = timer /\ job' = job /\ owed' = owed
      /\ queue' = Append(queue, to) /\ to \in Known \cup {GlobalView}
  BY DEF RequestSwitch, catalogVars, tables
<1>3. Objects' = Objects /\ Known' = Known  BY <1>1, <1>2, RestShape
<1>4. SwitchShape'  BY <1>1, <1>2, <1>3 DEF RuntimeShape, SwitchShape, Targets
<1>5. \A x \in Registrars : RegShape(x)'  BY <1>1, <1>2, <1>3 DEF RuntimeShape, RegShape
<1>6. queue' \in Seq(Known \cup {GlobalView})  BY <1>1, <1>2 DEF RuntimeShape
<1>7. RuntimeShape'  BY <1>1, <1>2, <1>3, <1>4, <1>5, <1>6 DEF RuntimeShape
<1>8. TimerHolds'  BY <1>1, <1>2 DEF TimerHolds, Global
<1>9. Undisturbed' => /\ (\A o \in Objects : ContextHolds(o))' /\ LoadsHold'
                      /\ (\A x \in Registrars : DisposalHolds(x))' /\ TargetHolds' /\ SelectedHolds'
  <2>1. SameDisposals  BY <1>2 DEF SameDisposals
  <2> QED  BY <1>2, <2>1, RestKeeps
<1> QED  BY <1>7, <1>8, <1>9 DEF RuntimeIInv

LEMMA StopBeginsKeeps == ProjectsIInv /\ StopBegins => RuntimeIInv'
<1> SUFFICES ASSUME ProjectsIInv, StopBegins PROVE RuntimeIInv'  OBVIOUS
<1>1. RuntimeShape  BY DEF ProjectsIInv, RuntimeIInv
<1>2. /\ pool' = pool /\ contexts' = contexts /\ loading' = loading /\ torn' = torn /\ reg' = reg
      /\ current' = current /\ life' = "stopping" /\ switch' = switch /\ projects' = projects
      /\ writer' = writer /\ force' = force /\ timer' = FALSE /\ job' = job /\ owed' = owed
      /\ queue' = queue /\ life = "up"
  BY DEF StopBegins, catalogVars, tables
<1>3. Objects' = Objects /\ Known' = Known  BY <1>1, <1>2, RestShape
<1>4. SwitchShape'  BY <1>1, <1>2, <1>3 DEF RuntimeShape, SwitchShape, Targets
<1>5. \A x \in Registrars : RegShape(x)'  BY <1>1, <1>2, <1>3 DEF RuntimeShape, RegShape
<1>6. RuntimeShape'  BY <1>1, <1>2, <1>3, <1>4, <1>5 DEF RuntimeShape
<1>7. TimerHolds'  BY <1>2 DEF TimerHolds
<1>8. Undisturbed' => /\ (\A o \in Objects : ContextHolds(o))' /\ LoadsHold'
                      /\ (\A x \in Registrars : DisposalHolds(x))' /\ TargetHolds' /\ SelectedHolds'
  <2>1. SameDisposals  BY <1>2 DEF SameDisposals
  <2> QED  BY <1>2, <2>1, RestKeeps
<1> QED  BY <1>6, <1>7, <1>8 DEF RuntimeIInv

\* A step that takes no context, and may set the selected orchestrator aside.
LEMMA RestsKeep ==
  ASSUME ProjectsIInv, NEW pl, SetAside(pl), pool' = pl,
         contexts' = contexts, loading' = loading, torn' = torn, projects' = projects,
         writer' = writer, reg' = reg, job' = job, life' = life,
         force' \in BOOLEAN, timer' \in BOOLEAN, owed' \subseteq Known,
         current' \in {current, GlobalView}, queue' \in Seq(Known \cup {GlobalView}),
         \/ switch' = switch
         \/ loading["switch"] = {} /\ switch' \in {IdleSwitch, [IdleSwitch EXCEPT !.pc = "refresh"]},
         (Global' /\ life = "up") => timer' \/ job.pc \notin {"off", "again"}
  PROVE  RuntimeIInv'
<1>1. RuntimeShape  BY DEF ProjectsIInv, RuntimeIInv
<1>2. SameDisposals  BY DEF SameDisposals
<1>3. /\ TakesTable("job", {}, {})
      /\ Undisturbed' => Undisturbed /\ Takes("job", {}, {})
  BY <1>2, ToldTakes
<1>4. /\ Known' = Known
      /\ job' \in [pc : {"off", "ensure", "view", "ending", "again"}, forced : BOOLEAN]
      /\ loading'["job"] # {} => job'.pc = "ensure"
      /\ torn' \subseteq {"mutation", "context"}
  BY <1>1 DEF RuntimeShape, Known
<1> QED  BY <1>3, <1>4, JobTakes

-----------------------------------------------------------------------------
(* Loading *)

LEMMA JobLoadsKeeps ==
  ASSUME NEW o PROVE ProjectsIInv /\ o \in loading["job"] /\ JobLoads(o) => RuntimeIInv'
<1> SUFFICES ASSUME ProjectsIInv, o \in loading["job"], JobLoads(o) PROVE RuntimeIInv'  OBVIOUS
<1>1. RuntimeShape /\ TimerHolds /\ "job" \in Callers /\ "job" \notin Registrars
  BY CallerNames DEF ProjectsIInv, RuntimeIInv, Callers
<1>2. /\ contexts' = contexts /\ torn' = torn /\ reg' = reg
      /\ current' = current /\ life' = life /\ switch' = switch /\ projects' = projects
      /\ writer' = writer /\ queue' = queue /\ force' = force /\ timer' = timer
      /\ job' = job /\ owed' = owed /\ loading' = [loading EXCEPT !["job"] = @ \ {o}]
      /\ pool' = [pool EXCEPT ![o[1]][o[2]] = Begun(Watched(@))]
  BY DEF JobLoads, catalogVars, tables
<1>3. pool' = [pool EXCEPT ![o[1]][o[2]] = Begun(Watched(At(pool, o)))]  BY <1>2 DEF At
<1>4. Loads("job", o)  BY <1>1, <1>2, <1>3 DEF Loads
<1>5. /\ Indexed' /\ Objects' = Objects /\ loading' \in [Callers -> SUBSET Objects']
      /\ \A g \in Callers : loading'[g] = IF g = "job" THEN loading["job"] \ {o} ELSE loading[g]
  BY <1>1, <1>4, LoadShape
<1>6. Known' = Known /\ "switch" \in Callers /\ Registrars \subseteq Callers  BY <1>2 DEF Known, Callers
<1>7. SwitchShape'  BY <1>1, <1>2, <1>5, <1>6 DEF RuntimeShape, SwitchShape, Targets
<1>8. \A x \in Registrars : loading'[x] = loading[x]  BY <1>1, <1>5, <1>6
<1>9. \A x \in Registrars : RegShape(x)'  BY <1>1, <1>2, <1>5, <1>8 DEF RuntimeShape, RegShape
<1>10. RuntimeShape'
  BY <1>1, <1>2, <1>5, <1>6, <1>7, <1>9 DEF RuntimeShape, Indexed, Pools
<1>11. TimerHolds'  BY <1>1, <1>2 DEF TimerHolds, Global
<1>12. Undisturbed' => /\ (\A q \in Objects : ContextHolds(q))' /\ LoadsHold'
                       /\ (\A x \in Registrars : DisposalHolds(x))' /\ TargetHolds' /\ SelectedHolds'
  <2>1. SameDisposals  BY <1>2 DEF SameDisposals
  <2>2. Undisturbed' => Undisturbed  BY <1>2 DEF Undisturbed
  <2> QED  BY <1>2, <1>4, <2>1, <2>2, LoadKeeps DEF ProjectsIInv
<1> QED  BY <1>10, <1>11, <1>12 DEF RuntimeIInv

LEMMA SwitchLoadsKeeps ==
  ASSUME NEW o PROVE ProjectsIInv /\ o \in loading["switch"] /\ SwitchLoads(o) => RuntimeIInv'
<1> SUFFICES ASSUME ProjectsIInv, o \in loading["switch"], SwitchLoads(o) PROVE RuntimeIInv'  OBVIOUS
<1>1. RuntimeShape /\ TimerHolds /\ "switch" \in Callers /\ "switch" \notin Registrars
  BY CallerNames DEF ProjectsIInv, RuntimeIInv, Callers
<1>2. /\ contexts' = contexts /\ torn' = torn /\ reg' = reg
      /\ current' = current /\ life' = life /\ switch' = switch /\ projects' = projects
      /\ writer' = writer /\ queue' = queue /\ force' = force /\ timer' = timer
      /\ job' = job /\ owed' = owed /\ loading' = [loading EXCEPT !["switch"] = @ \ {o}]
      /\ pool' = [pool EXCEPT ![o[1]][o[2]] = IF switch.pc = "ensure" THEN Begun(Watched(@)) ELSE Watched(@)]
  BY DEF SwitchLoads, SwitchFrame, catalogVars, tables
<1>3. \E v \in {Watched(At(pool, o)), Begun(Watched(At(pool, o)))} :
        pool' = [pool EXCEPT ![o[1]][o[2]] = v]
  <2>1. CASE switch.pc = "ensure"  BY <1>2, <2>1 DEF At
  <2>2. CASE switch.pc # "ensure"  BY <1>2, <2>2 DEF At
  <2> QED  BY <2>1, <2>2
<1>4. Loads("switch", o)  BY <1>1, <1>2, <1>3 DEF Loads
<1>5. /\ Indexed' /\ Objects' = Objects /\ loading' \in [Callers -> SUBSET Objects']
      /\ \A g \in Callers : loading'[g] = IF g = "switch" THEN loading["switch"] \ {o} ELSE loading[g]
  BY <1>1, <1>4, LoadShape
<1>6. Known' = Known /\ "job" \in Callers /\ Registrars \subseteq Callers  BY <1>2 DEF Known, Callers
<1>7. SwitchShape'  BY <1>1, <1>2, <1>5, <1>6 DEF RuntimeShape, SwitchShape, Targets
<1>8. \A x \in Registrars : loading'[x] = loading[x]  BY <1>1, <1>5, <1>6
<1>9. \A x \in Registrars : RegShape(x)'  BY <1>1, <1>2, <1>5, <1>8 DEF RuntimeShape, RegShape
<1>10. RuntimeShape'
  BY <1>1, <1>2, <1>5, <1>6, <1>7, <1>9 DEF RuntimeShape, Indexed, Pools
<1>11. TimerHolds'  BY <1>1, <1>2 DEF TimerHolds, Global
<1>12. Undisturbed' => /\ (\A q \in Objects : ContextHolds(q))' /\ LoadsHold'
                       /\ (\A x \in Registrars : DisposalHolds(x))' /\ TargetHolds' /\ SelectedHolds'
  <2>1. SameDisposals  BY <1>2 DEF SameDisposals
  <2>2. Undisturbed' => Undisturbed  BY <1>2 DEF Undisturbed
  <2> QED  BY <1>2, <1>4, <2>1, <2>2, LoadKeeps DEF ProjectsIInv
<1> QED  BY <1>10, <1>11, <1>12 DEF RuntimeIInv

\* A registration is done.
LEMMA RegDoneShape ==
  ASSUME RuntimeShape, CatalogTypeOK, NEW x \in Registrars, RegDone(x), Objects \subseteq Objects',
         loading'[x] = {}, \A y \in Registrars \ {x} : loading'[y] = loading[y]
  PROVE  /\ \A y \in Registrars : RegShape(y)'
         /\ reg' \in [Registrars -> [pc : {"off", "dispose", "load", "preload"}, target : Refs]]
         /\ reg'[x] = IdleReg /\ \A y \in Registrars \ {x} : reg'[y] = reg[y]
<1>1. /\ reg' = [reg EXCEPT ![x] = IdleReg] /\ writer' = [writer EXCEPT ![x] = NoWriter]
      /\ reg \in [Registrars -> [pc : {"off", "dispose", "load", "preload"}, target : Refs]]
      /\ writer \in [Registrars -> Writers]
  BY DEF RegDone, RuntimeShape, CatalogTypeOK, Writers
<1>2. IdleReg \in [pc : {"off", "dispose", "load", "preload"}, target : Refs] /\ IdleReg.pc = "off"
  BY DEF IdleReg, Refs, NoContext, None
<1>3. /\ reg' \in [Registrars -> [pc : {"off", "dispose", "load", "preload"}, target : Refs]]
      /\ reg'[x] = IdleReg /\ \A y \in Registrars \ {x} : reg'[y] = reg[y] /\ writer'[y] = writer[y]
  BY <1>1, <1>2
<1>4. ASSUME NEW y \in Registrars  PROVE RegShape(y)'
  <2>1. CASE y = x  BY <1>2, <1>3, <2>1 DEF RegShape
  <2>2. CASE y # x  BY <1>3, <2>2 DEF RuntimeShape, RegShape
  <2> QED  BY <2>1, <2>2
<1> QED  BY <1>3, <1>4

LEMMA RegLoadedKeeps == ASSUME NEW x \in Registrars PROVE ProjectsIInv /\ RegLoaded(x) => RuntimeIInv'
<1> SUFFICES ASSUME ProjectsIInv, RegLoaded(x) PROVE RuntimeIInv'  OBVIOUS
<1>1. RuntimeShape /\ TimerHolds /\ CatalogTypeOK /\ x \in Callers /\ x \notin {"switch", "job"}
  BY CallerNames DEF ProjectsIInv, RuntimeIInv, CatalogIInv, Callers
<1> PICK o : o = reg[x].target  OBVIOUS
<1>2. /\ contexts' = contexts /\ torn' = torn /\ RegDone(x) /\ reg[x].pc = "load"
      /\ current' = current /\ life' = life /\ switch' = switch /\ projects' = projects
      /\ queue' = queue /\ force' = force /\ timer' = timer
      /\ job' = job /\ owed' = owed /\ loading' = [loading EXCEPT ![x] = {}]
      /\ pool' = [pool EXCEPT ![o[1]][o[2]] = Begun(Watched(@))]
  BY DEF RegLoaded, RegFrame, tables
<1>3. loading[x] = {o}  BY <1>1, <1>2 DEF RuntimeShape, RegShape
<1>4. pool' = [pool EXCEPT ![o[1]][o[2]] = Begun(Watched(At(pool, o)))]  BY <1>2 DEF At
<1>5. Loads(x, o)
  <2>1. loading' = [loading EXCEPT ![x] = loading[x] \ {o}]  BY <1>2, <1>3
  <2> QED  BY <1>1, <1>2, <1>3, <1>4, <2>1 DEF Loads
<1>6. /\ Indexed' /\ Objects' = Objects /\ loading' \in [Callers -> SUBSET Objects']
      /\ \A g \in Callers : loading'[g] = IF g = x THEN loading[x] \ {o} ELSE loading[g]
  <2>1. RuntimeShape  BY <1>1
  <2> QED  BY ONLY <1>5, <2>1, LoadShape
<1>7. /\ Known' = Known /\ "job" \in Callers /\ "switch" \in Callers /\ Registrars \subseteq Callers
      /\ loading'["job"] = loading["job"] /\ loading'["switch"] = loading["switch"]
  BY <1>1, <1>2, <1>6 DEF Known, Callers
<1>8. SwitchShape'  BY <1>1, <1>2, <1>6, <1>7 DEF RuntimeShape, SwitchShape, Targets
<1>9. loading'[x] = {} /\ \A y \in Registrars \ {x} : loading'[y] = loading[y]
  BY <1>3, <1>6, <1>7
<1>10. /\ \A y \in Registrars : RegShape(y)'
       /\ reg' \in [Registrars -> [pc : {"off", "dispose", "load", "preload"}, target : Refs]]
       /\ reg'[x] = IdleReg /\ \A y \in Registrars \ {x} : reg'[y] = reg[y]
  BY <1>1, <1>2, <1>6, <1>9, RegDoneShape
<1>11. RuntimeShape'
  BY <1>1, <1>2, <1>6, <1>7, <1>8, <1>10 DEF RuntimeShape, Indexed, Pools
<1>12. TimerHolds'  BY <1>1, <1>2 DEF TimerHolds, Global
<1>13. Undisturbed' => /\ (\A q \in Objects : ContextHolds(q))' /\ LoadsHold'
                       /\ (\A y \in Registrars : DisposalHolds(y))' /\ TargetHolds' /\ SelectedHolds'
  <2>1. SameDisposals  BY <1>2, <1>10 DEF SameDisposals, IdleReg
  <2>2. Undisturbed' => Undisturbed  BY <1>2 DEF Undisturbed
  <2> QED  BY <1>2, <1>5, <2>1, <2>2, LoadKeeps DEF ProjectsIInv
<1> QED  BY <1>11, <1>12, <1>13 DEF RuntimeIInv

LEMMA RegPreloadedKeeps == ASSUME NEW x \in Registrars PROVE ProjectsIInv /\ RegPreloaded(x) => RuntimeIInv'
<1> SUFFICES ASSUME ProjectsIInv, RegPreloaded(x) PROVE RuntimeIInv'  OBVIOUS
<1>1. RuntimeShape /\ TimerHolds /\ CatalogTypeOK
  BY DEF ProjectsIInv, RuntimeIInv, CatalogIInv
<1>2. /\ contexts' = contexts /\ torn' = torn /\ RegDone(x) /\ reg[x].pc = "preload"
      /\ current' = current /\ life' = life /\ switch' = switch /\ projects' = projects
      /\ queue' = queue /\ force' = force /\ timer' = timer
      /\ job' = job /\ owed' = owed /\ loading' = loading /\ pool' = pool
  BY DEF RegPreloaded, RegFrame, tables
<1>3. Objects' = Objects /\ Known' = Known  BY <1>1, <1>2, RestShape
<1>4. SwitchShape'  BY <1>1, <1>2, <1>3 DEF RuntimeShape, SwitchShape, Targets
<1>5. loading[x] = {}  BY <1>1, <1>2 DEF RuntimeShape, RegShape
<1>6. /\ \A y \in Registrars : RegShape(y)'
      /\ reg' \in [Registrars -> [pc : {"off", "dispose", "load", "preload"}, target : Refs]]
      /\ reg'[x] = IdleReg /\ \A y \in Registrars \ {x} : reg'[y] = reg[y]
  BY <1>1, <1>2, <1>3, <1>5, RegDoneShape
<1>7. RuntimeShape'  BY <1>1, <1>2, <1>3, <1>4, <1>6 DEF RuntimeShape
<1>8. TimerHolds'  BY <1>1, <1>2 DEF TimerHolds, Global
<1>9. Undisturbed' => /\ (\A o \in Objects : ContextHolds(o))' /\ LoadsHold'
                      /\ (\A y \in Registrars : DisposalHolds(y))' /\ TargetHolds' /\ SelectedHolds'
  <2>1. SameDisposals  BY <1>2, <1>6 DEF SameDisposals, IdleReg
  <2> QED  BY <1>2, <2>1, RestKeeps
<1> QED  BY <1>7, <1>8, <1>9 DEF RuntimeIInv

-----------------------------------------------------------------------------
(* Switches *)

LEMMA SwitchFailsKeeps == ProjectsIInv /\ SwitchFails => RuntimeIInv'
<1> SUFFICES ASSUME ProjectsIInv, SwitchFails PROVE RuntimeIInv'  OBVIOUS
<1>1. RuntimeShape /\ TimerHolds  BY DEF ProjectsIInv, RuntimeIInv
<1>2. /\ pool' = pool /\ contexts' = contexts /\ loading' = loading /\ torn' = torn /\ reg' = reg
      /\ current' = current /\ life' = life /\ projects' = projects
      /\ writer' = writer /\ queue' = queue /\ force' = force /\ timer' = timer /\ job' = job
      /\ owed' = owed /\ switch' = IdleSwitch /\ switch.pc \in {"reload", "commit"}
  BY DEF SwitchFails, SwitchFrame, catalogVars, tables
<1>3. /\ force' \in BOOLEAN /\ timer' \in BOOLEAN /\ owed' \subseteq Known
      /\ queue' \in Seq(Known \cup {GlobalView}) /\ loading["switch"] = {}
      /\ (Global' /\ life = "up") => timer' \/ job.pc \notin {"off", "again"}
  BY <1>1, <1>2 DEF RuntimeShape, TimerHolds, Global
<1>4. SetAside(pool)  BY <1>2, AsideItself
<1> QED  BY <1>2, <1>3, <1>4, RestsKeep

LEMMA SwitchRefreshedKeeps == ProjectsIInv /\ SwitchRefreshed => RuntimeIInv'
<1> SUFFICES ASSUME ProjectsIInv, SwitchRefreshed PROVE RuntimeIInv'  OBVIOUS
<1>1. RuntimeShape /\ TimerHolds  BY DEF ProjectsIInv, RuntimeIInv
<1>2. /\ pool' = pool /\ contexts' = contexts /\ loading' = loading /\ torn' = torn /\ reg' = reg
      /\ current' = current /\ life' = life /\ projects' = projects
      /\ writer' = writer /\ queue' = queue /\ force' = force /\ timer' = timer /\ job' = job
      /\ owed' = owed /\ switch' = IdleSwitch /\ switch.pc = "refresh"
  BY DEF SwitchRefreshed, SwitchFrame, catalogVars, tables
<1>3. /\ force' \in BOOLEAN /\ timer' \in BOOLEAN /\ owed' \subseteq Known
      /\ queue' \in Seq(Known \cup {GlobalView}) /\ loading["switch"] = {}
      /\ (Global' /\ life = "up") => timer' \/ job.pc \notin {"off", "again"}
  BY <1>1, <1>2 DEF RuntimeShape, TimerHolds, Global
<1>4. SetAside(pool)  BY <1>2, AsideItself
<1> QED  BY <1>2, <1>3, <1>4, RestsKeep

LEMMA SwitchEnsuredKeeps == ProjectsIInv /\ SwitchEnsured => RuntimeIInv'
<1> SUFFICES ASSUME ProjectsIInv, SwitchEnsured PROVE RuntimeIInv'  OBVIOUS
<1>1. RuntimeShape /\ TimerHolds  BY DEF ProjectsIInv, RuntimeIInv
<1>2. /\ pool' = pool /\ contexts' = contexts /\ loading' = loading /\ torn' = torn /\ reg' = reg
      /\ current' = current /\ life' = life /\ projects' = projects
      /\ writer' = writer /\ queue' = queue /\ force' = force /\ timer' = timer /\ job' = job
      /\ owed' = owed /\ loading["switch"] = {}
      /\ switch' = [switch EXCEPT !.pc = IF switch.pc = "load" THEN "reload" ELSE "commit"]
      /\ switch.pc \in {"ensure", "load"}
  BY DEF SwitchEnsured, SwitchFrame, catalogVars, tables
<1>3. switch \in [pc : SwitchPcs, to : Ids \cup {None, GlobalView}, target : Refs]
  BY <1>1 DEF RuntimeShape, SwitchShape
<1>4. /\ switch'.to = switch.to /\ switch'.target = switch.target
      /\ switch' \in [pc : SwitchPcs, to : Ids \cup {None, GlobalView}, target : Refs]
      /\ switch'.pc = IF switch.pc = "load" THEN "reload" ELSE "commit"
  <2>1. CASE switch.pc = "load"  BY <1>2, <1>3, <2>1 DEF SwitchPcs
  <2>2. CASE switch.pc = "ensure"  BY <1>2, <1>3, <2>2 DEF SwitchPcs
  <2> QED  BY <1>2, <2>1, <2>2
<1>5. /\ switch.pc = "load" => Targets /\ Targets'
      /\ switch.pc = "ensure" => ~Targets /\ ~Targets' /\ switch.to = GlobalView
  <2>1. switch.pc = "ensure" => switch.to = GlobalView
    BY <1>1 DEF RuntimeShape, SwitchShape
  <2>2. switch.pc = "load" => switch.to # GlobalView
    BY <1>1, CatalogAssumptions DEF RuntimeShape, SwitchShape, Ids, GlobalView
  <2> QED  BY <1>4, <2>1, <2>2 DEF Targets
<1>6. Objects' = Objects /\ Known' = Known  BY <1>1, <1>2, RestShape
<1>7. SwitchShape'
  <2>1. GlobalView # None  BY CatalogAssumptions DEF GlobalView, None
  <2>2. CASE switch.pc = "load"
    BY <1>1, <1>4, <1>5, <1>6, <2>2 DEF RuntimeShape, SwitchShape
  <2>3. CASE switch.pc = "ensure"
    BY <1>1, <1>4, <1>5, <1>6, <2>1, <2>3 DEF RuntimeShape, SwitchShape
  <2> QED  BY <1>2, <2>2, <2>3
<1>8. \A x \in Registrars : RegShape(x)'  BY <1>1, <1>2, <1>6 DEF RuntimeShape, RegShape
<1>9. RuntimeShape'  BY <1>1, <1>2, <1>6, <1>7, <1>8 DEF RuntimeShape
<1>10. TimerHolds'  BY <1>1, <1>2 DEF TimerHolds, Global
<1>11. ASSUME Undisturbed'
       PROVE  /\ (\A o \in Objects : ContextHolds(o))' /\ LoadsHold'
              /\ (\A x \in Registrars : DisposalHolds(x))' /\ TargetHolds' /\ SelectedHolds'
  <2>1. SameDisposals  BY <1>2 DEF SameDisposals
  <2>2. Undisturbed  BY <1>2, <1>11 DEF Undisturbed
  <2>3. TargetHolds'
    <3>1. CASE switch.pc = "load"
      <4>1. TargetHolds /\ Targets  BY <1>5, <2>2, <3>1 DEF ProjectsIInv, RuntimeIInv
      <4> QED  BY <1>2, <1>4, <3>1, <4>1 DEF TargetHolds, IsHere, Here, At
    <3>2. CASE switch.pc = "ensure"  BY <1>5, <3>2 DEF TargetHolds
    <3> QED  BY <1>2, <3>1, <3>2
  <2> QED  BY <1>2, <1>4, <1>11, <2>1, <2>3, RestKeeps
<1> QED  BY <1>9, <1>10, <1>11 DEF RuntimeIInv

\* The runtime of the context that a switch has taken begins.
LEMMA SwitchReloadsKeeps == ProjectsIInv /\ SwitchReloads => RuntimeIInv'
<1> SUFFICES ASSUME ProjectsIInv, SwitchReloads PROVE RuntimeIInv'  OBVIOUS
<1>1. RuntimeShape /\ TimerHolds /\ RuntimeIInv  BY DEF ProjectsIInv, RuntimeIInv
<1> PICK o : o = switch.target  OBVIOUS
<1>2. /\ contexts' = contexts /\ loading' = loading /\ torn' = torn /\ reg' = reg
      /\ current' = current /\ life' = life /\ projects' = projects
      /\ writer' = writer /\ queue' = queue /\ force' = force /\ timer' = timer /\ job' = job
      /\ owed' = owed /\ switch.pc = "reload" /\ switch' = [switch EXCEPT !.pc = "commit"]
      /\ pool' = [pool EXCEPT ![o[1]][o[2]] = Begun(@)]
  BY DEF SwitchReloads, SwitchFrame, catalogVars, tables
<1>3. /\ switch \in [pc : SwitchPcs, to : Ids \cup {None, GlobalView}, target : Refs]
      /\ Targets /\ switch.to \in Ids /\ loading["switch"] = {} /\ o \in Objects /\ o[1] = switch.to
      /\ switch.to \in Known
  <2>1. switch.pc = "reload" => switch.to \in Ids /\ switch.to # GlobalView
    BY <1>1, CatalogAssumptions DEF RuntimeShape, SwitchShape, Ids, GlobalView
  <2> QED  BY <1>1, <1>2, <2>1 DEF RuntimeShape, SwitchShape, Targets
<1>4. /\ switch'.to = switch.to /\ switch'.target = o /\ switch'.pc = "commit" /\ Targets'
      /\ switch' \in [pc : SwitchPcs, to : Ids \cup {None, GlobalView}, target : Refs]
  <2>1. switch.to # GlobalView  BY <1>3 DEF Targets
  <2> QED  BY <1>2, <1>3, <2>1 DEF SwitchPcs, Targets
<1>5. At(pool, o) \in Contexts  BY <1>1, <1>3, ObjectsWithin, ShapeIndexed, WithinIs DEF Indexed
<1>6. /\ Begun(At(pool, o)) \in Contexts
      /\ Begun(At(pool, o)).watching = At(pool, o).watching
      /\ Begun(At(pool, o)).watchers = At(pool, o).watchers
      /\ Begun(At(pool, o)).active = At(pool, o).active
      /\ Begun(At(pool, o)).run = (IF At(pool, o).run = "none" THEN "live" ELSE At(pool, o).run)
  BY <1>5, BegunIs
<1>7. /\ Indexed' /\ Objects' = Objects /\ At(pool', o) = Begun(At(pool, o))
      /\ \A q \in Objects : q # o => At(pool', q) = At(pool, q)
      /\ \A q : (IsHere(q))' <=> IsHere(q)
  <2>1. pool' = [pool EXCEPT ![o[1]][o[2]] = Begun(At(pool, o))]  BY <1>2 DEF At
  <2>2. /\ RuntimeShape /\ o \in Objects /\ Begun(At(pool, o)) \in Contexts /\ contexts' = contexts
    BY <1>1, <1>2, <1>3, <1>6
  <2> QED  BY ONLY <2>1, <2>2, PutShape
<1>8. Known' = Known  BY <1>2 DEF Known
<1>9. SwitchShape'
  BY <1>1, <1>3, <1>4, <1>7, <1>8 DEF RuntimeShape, SwitchShape, None, Ids
<1>10. \A x \in Registrars : RegShape(x)'  BY <1>1, <1>2, <1>7 DEF RuntimeShape, RegShape
<1>11. RuntimeShape'
  BY <1>1, <1>2, <1>3, <1>7, <1>8, <1>9, <1>10 DEF RuntimeShape, Indexed, Pools
<1>12. TimerHolds'  BY <1>1, <1>2 DEF TimerHolds, Global
<1>13. ASSUME Undisturbed'
       PROVE  /\ (\A q \in Objects : ContextHolds(q))' /\ LoadsHold'
              /\ (\A x \in Registrars : DisposalHolds(x))' /\ TargetHolds' /\ SelectedHolds'
  <2>1. Undisturbed  BY <1>2, <1>13 DEF Undisturbed
  <2>2. /\ IsHere(o) /\ At(pool, o).watching
        /\ \A g \in Callers : o \notin loading[g]
        /\ \A x \in Registrars : ~Disposes(x, o)
    <3>1. IsHere(o) /\ At(pool, o).watching
      BY <1>1, <1>3, <2>1 DEF RuntimeIInv, TargetHolds
    <3>2. \A x \in Registrars : ~Disposes(x, o)
      BY <1>1, <2>1 DEF RuntimeIInv, DisposalHolds, Disposes
    <3> QED  BY <1>1, <2>1, <3>1, <3>2 DEF RuntimeIInv, LoadsHold
  <2>3. At(pool, o).run # "disposed"  BY <1>1, <1>3, <2>1, <2>2 DEF RuntimeIInv, ContextHolds
  <2>4. o[1] \in Ids /\ contexts[o[1]] # None /\ o = Here(o[1])
    <3>1. o[1] \in Ids /\ o[2] # 0  BY <1>1, <1>3, ObjectsWithin, ShapeIndexed, WithinIs DEF Indexed
    <3> QED  BY <2>2, <3>1 DEF IsHere, Here, None
  <2>5. Takes("job", {o[1]}, {})
    <3>1. ContextsWith({o[1]}) = contexts
      BY <1>1, <2>4 DEF ContextsWith, RuntimeShape
    <3>2. Made(pool', {o[1]})
      <4>1. Objects = Within(pool) /\ Within(pool') = Within(pool)  BY <1>7, ObjectsWithin, ObjectsPrime
      <4>2. o = <<o[1], contexts[o[1]]>>  BY <2>4 DEF Here
      <4>3. pool' \in Pools /\ contexts \in [Ids -> Nat] /\ \A p \in Ids : contexts[p] <= Len(pool'[p])
        BY <1>2, <1>7 DEF Indexed, Pools
      <4> QED  BY ONLY <1>3, <2>4, <3>1, <4>1, <4>2, <4>3 DEF Made
    <3>3. TakesTable("job", {o[1]}, {})
      <4>1. loading = [loading EXCEPT !["job"] = @ \cup {<<p, ContextsWith({o[1]})[p]>> : p \in {}}]
        BY <1>1 DEF RuntimeShape
      <4> QED  BY <1>2, <2>4, <3>1, <3>2, <4>1 DEF TakesTable, Callers
    <3>4. ~Taken("job", {o[1]})  BY <2>2, <2>4 DEF Taken, Disposes
    <3>5. ASSUME NEW q \in Within(pool)  PROVE Suits(q, {o[1]})
      <4>1. CASE q = o
        <5>1. (IF At(pool, o).run = "none" THEN "live" ELSE At(pool, o).run) \in {"live", "none", "disposed"}
          BY <1>5 DEF Contexts
        <5> QED  BY <1>2, <1>6, <1>7, <2>2, <4>1 DEF Suits
      <4>2. CASE q # o  BY <1>2, <1>7, <4>2, ObjectsWithin DEF Suits
      <4> QED  BY <4>1, <4>2
    <3> QED  BY <1>2, <3>3, <3>4, <3>5, CallerNames DEF Takes
  <2>6. (\A q \in Objects : ContextHolds(q))' /\ LoadsHold' /\ (\A x \in Registrars : DisposalHolds(x))'
    BY <1>1, <1>4, <2>1, <2>5, TakeKeeps
  <2>7. SelectedHolds'  BY <1>1, <1>2, <2>1, <2>5, TakeSelected DEF ProjectsIInv
  <2>8. TargetHolds'
    <3>1. At(pool', o).watching /\ At(pool', o).run = "live"
      BY <1>5, <1>6, <1>7, <2>2, <2>3 DEF Contexts
    <3>2. (IsHere(o))'  BY <1>7, <2>2
    <3> QED  BY <1>2, <1>3, <1>4, <3>1, <3>2 DEF TargetHolds, IsHere, Here, At
  <2> QED  BY <2>6, <2>7, <2>8
<1> QED  BY <1>11, <1>12, <1>13 DEF RuntimeIInv

\* The orchestrator selected so far is set aside.
LEMMA SuspendedIs ==
  ASSUME ProjectsIInv
  PROVE  /\ Suspended \in Pools /\ \A p \in Ids : Len(Suspended[p]) = Len(pool[p])
         /\ Undisturbed => \A q \in Within(pool) :
              LET c == At(pool, q)
                  d == At(Suspended, q)
              IN d.watching = c.watching /\ d.watchers = c.watchers /\ d.run = c.run
                 /\ (d.active <=> c.active /\ Global)
<1>1. RuntimeShape /\ Indexed /\ current \in Known \cup {GlobalView} /\ Known \subseteq Ids
  BY ShapeIndexed DEF ProjectsIInv, RuntimeIInv, RuntimeShape, CatalogIInv, CatalogTypeOK, Known
<1>2. \A q \in Within(pool) : /\ At(pool, q) \in Contexts /\ q[1] \in Ids /\ q[2] # 0
  BY <1>1, WithinIs DEF Indexed
<1>3. ASSUME Undisturbed, ~Global, NEW q \in Within(pool), At(pool, q).active
      PROVE  contexts[current] # None /\ q = Here(current) /\ At(pool, q).run = "live"
  <2>1. At(pool, q).run = "live" /\ IsHere(q) /\ q[1] = current
    BY <1>3, ObjectsWithin DEF ProjectsIInv, RuntimeIInv, ContextHolds
  <2> QED  BY <1>2, <2>1 DEF IsHere, Here, None
<1>4. CASE Global
  <2>1. Suspended = pool  BY <1>4 DEF Suspended
  <2> QED  BY <1>1, <1>2, <1>4, <2>1 DEF Indexed, Contexts
<1>5. CASE ~Global /\ contexts[current] = None
  <2>1. Suspended = pool  BY <1>5 DEF Suspended
  <2> QED  BY <1>1, <1>3, <1>5, <2>1 DEF Indexed
<1>6. CASE ~Global /\ contexts[current] # None
  <2> PICK o : o = Here(current)  OBVIOUS
  <2> DEFINE v == ActiveIs(At(pool, o), FALSE)
  <2>1. current \in Ids /\ o \in Within(pool) /\ At(pool, o) \in Contexts
    BY <1>1, <1>2, <1>6, HereWithin DEF Global
  <2>2. Suspended = Put(pool, o, v)  BY <1>6 DEF Suspended, Put, Here, At
  <2>3. /\ v \in Contexts /\ v.watching = At(pool, o).watching
        /\ v.watchers = At(pool, o).watchers /\ v.run = At(pool, o).run
        /\ v.active = (IF At(pool, o).run = "live" THEN FALSE ELSE At(pool, o).active)
    BY <2>1, ActiveIsIs
  <2> HIDE DEF v
  <2>4. /\ Suspended \in Pools /\ \A p \in Ids : Len(Suspended[p]) = Len(pool[p])
        /\ At(Suspended, o) = v
        /\ \A q \in Within(pool) : q # o => At(Suspended, q) = At(pool, q)
    <3>1. pool \in Pools  BY <1>1 DEF Indexed
    <3>2. /\ Put(pool, o, v) \in Pools /\ \A p \in Ids : Len(Put(pool, o, v)[p]) = Len(pool[p])
          /\ At(Put(pool, o, v), o) = v
          /\ \A q \in Within(pool) : q # o => At(Put(pool, o, v), q) = At(pool, q)
      BY ONLY <2>1, <2>3, <3>1, PoolPut
    <3> QED  BY ONLY <2>2, <3>2
  <2>5. ASSUME Undisturbed, NEW q \in Within(pool)
        PROVE  LET c == At(pool, q)
                   d == At(Suspended, q)
               IN d.watching = c.watching /\ d.watchers = c.watchers /\ d.run = c.run
                  /\ (d.active <=> c.active /\ Global)
    <3>1. CASE q = o  BY <1>3, <1>6, <2>3, <2>4, <2>5, <3>1
    <3>2. CASE q # o  BY <1>3, <1>6, <2>4, <2>5, <3>2
    <3> QED  BY <3>1, <3>2
  <2> QED  BY <2>4, <2>5
<1> QED  BY <1>4, <1>5, <1>6

LEMMA SuspendedAside ==
  ASSUME ProjectsIInv, current' = GlobalView
  PROVE  SetAside(Suspended)
  BY SuspendedIs DEF SetAside, Global

LEMMA SwitchCommitsGlobalKeeps == ProjectsIInv /\ SwitchCommitsGlobal => RuntimeIInv'
<1> SUFFICES ASSUME ProjectsIInv, SwitchCommitsGlobal PROVE RuntimeIInv'  OBVIOUS
<1>1. RuntimeShape  BY DEF ProjectsIInv, RuntimeIInv
<1>2. /\ switch.pc = "commit" /\ current' = GlobalView /\ projects' = projects /\ writer' = writer
      /\ queue' = queue /\ timer' = timer /\ reg' = reg /\ life' = life
      /\ IF life = "up"
         THEN /\ RefreshGlobal(Suspended, TRUE) /\ owed' = Known
              /\ switch' = [IdleSwitch EXCEPT !.pc = "refresh"]
         ELSE /\ pool' = Suspended /\ switch' = IdleSwitch
              /\ UNCHANGED <<job, force, contexts, loading, owed, torn>>
  BY DEF SwitchCommitsGlobal
<1>3. /\ Known' = Known /\ timer \in BOOLEAN /\ force \in BOOLEAN /\ owed \subseteq Known
      /\ queue \in Seq(Known \cup {GlobalView}) /\ loading["switch"] = {}
  BY <1>1, <1>2 DEF RuntimeShape, Known
<1>4. SetAside(Suspended)  BY <1>2, SuspendedAside
<1>5. CASE life = "up"
  <2>1. RefreshGlobal(Suspended, TRUE) /\ owed' = Known /\ switch' = [IdleSwitch EXCEPT !.pc = "refresh"]
    BY <1>2, <1>5
  <2> QED  BY <1>2, <1>3, <1>4, <2>1, RefreshKeeps
<1>6. CASE life # "up"
  <2>1. /\ pool' = Suspended /\ switch' = IdleSwitch /\ job' = job /\ force' = force
        /\ contexts' = contexts /\ loading' = loading /\ owed' = owed /\ torn' = torn
    BY <1>2, <1>6
  <2> QED  BY <1>2, <1>3, <1>4, <1>6, <2>1, RestsKeep
<1> QED  BY <1>5, <1>6

\* The orchestrator of the selected project works, the one set aside does not.
LEMMA SwitchCommitsKeeps == ProjectsIInv /\ SwitchCommits => RuntimeIInv'
<1> SUFFICES ASSUME ProjectsIInv, SwitchCommits PROVE RuntimeIInv'  OBVIOUS
<1>1. RuntimeShape /\ RuntimeIInv /\ CatalogTypeOK
  BY DEF ProjectsIInv, RuntimeIInv, CatalogIInv
<1> PICK o : o = switch.target  OBVIOUS
<1>2. /\ switch.pc = "commit" /\ switch.to # GlobalView /\ current' = switch.to
      /\ timer' = FALSE /\ force' = FALSE /\ owed' = {} /\ switch' = IdleSwitch
      /\ pool' = [Suspended EXCEPT ![o[1]][o[2]] = ActiveIs(@, TRUE)]
      /\ projects' = projects /\ writer' = writer /\ torn' = torn
      /\ contexts' = contexts /\ queue' = queue /\ job' = job /\ reg' = reg /\ loading' = loading
      /\ life' = life
  BY DEF SwitchCommits
<1>3. /\ Targets /\ loading["switch"] = {} /\ o \in Within(pool) /\ o[1] = switch.to
      /\ switch.to \in Known
  BY <1>1, <1>2, ObjectsWithin DEF RuntimeShape, SwitchShape, Targets
<1>4. switch.to \in Ids /\ switch.to # GlobalView
  BY <1>1, <1>2, <1>3 DEF CatalogTypeOK, Known
<1>5. /\ Suspended \in Pools /\ \A p \in Ids : Len(Suspended[p]) = Len(pool[p])
      /\ Undisturbed => \A q \in Within(pool) :
           LET c == At(pool, q)
               d == At(Suspended, q)
           IN d.watching = c.watching /\ d.watchers = c.watchers /\ d.run = c.run
              /\ (d.active <=> c.active /\ Global)
  BY SuspendedIs
<1>6. Within(Suspended) = Within(pool)  BY <1>5 DEF Within
<1>7. \A q \in Within(pool) : At(Suspended, q) \in Contexts  BY <1>5, <1>6, WithinIs
<1> DEFINE v == ActiveIs(At(Suspended, o), TRUE)
<1>8. /\ v \in Contexts /\ v.watching = At(Suspended, o).watching
      /\ v.watchers = At(Suspended, o).watchers /\ v.run = At(Suspended, o).run
      /\ v.active = (IF At(Suspended, o).run = "live" THEN TRUE ELSE At(Suspended, o).active)
  BY <1>3, <1>7, ActiveIsIs
<1>9. pool' = Put(Suspended, o, v)  BY <1>2 DEF Put, At
<1> HIDE DEF v
<1>10. /\ pool' \in Pools /\ \A p \in Ids : Len(pool'[p]) = Len(pool[p])
       /\ Within(pool') = Within(pool) /\ At(pool', o) = v
       /\ \A q \in Within(pool) : q # o => At(pool', q) = At(Suspended, q)
  <2>1. o \in Within(Suspended)  BY <1>3, <1>6
  <2>2. /\ Put(Suspended, o, v) \in Pools
        /\ \A p \in Ids : Len(Put(Suspended, o, v)[p]) = Len(Suspended[p])
        /\ Within(Put(Suspended, o, v)) = Within(Suspended) /\ At(Put(Suspended, o, v), o) = v
        /\ \A q \in Within(Suspended) : q # o => At(Put(Suspended, o, v), q) = At(Suspended, q)
    BY ONLY <1>5, <1>8, <2>1, PoolPut
  <2> QED  BY ONLY <1>5, <1>6, <1>9, <2>2
<1>11. Objects' = Objects /\ Known' = Known  BY <1>2, <1>10, ObjectsWithin, ObjectsPrime DEF Known
<1>12. SwitchShape'
  BY <1>2, <1>11 DEF SwitchShape, SwitchPcs, Targets, IdleSwitch, Refs, NoContext, None
<1>13. \A x \in Registrars : RegShape(x)'  BY <1>1, <1>2, <1>11 DEF RuntimeShape, RegShape
<1>14. RuntimeShape'
  BY <1>1, <1>2, <1>3, <1>10, <1>11, <1>12, <1>13 DEF RuntimeShape, Pools
<1>15. TimerHolds'  BY <1>2, <1>4 DEF TimerHolds, Global
<1>16. ASSUME Undisturbed'
       PROVE  /\ (\A q \in Objects : ContextHolds(q))' /\ LoadsHold'
              /\ (\A x \in Registrars : DisposalHolds(x))' /\ TargetHolds' /\ SelectedHolds'
  <2>1. Undisturbed  BY <1>2, <1>16 DEF Undisturbed
  <2>2. /\ LoadsHold /\ (\A q \in Within(pool) : ContextHolds(q)) /\ TargetHolds
        /\ \A x \in Registrars : DisposalHolds(x)
    BY <1>1, <2>1, ObjectsWithin DEF RuntimeIInv
  <2>3. IsHere(o) /\ At(pool, o).run = "live"  BY <1>2, <1>3, <2>2 DEF TargetHolds
  <2>4. \A q : (IsHere(q))' <=> IsHere(q)  BY <1>2 DEF IsHere, Here
  <2>5. ASSUME NEW q \in Within(pool)
        PROVE  /\ At(pool', q).watching = At(pool, q).watching
               /\ At(pool', q).watchers = At(pool, q).watchers /\ At(pool', q).run = At(pool, q).run
               /\ At(pool', q).active <=> q = o
    <3>1. /\ At(Suspended, q).watching = At(pool, q).watching
          /\ At(Suspended, q).watchers = At(pool, q).watchers
          /\ At(Suspended, q).run = At(pool, q).run
          /\ At(Suspended, q).active <=> At(pool, q).active /\ Global
      BY <1>5, <2>1
    <3>2. CASE q = o  BY <1>8, <1>10, <2>3, <3>1, <3>2
    <3>3. CASE q # o
      <4>1. ~At(Suspended, q).active
        <5>1. At(pool, q).active => q[1] = current  BY <2>2 DEF ContextHolds
        <5>2. q[1] \in Ids  BY <1>1, ShapeIndexed, WithinIs DEF Indexed
        <5> QED  BY <3>1, <5>1, <5>2, CatalogAssumptions DEF Global, Ids, GlobalView
      <4> QED  BY <1>10, <3>1, <3>3, <4>1
    <3> QED  BY <3>2, <3>3
  <2>6. ASSUME NEW q \in Objects'  PROVE (ContextHolds(q))'
    <3>1. q \in Within(pool) /\ (At(pool, q))' = At(pool', q)
      BY <1>11, ObjectsWithin, AtPrime
    <3>2. \A x \in Registrars : (Disposes(x, q))' <=> Disposes(x, q)  BY <1>2 DEF Disposes
    <3>3. (IsHere(q))' <=> IsHere(q)  BY <2>4
    <3>4. ContextHolds(q)  BY <2>2, <3>1
    <3>5. /\ At(pool', q).watchers = IF IsHere(q) /\ At(pool', q).watching THEN 1 ELSE 0
          /\ At(pool', q).run = "live" => IsHere(q) /\ At(pool', q).watching
          /\ (IsHere(q) /\ At(pool', q).run = "disposed") => \E x \in Registrars : Disposes(x, q)
      BY <2>5, <3>1, <3>4 DEF ContextHolds
    <3>6. At(pool', q).active => At(pool', q).run = "live" /\ q[1] = current'
      <4>1. /\ At(pool', q).run = At(pool, q).run
            /\ At(pool', q).active <=> q = o
        BY <2>5, <3>1
      <4>2. o[1] = current' /\ At(pool, o).run = "live"  BY <1>2, <1>3, <2>3
      <4> QED  BY ONLY <4>1, <4>2
    <3> QED  BY ONLY <3>1, <3>2, <3>3, <3>5, <3>6 DEF ContextHolds
  <2>7. LoadsHold'
    <3> SUFFICES ASSUME NEW g \in Callers, NEW q \in loading[g]
        PROVE  /\ (IsHere(q))' /\ ~At(pool', q).watching
               /\ \A h \in Callers \ {g} : q \notin loading[h]
      BY <1>2, AtPrime DEF LoadsHold
    <3>1. q \in Within(pool)  BY <1>1, ObjectsWithin DEF RuntimeShape
    <3> QED  BY <2>2, <2>4, <2>5, <3>1 DEF LoadsHold
  <2>8. ASSUME NEW x \in Registrars  PROVE (DisposalHolds(x))'
    <3> PICK q : q = reg[x].target  OBVIOUS
    <3> SUFFICES ASSUME reg[x].pc = "dispose"
        PROVE  /\ (IsHere(q))' /\ At(pool', q).run # "live" /\ q[1] # current'
               /\ q # switch'.target /\ \A g \in Callers : q \notin loading[g]
               /\ \A y \in Registrars \ {x} : ~Disposes(y, q)
      BY <1>2, AtPrime DEF DisposalHolds, Disposes, IsHere, Here, At
    <3>1. q \in Within(pool)  BY <1>1, ObjectsWithin DEF RuntimeShape, RegShape
    <3>2. /\ IsHere(q) /\ At(pool, q).run # "live" /\ q # o
          /\ \A g \in Callers : q \notin loading[g]
          /\ \A y \in Registrars \ {x} : ~Disposes(y, q)
      BY <2>2 DEF DisposalHolds
    <3>3. q[1] # current'  BY <1>2, <1>3, <2>3, <3>2 DEF IsHere, Here
    <3>4. q # switch'.target
      <4>1. q[1] \in Ids  BY <1>1, <3>1, ShapeIndexed, WithinIs DEF Indexed
      <4> QED  BY <1>2, <4>1 DEF IdleSwitch, NoContext, None, Ids
    <3> QED  BY <2>4, <2>5, <3>1, <3>2, <3>3, <3>4
  <2>9. TargetHolds'  BY <1>2 DEF TargetHolds, Targets, IdleSwitch
  <2>10. SelectedHolds'
    <3>1. o = Here(current') /\ contexts[current'] # None
      <4>1. o[2] # 0  BY <1>1, <1>3, ShapeIndexed, WithinIs DEF Indexed
      <4> QED  BY <1>2, <1>3, <2>3, <4>1 DEF IsHere, Here, None
    <3>2. At(pool', o).run = "live" /\ At(pool', o).active  BY <1>3, <2>3, <2>5
    <3> QED  BY <1>2, <3>1, <3>2 DEF SelectedHolds, At, Here
  <2> QED  BY <2>6, <2>7, <2>8, <2>9, <2>10
<1> QED  BY <1>14, <1>15, <1>16 DEF RuntimeIInv

\* A switch to what is not selected takes the contexts.
LEMMA SwitchTakes ==
  ASSUME ProjectsIInv, NEW to \in Known \cup {GlobalView}, NEW ids \in SUBSET Ids,
         ids = IF to = GlobalView THEN Known ELSE {to},
         switch.pc = "off", loading["switch"] = {}, reg' = reg, current' = current,
         pool' = IF to = GlobalView THEN BegunIn(PoolWith(pool, ids), ids \ Unwatched(ids))
                 ELSE PoolWith(pool, ids),
         contexts' = ContextsWith(ids), Overlaps("switch", ids),
         loading' = [loading EXCEPT !["switch"] = {<<p, ContextsWith(ids)[p]>> : p \in Unwatched(ids)}]
  PROVE  /\ TakesTable("switch", ids, Unwatched(ids))
         /\ Undisturbed' => Undisturbed /\ Takes("switch", ids, Unwatched(ids))
<1>1. RuntimeShape /\ Indexed /\ "switch" \in Callers
  BY ShapeIndexed DEF ProjectsIInv, RuntimeIInv, Callers
<1>2. pool \in Pools /\ \A q \in Within(pool) : At(pool, q) \in Contexts  BY <1>1, WithinIs DEF Indexed
<1>3. /\ Made(pool', ids)
      /\ \A q \in Within(pool) :
           \/ At(pool', q) = At(pool, q)
           \/ q[1] \in ids /\ IsHere(q) /\ At(pool, q).watching /\ At(pool', q) = Begun(At(pool, q))
  <2>1. CASE to = GlobalView
    <3> PICK new : new = BegunIn(PoolWith(pool, ids), ids \ Unwatched(ids))  OBVIOUS
    <3>1. /\ Made(new, ids)
          /\ \A q \in Within(pool) : At(new, q) =
               IF q[1] \in ids /\ IsHere(q) /\ At(pool, q).watching THEN Begun(At(pool, q)) ELSE At(pool, q)
      BY <1>1, <1>2, Ensured
    <3>2. pool' = new  BY <2>1
    <3> QED  BY <3>1, <3>2
  <2>2. CASE to # GlobalView
    <3> PICK new : new = PoolWith(pool, ids)  OBVIOUS
    <3>1. Made(new, ids) /\ \A q \in Within(pool) : At(new, q) = At(pool, q)
      BY <1>1, <1>2, MadeFor
    <3>2. pool' = new  BY <2>2
    <3> QED  BY <3>1, <3>2
  <2> QED  BY <2>1, <2>2
<1>4. TakesTable("switch", ids, Unwatched(ids))
  BY <1>1, <1>3 DEF TakesTable
<1>5. ASSUME Undisturbed'  PROVE Undisturbed /\ Takes("switch", ids, Unwatched(ids))
  <2>1. Undisturbed /\ ~Taken("switch", ids)  BY <1>5 DEF Overlaps, Undisturbed
  <2>2. ASSUME NEW q \in Within(pool)  PROVE Suits(q, ids)
    <3>1. CASE At(pool', q) = At(pool, q)  BY <3>1 DEF Suits
    <3>2. CASE q[1] \in ids /\ IsHere(q) /\ At(pool, q).watching /\ At(pool', q) = Begun(At(pool, q))
      <4>1. At(pool, q) \in Contexts  BY <1>2
      <4>2. /\ At(pool', q).watching = At(pool, q).watching
            /\ At(pool', q).watchers = At(pool, q).watchers
            /\ At(pool', q).active = At(pool, q).active
            /\ At(pool', q).run = (IF At(pool, q).run = "none" THEN "live" ELSE At(pool, q).run)
        <5> PICK c : c = At(pool, q)  OBVIOUS
        <5>1. c \in Contexts /\ At(pool', q) = Begun(c)  BY <3>2, <4>1
        <5>2. /\ Begun(c).watching = c.watching /\ Begun(c).watchers = c.watchers
              /\ Begun(c).active = c.active /\ Begun(c).run = (IF c.run = "none" THEN "live" ELSE c.run)
          BY ONLY <5>1, BegunIs
        <5> QED  BY ONLY <5>1, <5>2, c = At(pool, q)
      <4> QED  BY <3>2, <4>2 DEF Suits
    <3> QED  BY <1>3, <3>1, <3>2
  <2>3. \A x \in Registrars : x # "switch"  BY CallerNames
  <2> QED  BY <1>4, <2>1, <2>2, <2>3 DEF Takes
<1> QED  BY <1>4, <1>5

LEMMA SwitchTakesKeeps ==
  ASSUME ProjectsIInv, NEW to \in Known \cup {GlobalView}, NEW ids \in SUBSET Ids,
         ids = IF to = GlobalView THEN Known ELSE {to},
         switch.pc = "off", loading["switch"] = {}, reg' = reg, current' = current,
         pool' = IF to = GlobalView THEN BegunIn(PoolWith(pool, ids), ids \ Unwatched(ids))
                 ELSE PoolWith(pool, ids),
         contexts' = ContextsWith(ids), Overlaps("switch", ids),
         loading' = [loading EXCEPT !["switch"] = {<<p, ContextsWith(ids)[p]>> : p \in Unwatched(ids)}],
         queue' \in Seq(Known \cup {GlobalView}),
         switch' = [pc |-> IF to = GlobalView THEN "ensure" ELSE "load", to |-> to,
                    target |-> IF to = GlobalView THEN NoContext ELSE <<to, ContextsWith(ids)[to]>>],
         projects' = projects, writer' = writer, job' = job, force' = force, owed' = owed,
         timer' = timer, life' = life
  PROVE  RuntimeIInv'
<1>1. RuntimeShape /\ RuntimeIInv /\ CatalogIInv /\ CatalogTypeOK /\ TimerHolds
  BY DEF ProjectsIInv, RuntimeIInv, CatalogIInv
<1>2. /\ TakesTable("switch", ids, Unwatched(ids))
      /\ Undisturbed' => Undisturbed /\ Takes("switch", ids, Unwatched(ids))
  BY SwitchTakes
<1>3. /\ Indexed' /\ Objects \subseteq Objects' /\ loading' \in [Callers -> SUBSET Objects']
      /\ \A g \in Callers \ {"switch"} : loading'[g] = loading[g]
      /\ loading'["switch"] = {<<p, ContextsWith(ids)[p]>> : p \in Unwatched(ids)}
  <2>1. loading'["switch"] = loading["switch"] \cup {<<p, ContextsWith(ids)[p]>> : p \in Unwatched(ids)}
    BY ONLY <1>1, <1>2, TakeShape
  <2>2. /\ Indexed' /\ Objects \subseteq Objects' /\ loading' \in [Callers -> SUBSET Objects']
        /\ \A g \in Callers \ {"switch"} : loading'[g] = loading[g]
    BY ONLY <1>1, <1>2, TakeShape
  <2> QED  BY <2>1, <2>2
<1>4. "job" \in Callers \ {"switch"} /\ Registrars \subseteq Callers \ {"switch"} /\ "switch" \in Callers
  BY CallerNames DEF Callers
<1>5. Known' = Known  BY DEF Known
<1>6. Made(pool', ids)  BY <1>2 DEF TakesTable
<1>7. to # GlobalView => /\ to \in Ids /\ ids = {to} /\ <<to, ContextsWith(ids)[to]>> \in Objects'
                         /\ <<to, ContextsWith(ids)[to]>> \in Refs
  <2> SUFFICES ASSUME to # GlobalView
      PROVE  to \in Ids /\ ids = {to} /\ <<to, ContextsWith(ids)[to]>> \in Objects'
             /\ <<to, ContextsWith(ids)[to]>> \in Refs
    OBVIOUS
  <2>1. to \in Ids /\ ids = {to}  BY <1>1 DEF CatalogTypeOK, Known
  <2>2. <<to, ContextsWith(ids)[to]>> \in Within(pool')  BY <1>6, <2>1 DEF Made
  <2>3. ContextsWith(ids)[to] \in Nat  BY ONLY <1>6, <2>1 DEF Made
  <2>4. to \in Nat  BY <2>1 DEF Ids
  <2> QED  BY <2>1, <2>2, <2>3, <2>4, ObjectsPrime DEF Refs
<1>8. SwitchShape'
  <2>1. CASE to = GlobalView
    <3>1. switch' = [pc |-> "ensure", to |-> GlobalView, target |-> NoContext]  BY <2>1
    <3> QED  BY <3>1 DEF SwitchShape, SwitchPcs, Targets, Refs, NoContext, None
  <2>2. CASE to # GlobalView
    <3> PICK o : o = <<to, ContextsWith(ids)[to]>>  OBVIOUS
    <3>1. switch' = [pc |-> "load", to |-> to, target |-> o] /\ o \in Refs /\ o \in Objects' /\ o[1] = to
      BY <1>7, <2>2
    <3>2. to \in Known /\ to \in Ids  BY <1>7, <2>2
    <3>3. switch' \in [pc : SwitchPcs, to : Ids \cup {None, GlobalView}, target : Refs]
      BY <3>1, <3>2 DEF SwitchPcs
    <3>4. switch'.pc = "load" /\ switch'.to = to /\ switch'.target = o  BY <3>1
    <3> QED  BY ONLY <1>5, <2>2, <3>1, <3>2, <3>3, <3>4 DEF SwitchShape, Targets
  <2> QED  BY <2>1, <2>2
<1>9. \A x \in Registrars : RegShape(x)'
  BY <1>1, <1>3, <1>4 DEF RuntimeShape, RegShape
<1>10. switch'.pc \in {"ensure", "load"}  OBVIOUS
<1>11. RuntimeShape'
  BY <1>1, <1>2, <1>3, <1>4, <1>5, <1>8, <1>9, <1>10 DEF RuntimeShape, Indexed, Pools, Overlaps
<1>12. TimerHolds'  BY <1>1 DEF TimerHolds, Global
<1>13. ASSUME Undisturbed'
       PROVE  /\ (\A q \in Objects : ContextHolds(q))' /\ LoadsHold'
              /\ (\A x \in Registrars : DisposalHolds(x))' /\ TargetHolds' /\ SelectedHolds'
  <2>1. Undisturbed /\ Takes("switch", ids, Unwatched(ids))  BY <1>2, <1>13
  <2>2. switch'.target \in {switch.target, NoContext} \cup {<<p, ContextsWith(ids)[p]>> : p \in ids}
  <3>1. CASE to = GlobalView  BY <3>1
  <3>2. CASE to # GlobalView  BY <1>7, <3>2
  <3> QED  BY <3>1, <3>2
  <2>3. (\A o \in Objects : ContextHolds(o))' /\ LoadsHold' /\ (\A x \in Registrars : DisposalHolds(x))'
    BY <1>1, <2>1, <2>2, TakeKeeps
  <2>4. SelectedHolds'  BY <1>1, <2>1, TakeSelected
  <2>5. TargetHolds'
    <3>1. CASE to = GlobalView  BY <3>1 DEF TargetHolds, Targets
    <3>2. CASE to # GlobalView
      <4> PICK o : o = <<to, ContextsWith(ids)[to]>>  OBVIOUS
      <4>1. switch'.target = o /\ switch'.pc = "load"  BY <3>2
      <4>2. loading'["switch"] = {<<p, ContextsWith(ids)[p]>> : p \in Unwatched({to})}
        BY <1>3, <1>7, <3>2
      <4>3. loading'["switch"] \subseteq {o}  BY <1>7, <3>2, <4>2 DEF Unwatched
      <4>4. o \in loading'["switch"] \/ At(pool', o).watching
        <5>1. CASE to \in Unwatched({to})  BY <1>7, <3>2, <4>2, <5>1
        <5>2. CASE to \notin Unwatched({to})
          <6>1. contexts[to] # None /\ At(pool, Here(to)).watching  BY <5>2 DEF Unwatched
          <6>2. Here(to) \in Within(pool)  BY <1>1, <1>7, <3>2, <6>1, ShapeIndexed, HereWithin
          <6>3. o = Here(to)  BY <1>1, <1>7, <3>2, <6>1 DEF ContextsWith, Here
          <6>4. At(pool', o).watching = At(pool, o).watching  BY <2>1, <6>2, <6>3 DEF Takes, Suits
          <6> QED  BY <6>1, <6>3, <6>4
        <5> QED  BY <5>1, <5>2
      <4>5. (IsHere(switch.target))' <=> o = <<o[1], contexts'[o[1]]>>  BY <4>1 DEF IsHere, Here
      <4>6. (At(pool, switch.target))' = At(pool', o)  BY <4>1 DEF At
      <4>7. o = <<o[1], contexts'[o[1]]>>  BY <1>7, <3>2
      <4> QED  BY <4>1, <4>3, <4>4, <4>5, <4>6, <4>7 DEF TargetHolds
    <3> QED  BY <3>1, <3>2
  <2> QED  BY <2>3, <2>4, <2>5
<1> QED  BY <1>11, <1>12, <1>13 DEF RuntimeIInv

LEMMA SwitchBeginsKeeps == ProjectsIInv /\ SwitchBegins => RuntimeIInv'
<1> SUFFICES ASSUME ProjectsIInv, SwitchBegins PROVE RuntimeIInv'  OBVIOUS
<1>1. RuntimeShape /\ TimerHolds /\ CatalogTypeOK  BY DEF ProjectsIInv, RuntimeIInv, CatalogIInv
<1> DEFINE to == Head(queue)
           ids == IF to = GlobalView THEN Known ELSE {to}
           goes == /\ Dequeue([pc |-> IF to = GlobalView THEN "ensure" ELSE "load", to |-> to,
                               target |-> IF to = GlobalView THEN NoContext
                                          ELSE <<to, ContextsWith(ids)[to]>>])
                   /\ pool' = IF to = GlobalView
                              THEN BegunIn(PoolWith(pool, ids), ids \ Unwatched(ids))
                              ELSE PoolWith(pool, ids)
                   /\ contexts' = ContextsWith(ids)
                   /\ loading' = [loading EXCEPT !["switch"] =
                                    {<<p, ContextsWith(ids)[p]>> : p \in Unwatched(ids)}]
                   /\ Overlaps("switch", ids)
                   /\ UNCHANGED <<job, force, owed>>
<1>2. /\ queue # <<>> /\ switch.pc = "off"
      /\ projects' = projects /\ writer' = writer /\ reg' = reg /\ life' = life
      /\ current' = current /\ timer' = timer
  BY DEF SwitchBegins, SwitchFrame, catalogVars, tables
<1>3. /\ to \in Known \cup {GlobalView} /\ Tail(queue) \in Seq(Known \cup {GlobalView})
      /\ Known' = Known /\ loading["switch"] = {} /\ timer \in BOOLEAN /\ force \in BOOLEAN
      /\ owed \subseteq Known /\ ids \in SUBSET Ids
  BY <1>1, <1>2 DEF RuntimeShape, Known, CatalogTypeOK
<1>4. ASSUME ~(life # "up" \/ (to = current /\ to # GlobalView)),
              ~(to = current /\ to = GlobalView /\ life = "up")
       PROVE  goes
  BY <1>4 DEF SwitchBegins
<1>5. ids = IF to = GlobalView THEN Known ELSE {to}  OBVIOUS
<1>6. SetAside(pool)  BY <1>2, AsideItself
<1>7. CASE /\ Dequeue(IdleSwitch)
           /\ UNCHANGED <<pool, contexts, loading, job, force, owed, torn>>
  <2>1. /\ queue' = Tail(queue) /\ switch' = IdleSwitch
        /\ pool' = pool /\ contexts' = contexts /\ loading' = loading /\ job' = job /\ force' = force
        /\ owed' = owed /\ torn' = torn
    BY <1>7 DEF Dequeue
  <2>2. (Global' /\ life = "up") => timer' \/ job.pc \notin {"off", "again"}
    BY <1>1, <1>2 DEF TimerHolds, Global
  <2> QED  BY <1>2, <1>3, <1>6, <2>1, <2>2, RestsKeep
<1>8. CASE /\ Dequeue([IdleSwitch EXCEPT !.pc = "refresh"])
           /\ RefreshGlobal(pool, TRUE) /\ owed' = owed \cup Known
  <2>1. queue' = Tail(queue) /\ switch' = [IdleSwitch EXCEPT !.pc = "refresh"]  BY <1>8 DEF Dequeue
  <2> QED  BY <1>2, <1>3, <1>6, <1>8, <2>1, RefreshKeeps
<1> HIDE DEF to, ids
<1>9. CASE goes
  <2>1. /\ queue' = Tail(queue) /\ job' = job /\ force' = force /\ owed' = owed
        /\ switch' = [pc |-> IF to = GlobalView THEN "ensure" ELSE "load", to |-> to,
                      target |-> IF to = GlobalView THEN NoContext ELSE <<to, ContextsWith(ids)[to]>>]
    BY <1>9 DEF Dequeue
  <2> QED  BY <1>2, <1>3, <1>5, <1>9, <2>1, SwitchTakesKeeps
<1>10. CASE life # "up" \/ (to = current /\ to # GlobalView)  BY <1>7, <1>10 DEF SwitchBegins, to
<1>11. CASE to = current /\ to = GlobalView /\ life = "up"  BY <1>8, <1>11 DEF SwitchBegins, to
<1>12. CASE /\ ~(life # "up" \/ (to = current /\ to # GlobalView))
            /\ ~(to = current /\ to = GlobalView /\ life = "up")
  BY <1>4, <1>9, <1>12
<1> QED  BY <1>10, <1>11, <1>12

-----------------------------------------------------------------------------
(* Registrations *)

\* The project that a registration rebuilds.
LEMMA IdOfFound ==
  ASSUME CatalogIInv, NEW x \in Registrars, writer[x].pc = "done"
  PROVE  IdOf(x) \in Ids /\ IdOf(x) \in Known
<1>1. Registered(writer[x].path)  BY DEF CatalogIInv, WriterHolds
<1>2. RecordOf(writer[x].path) \in projects  BY <1>1 DEF Registered, RecordOf
<1> QED  BY <1>2 DEF IdOf, Known, CatalogIInv, CatalogTypeOK

\* A registration takes what it may take.
LEMMA RegTakes ==
  ASSUME ProjectsIInv, NEW x \in Registrars, reg[x].pc = "off", NEW ids, NEW some,
         TakesTable(x, ids, some), Undisturbed' => Undisturbed /\ Takes(x, ids, some),
         projects' = projects, current' = current, switch' = switch, queue' = queue, job' = job,
         force' = force, timer' = timer, life' = life, owed' = owed,
         torn' \subseteq {"mutation", "context"},
         reg' \in [Registrars -> [pc : {"off", "dispose", "load", "preload"}, target : Refs]],
         \A y \in Registrars : RegShape(y)'
  PROVE  RuntimeIInv'
<1>1. RuntimeShape /\ RuntimeIInv /\ CatalogIInv /\ TimerHolds  BY DEF ProjectsIInv, RuntimeIInv
<1>2. x # "job" /\ x # "switch" /\ "job" \in Callers \ {x} /\ "switch" \in Callers \ {x}
  BY CallerNames DEF Callers
<1>3. /\ Indexed' /\ Objects \subseteq Objects' /\ loading' \in [Callers -> SUBSET Objects']
      /\ \A g \in Callers \ {x} : loading'[g] = loading[g]
  BY ONLY <1>1, TakesTable(x, ids, some), TakeShape
<1>4. Known' = Known /\ loading'["job"] = loading["job"] /\ loading'["switch"] = loading["switch"]
  BY <1>2, <1>3 DEF Known
<1>5. SwitchShape'  BY <1>1, <1>3, <1>4 DEF RuntimeShape, SwitchShape, Targets
<1>6. RuntimeShape'  BY <1>1, <1>3, <1>4, <1>5 DEF RuntimeShape, Indexed, Pools
<1>7. TimerHolds'  BY <1>1 DEF TimerHolds, Global
<1>8. ASSUME Undisturbed'
      PROVE  /\ (\A o \in Objects : ContextHolds(o))' /\ LoadsHold'
             /\ (\A y \in Registrars : DisposalHolds(y))' /\ TargetHolds' /\ SelectedHolds'
  <2>1. Undisturbed /\ Takes(x, ids, some)  BY <1>8
  <2>2. (\A o \in Objects : ContextHolds(o))' /\ LoadsHold' /\ (\A y \in Registrars : DisposalHolds(y))'
    BY <1>1, <2>1, TakeKeeps
  <2>3. TargetHolds'  BY <1>1, <1>2, <2>1, TakeTarget
  <2>4. SelectedHolds'  BY <1>1, <2>1, TakeSelected
  <2> QED  BY <2>2, <2>3, <2>4
<1> QED  BY <1>6, <1>7, <1>8 DEF RuntimeIInv

\* A registration goes on to its next await.
LEMMA RegGoesShape ==
  ASSUME RuntimeShape, NEW x \in Registrars, NEW pc \in {"dispose", "load", "preload"}, NEW o,
         o \in Refs, o \in Objects', writer[x].pc = "done", writer' = writer,
         reg' = [reg EXCEPT ![x] = [pc |-> pc, target |-> o]], Objects \subseteq Objects',
         loading'[x] = IF pc = "load" THEN {o} ELSE {},
         \A y \in Registrars \ {x} : loading'[y] = loading[y]
  PROVE  /\ \A y \in Registrars : RegShape(y)'
         /\ reg' \in [Registrars -> [pc : {"off", "dispose", "load", "preload"}, target : Refs]]
         /\ reg'[x] = [pc |-> pc, target |-> o] /\ \A y \in Registrars \ {x} : reg'[y] = reg[y]
<1>1. /\ reg' \in [Registrars -> [pc : {"off", "dispose", "load", "preload"}, target : Refs]]
      /\ reg'[x] = [pc |-> pc, target |-> o] /\ \A y \in Registrars \ {x} : reg'[y] = reg[y]
  BY DEF RuntimeShape
<1>2. ASSUME NEW y \in Registrars  PROVE RegShape(y)'
  <2>1. CASE y = x
    <3>1. reg'[y].pc = pc /\ reg'[y].target = o /\ reg'[y] \in [pc : {"off", "dispose", "load", "preload"}, target : Refs]
      BY <1>1, <2>1
    <3> QED  BY ONLY <2>1, <3>1, pc \in {"dispose", "load", "preload"}, o \in Objects', writer[x].pc = "done",
             writer' = writer, loading'[x] = IF pc = "load" THEN {o} ELSE {} DEF RegShape
  <2>2. CASE y # x
    <3>1. RegShape(y) /\ reg'[y] = reg[y] /\ loading'[y] = loading[y]  BY <1>1, <2>2 DEF RuntimeShape
    <3> QED  BY ONLY <3>1, Objects \subseteq Objects', writer' = writer DEF RegShape
  <2> QED  BY <2>1, <2>2
<1> QED  BY <1>1, <1>2

\* What a registration takes has the form of any other.
LEMMA RegSuits ==
  ASSUME ProjectsIInv, NEW x \in Registrars, reg[x].pc = "off", NEW ids, NEW some,
         TakesTable(x, ids, some), Overlaps(x, ids), current' = current,
         \A q \in Within(pool) : Suits(q, ids),
         reg'[x].pc # "dispose", \A y \in Registrars \ {x} : reg'[y] = reg[y]
  PROVE  Undisturbed' => Undisturbed /\ Takes(x, ids, some)
<1> SUFFICES ASSUME Undisturbed' PROVE Undisturbed /\ Takes(x, ids, some)  OBVIOUS
<1>1. Undisturbed /\ ~Taken(x, ids)  BY DEF Overlaps, Undisturbed
<1>2. ASSUME NEW y \in Registrars
      PROVE  /\ reg'[y].pc = "dispose" <=> reg[y].pc = "dispose"
             /\ reg[y].pc = "dispose" => reg'[y].target = reg[y].target /\ y # x
  <2>1. CASE y = x  BY <2>1
  <2>2. CASE y # x  BY <2>2
  <2> QED  BY <2>1, <2>2
<1> QED  BY <1>1, <1>2 DEF Takes

LEMMA ContinueIs ==
  ASSUME RuntimeShape, NEW x, NEW p \in Ids, Continue(x, p, pool, contexts)
  PROVE  LET o == <<p, ContextsWith({p})[p]>>
         IN \/ /\ Global /\ p \in Unwatched({p}) /\ pool' = PoolWith(pool, {p})
               /\ contexts' = ContextsWith({p}) /\ loading' = [loading EXCEPT ![x] = {o}]
               /\ reg' = [reg EXCEPT ![x] = [pc |-> "load", target |-> o]] /\ writer' = writer
            \/ /\ Global /\ p \notin Unwatched({p}) /\ o = Here(p)
               /\ pool' = Put(pool, o, Begun(At(pool, o)))
               /\ contexts' = contexts /\ loading' = loading /\ RegDone(x)
            \/ /\ ~Global /\ contexts[p] = None /\ pool' = PoolWith(pool, {p})
               /\ contexts' = ContextsWith({p}) /\ loading' = loading
               /\ reg' = [reg EXCEPT ![x] = [pc |-> "preload", target |-> o]] /\ writer' = writer
            \/ /\ ~Global /\ pool' = pool
               /\ contexts' = contexts /\ loading' = loading /\ RegDone(x)
<1> DEFINE new == contexts[p] = None
           n == IF new THEN Len(pool[p]) + 1 ELSE contexts[p]
           o == <<p, n>>
           made == IF new THEN [pool EXCEPT ![p] = Append(@, Fresh)] ELSE pool
           table == [contexts EXCEPT ![p] = o[2]]
<1>1. \/ /\ Global /\ ~At(made, o).watching /\ pool' = made /\ contexts' = table
         /\ loading' = [loading EXCEPT ![x] = {o}]
         /\ reg' = [reg EXCEPT ![x] = [pc |-> "load", target |-> o]] /\ writer' = writer
      \/ /\ Global /\ At(made, o).watching /\ pool' = [made EXCEPT ![p][o[2]] = Begun(@)]
         /\ RegDone(x) /\ contexts' = contexts /\ loading' = loading
      \/ /\ ~Global /\ p # current /\ new /\ pool' = made /\ contexts' = table
         /\ reg' = [reg EXCEPT ![x] = [pc |-> "preload", target |-> o]]
         /\ loading' = loading /\ writer' = writer
      \/ /\ ~Global /\ RegDone(x) /\ pool' = pool /\ contexts' = contexts /\ loading' = loading
  BY DEF Continue
<1>2. Indexed  BY ShapeIndexed
<1>3. made = PoolWith(pool, {p})  BY <1>2 DEF PoolWith, Indexed, Pools
<1>4. ContextsWith({p})[p] = n  BY DEF ContextsWith
<1>5. table = ContextsWith({p})  BY <1>2 DEF ContextsWith, Indexed
<1>6. new => At(made, o) = Fresh
  <2>1. pool[p] \in Seq(Contexts) /\ Len(pool[p]) \in Nat  BY <1>2 DEF Indexed, Pools
  <2>2. Append(pool[p], Fresh)[Len(pool[p]) + 1] = Fresh  BY <2>1, FreshContext
  <2> QED  BY <1>2, <2>2 DEF At, Indexed, Pools
<1>7. ~new => made = pool /\ o = Here(p)  BY DEF Here
<1>8. p \in Unwatched({p}) <=> new \/ ~At(pool, Here(p)).watching  BY DEF Unwatched
<1>9. ~At(made, o).watching <=> p \in Unwatched({p})
  BY <1>6, <1>7, <1>8, FreshContext
<1> HIDE DEF table
<1>10. CASE /\ Global /\ At(made, o).watching /\ pool' = [made EXCEPT ![p][o[2]] = Begun(@)]
            /\ RegDone(x) /\ contexts' = contexts /\ loading' = loading
  <2>1. ~new /\ p \notin Unwatched({p})  BY <1>8, <1>9, <1>10
  <2>2. o = Here(p) /\ pool' = [pool EXCEPT ![p][o[2]] = Begun(@)]  BY <1>7, <1>10, <2>1
  <2>3. pool' = Put(pool, o, Begun(At(pool, o)))  BY <2>2 DEF Put, At
  <2> HIDE DEF made, n, new
  <2> QED  BY <1>4, <1>10, <2>1, <2>2, <2>3
<1> HIDE DEF made, n
<1> QED  BY <1>1, <1>3, <1>4, <1>5, <1>9, <1>10

\* A registration that disposes of nothing first.
LEMMA RegContinues ==
  ASSUME ProjectsIInv, NEW x \in Registrars, NEW p \in Ids, writer[x].pc = "done", reg[x].pc = "off",
         Continue(x, p, pool, contexts), Overlaps(x, IF Global THEN {p} ELSE {}),
         projects' = projects, current' = current, switch' = switch, queue' = queue, job' = job,
         force' = force, timer' = timer, life' = life, owed' = owed
  PROVE  RuntimeIInv'
<1>1. /\ RuntimeShape /\ RuntimeIInv /\ CatalogIInv /\ CatalogTypeOK /\ Indexed
      /\ pool \in Pools /\ loading \in [Callers -> SUBSET Objects]
  BY ShapeIndexed DEF ProjectsIInv, RuntimeIInv, CatalogIInv, RuntimeShape, Pools
<1>2. /\ loading[x] = {} /\ x \in Callers /\ torn' \subseteq {"mutation", "context"}
      /\ Registrars \subseteq Callers
  BY <1>1 DEF RuntimeShape, RegShape, Callers, Overlaps
<1> PICK o : o = <<p, ContextsWith({p})[p]>>  OBVIOUS
<1>3. PICK made : made = PoolWith(pool, {p})  OBVIOUS
<1>4. /\ Made(made, {p}) /\ \A q \in Within(pool) : At(made, q) = At(pool, q)
  BY <1>1, <1>3, MadeFor
<1>5. o \in Refs /\ o \in Within(made)
  <2>1. ContextsWith({p})[p] \in Nat  BY <1>4 DEF Made
  <2>2. p \in Nat  BY DEF Ids
  <2> QED  BY <1>4, <2>1, <2>2 DEF Made, Refs
<1>6. \A q \in Within(pool) : At(pool, q) \in Contexts  BY <1>1, WithinIs
<1>7. CASE /\ Global /\ p \in Unwatched({p}) /\ pool' = PoolWith(pool, {p})
           /\ contexts' = ContextsWith({p}) /\ loading' = [loading EXCEPT ![x] = {o}]
           /\ reg' = [reg EXCEPT ![x] = [pc |-> "load", target |-> o]] /\ writer' = writer
  <2>1. pool' = made /\ Overlaps(x, {p})  BY <1>3, <1>7
  <2>2. TakesTable(x, {p}, {p})
    <3>1. loading' = [loading EXCEPT ![x] = @ \cup {<<q, ContextsWith({p})[q]>> : q \in {p}}]
      BY <1>1, <1>2, <1>7
    <3> QED  BY <1>2, <1>4, <1>7, <2>1, <3>1 DEF TakesTable
  <2>3. Objects \subseteq Objects' /\ o \in Objects'
    BY <1>4, <1>5, <2>1, ObjectsWithin, ObjectsPrime DEF Made
  <2>4. loading'[x] = {o} /\ \A y \in Registrars \ {x} : loading'[y] = loading[y]
    BY <1>1, <1>2, <1>7
  <2>5. /\ \A y \in Registrars : RegShape(y)'
        /\ reg' \in [Registrars -> [pc : {"off", "dispose", "load", "preload"}, target : Refs]]
        /\ reg'[x] = [pc |-> "load", target |-> o] /\ \A y \in Registrars \ {x} : reg'[y] = reg[y]
    BY <1>1, <1>5, <1>7, <2>3, <2>4, RegGoesShape
  <2>6. \A q \in Within(pool) : Suits(q, {p})  BY <1>4, <2>1 DEF Suits
  <2>7. Undisturbed' => Undisturbed /\ Takes(x, {p}, {p})
    <3>1. reg'[x].pc # "dispose" /\ \A y \in Registrars \ {x} : reg'[y] = reg[y]  BY <2>5
    <3>2. current' = current /\ reg[x].pc = "off" /\ ProjectsIInv  OBVIOUS
    <3> QED  BY ONLY <2>1, <2>2, <2>6, <3>1, <3>2, x \in Registrars, RegSuits
  <2> QED  BY <1>2, <2>2, <2>5, <2>7, RegTakes
<1>8. CASE /\ Global /\ p \notin Unwatched({p}) /\ o = Here(p)
           /\ pool' = Put(pool, o, Begun(At(pool, o)))
           /\ contexts' = contexts /\ loading' = loading /\ RegDone(x)
  <2>1. Overlaps(x, {p}) /\ contexts[p] # None /\ At(pool, o).watching  BY <1>8 DEF Unwatched
  <2>2. /\ o \in Within(pool) /\ IsHere(o) /\ o[1] = p /\ At(pool, o) \in Contexts
        /\ Begun(At(pool, o)) \in Contexts
    BY <1>1, <1>8, <2>1, HereWithin, BegunIs DEF Here
  <2>3. /\ pool' \in Pools /\ \A q \in Ids : Len(pool'[q]) = Len(pool[q])
        /\ Within(pool') = Within(pool) /\ At(pool', o) = Begun(At(pool, o))
        /\ \A q \in Within(pool) : q # o => At(pool', q) = At(pool, q)
    <3>1. LET new == Put(pool, o, Begun(At(pool, o)))
          IN  /\ new \in Pools /\ \A q \in Ids : Len(new[q]) = Len(pool[q])
              /\ Within(new) = Within(pool) /\ At(new, o) = Begun(At(pool, o))
              /\ \A q \in Within(pool) : q # o => At(new, q) = At(pool, q)
      BY ONLY <1>1, <2>2, PoolPut
    <3> QED  BY ONLY <1>8, <3>1
  <2>4. ContextsWith({p}) = contexts  BY <1>1, <2>1 DEF ContextsWith, Indexed
  <2>5. Made(pool', {p})
    <3>1. contexts \in [Ids -> Nat] /\ \A q \in Ids : contexts[q] <= Len(pool'[q])
      BY <1>1, <2>3 DEF Indexed
    <3> QED  BY <1>8, <2>1, <2>2, <2>3, <2>4, <3>1 DEF Made, Here
  <2>6. TakesTable(x, {p}, {})
    <3>1. loading = [loading EXCEPT ![x] = @ \cup {<<q, ContextsWith({p})[q]>> : q \in {}}]
      BY <1>1
    <3> QED  BY <1>2, <1>8, <2>4, <2>5, <3>1 DEF TakesTable
  <2>7. \A q \in Within(pool) : Suits(q, {p})
    <3> SUFFICES ASSUME NEW q \in Within(pool) PROVE Suits(q, {p})  OBVIOUS
    <3>1. CASE q = o
      <4>1. /\ At(pool', o).watching = At(pool, o).watching
            /\ At(pool', o).watchers = At(pool, o).watchers
            /\ At(pool', o).active = At(pool, o).active
            /\ At(pool', o).run = (IF At(pool, o).run = "none" THEN "live" ELSE At(pool, o).run)
        BY <2>2, <2>3, BegunIs
      <4> QED  BY <2>1, <2>2, <3>1, <4>1 DEF Suits
    <3>2. CASE q # o  BY <2>3, <3>2 DEF Suits
    <3> QED  BY <3>1, <3>2
  <2>8. Objects' = Objects  BY <2>3, ObjectsWithin, ObjectsPrime
  <2>9. /\ \A y \in Registrars : RegShape(y)'
        /\ reg' \in [Registrars -> [pc : {"off", "dispose", "load", "preload"}, target : Refs]]
        /\ reg'[x] = IdleReg /\ \A y \in Registrars \ {x} : reg'[y] = reg[y]
    BY <1>1, <1>2, <1>8, <2>8, RegDoneShape
  <2>10. Undisturbed' => Undisturbed /\ Takes(x, {p}, {})
    <3>1. reg'[x].pc # "dispose" /\ \A y \in Registrars \ {x} : reg'[y] = reg[y]
      BY <2>9 DEF IdleReg
    <3>2. current' = current /\ reg[x].pc = "off" /\ ProjectsIInv  OBVIOUS
    <3> QED  BY ONLY <2>1, <2>6, <2>7, <3>1, <3>2, x \in Registrars, RegSuits
  <2> QED  BY <1>2, <2>6, <2>9, <2>10, RegTakes
<1>9. CASE /\ ~Global /\ contexts[p] = None /\ pool' = PoolWith(pool, {p})
           /\ contexts' = ContextsWith({p}) /\ loading' = loading
           /\ reg' = [reg EXCEPT ![x] = [pc |-> "preload", target |-> o]] /\ writer' = writer
  <2>1. pool' = made /\ Overlaps(x, {p})
    <3>1. Overlaps(x, {}) /\ ~Taken(x, {}) /\ ~Taken(x, {p})  BY <1>9 DEF Taken
    <3> QED  BY <1>3, <1>9, <3>1 DEF Overlaps
  <2>2. TakesTable(x, {p}, {})
    <3>1. loading = [loading EXCEPT ![x] = @ \cup {<<q, ContextsWith({p})[q]>> : q \in {}}]
      BY <1>1
    <3> QED  BY <1>2, <1>4, <1>9, <2>1, <3>1 DEF TakesTable
  <2>3. Objects \subseteq Objects' /\ o \in Objects'
    BY <1>4, <1>5, <2>1, ObjectsWithin, ObjectsPrime DEF Made
  <2>4. loading'[x] = {}  BY <1>2, <1>9
  <2>5. /\ \A y \in Registrars : RegShape(y)'
        /\ reg' \in [Registrars -> [pc : {"off", "dispose", "load", "preload"}, target : Refs]]
        /\ reg'[x] = [pc |-> "preload", target |-> o] /\ \A y \in Registrars \ {x} : reg'[y] = reg[y]
    BY <1>1, <1>5, <1>9, <2>3, <2>4, RegGoesShape
  <2>6. \A q \in Within(pool) : Suits(q, {p})  BY <1>4, <2>1 DEF Suits
  <2>7. Undisturbed' => Undisturbed /\ Takes(x, {p}, {})
    <3>1. reg'[x].pc # "dispose" /\ \A y \in Registrars \ {x} : reg'[y] = reg[y]  BY <2>5
    <3>2. current' = current /\ reg[x].pc = "off" /\ ProjectsIInv  OBVIOUS
    <3> QED  BY ONLY <2>1, <2>2, <2>6, <3>1, <3>2, x \in Registrars, RegSuits
  <2> QED  BY <1>2, <2>2, <2>5, <2>7, RegTakes
<1>10. CASE /\ ~Global /\ pool' = pool
            /\ contexts' = contexts /\ loading' = loading /\ RegDone(x)
  <2>1. Overlaps(x, {})  BY <1>10
  <2>2. ContextsWith({}) = contexts  BY <1>1 DEF ContextsWith, Indexed
  <2>3. Made(pool', {})  BY <1>1, <1>10, <2>2 DEF Made, Indexed
  <2>4. TakesTable(x, {}, {})
    <3>1. loading = [loading EXCEPT ![x] = @ \cup {<<q, ContextsWith({})[q]>> : q \in {}}]
      BY <1>1
    <3> QED  BY <1>2, <1>10, <2>2, <2>3, <3>1 DEF TakesTable
  <2>5. \A q \in Within(pool) : Suits(q, {})  BY <1>10 DEF Suits
  <2>6. Objects' = Objects  BY <1>10, ObjectsWithin, ObjectsPrime
  <2>7. /\ \A y \in Registrars : RegShape(y)'
        /\ reg' \in [Registrars -> [pc : {"off", "dispose", "load", "preload"}, target : Refs]]
        /\ reg'[x] = IdleReg /\ \A y \in Registrars \ {x} : reg'[y] = reg[y]
    BY <1>1, <1>2, <1>10, <2>6, RegDoneShape
  <2>8. Undisturbed' => Undisturbed /\ Takes(x, {}, {})
    BY <2>1, <2>4, <2>5, <2>7, RegSuits DEF IdleReg
  <2> QED  BY <1>2, <2>4, <2>7, <2>8, RegTakes
<1> QED  BY <1>1, <1>7, <1>8, <1>9, <1>10, ContinueIs

\* A registration disposes of the context that its project has.
LEMMA RegDisposes ==
  ASSUME ProjectsIInv, NEW x \in Registrars, NEW p \in Ids, writer[x].pc = "done", reg[x].pc = "off",
         MayDispose(p), pool' = [pool EXCEPT ![p][contexts[p]] = Disposing(@)],
         reg' = [reg EXCEPT ![x] = [pc |-> "dispose", target |-> Here(p)]],
         torn' = torn \cup (IF Taken(x, {p}) \/ switch.target = Here(p) THEN {"context"} ELSE {}),
         contexts' = contexts, loading' = loading, writer' = writer,
         projects' = projects, current' = current, switch' = switch, queue' = queue, job' = job,
         force' = force, timer' = timer, life' = life, owed' = owed
  PROVE  RuntimeIInv'
<1>1. /\ RuntimeShape /\ RuntimeIInv /\ TimerHolds /\ CatalogTypeOK /\ Indexed /\ pool \in Pools
      /\ Objects = Within(pool)
  BY ShapeIndexed, ObjectsWithin DEF ProjectsIInv, RuntimeIInv, CatalogIInv, RuntimeShape, Pools
<1>2. contexts[p] # None /\ p # current /\ ~Global  BY DEF MayDispose
<1> PICK o : o = Here(p)  OBVIOUS
<1>3. o \in Objects /\ IsHere(o) /\ o[1] = p /\ At(pool, o) \in Contexts /\ o \in Refs
  <2>1. contexts[p] \in Nat /\ p \in Nat  BY <1>1 DEF Indexed, Ids
  <2> QED  BY <1>1, <1>2, <2>1, HereWithin DEF Here, Refs
<1> PICK v : v = Disposing(At(pool, o))  OBVIOUS
<1>4. /\ v \in Contexts /\ v.watching = At(pool, o).watching
      /\ v.watchers = At(pool, o).watchers /\ v.active = FALSE
      /\ v.run = (IF At(pool, o).run = "live" THEN "disposed" ELSE At(pool, o).run)
  BY <1>3, DisposingIs
<1>5. /\ Indexed' /\ Objects' = Objects /\ At(pool', o) = v
      /\ \A q \in Objects : q # o => At(pool', q) = At(pool, q)
      /\ \A q : (IsHere(q))' <=> IsHere(q)
  <2>1. pool' = [pool EXCEPT ![o[1]][o[2]] = v]  BY DEF Here, At
  <2> QED  BY ONLY <1>1, <1>3, <1>4, <2>1, contexts' = contexts, PutShape
<1>6. loading[x] = {} /\ Registrars \subseteq Callers
  BY <1>1 DEF RuntimeShape, RegShape, Callers
<1>7. /\ \A y \in Registrars : RegShape(y)'
      /\ reg' \in [Registrars -> [pc : {"off", "dispose", "load", "preload"}, target : Refs]]
      /\ reg'[x] = [pc |-> "dispose", target |-> o] /\ \A y \in Registrars \ {x} : reg'[y] = reg[y]
  BY <1>1, <1>3, <1>5, <1>6, RegGoesShape
<1>8. Known' = Known /\ torn' \subseteq {"mutation", "context"}  BY <1>1 DEF Known, RuntimeShape
<1>9. SwitchShape'  BY <1>1, <1>5, <1>8 DEF RuntimeShape, SwitchShape, Targets
<1>10. RuntimeShape'
  BY <1>1, <1>5, <1>7, <1>8, <1>9 DEF RuntimeShape, Indexed, Pools
<1>11. TimerHolds'  BY <1>1 DEF TimerHolds, Global
<1>12. ASSUME Undisturbed'
       PROVE  /\ (\A q \in Objects : ContextHolds(q))' /\ LoadsHold'
              /\ (\A y \in Registrars : DisposalHolds(y))' /\ TargetHolds' /\ SelectedHolds'
  <2>1. Undisturbed /\ ~Taken(x, {p}) /\ switch.target # o  BY <1>12 DEF Undisturbed
  <2>2. /\ LoadsHold /\ (\A q \in Objects : ContextHolds(q)) /\ TargetHolds
        /\ (\A y \in Registrars : DisposalHolds(y)) /\ SelectedHolds
    BY <1>1, <2>1 DEF RuntimeIInv
  <2>3. \A g \in Callers : o \notin loading[g]
    BY <1>2, <1>6, <2>1 DEF Taken
  <2>4. \A y \in Registrars : ~Disposes(y, o)
    <3> SUFFICES ASSUME NEW y \in Registrars PROVE ~Disposes(y, o)  OBVIOUS
    <3>1. CASE y = x  BY <3>1 DEF Disposes
    <3>2. CASE y # x  BY <1>2, <1>6, <2>1, <3>2 DEF Taken, Disposes
    <3> QED  BY <3>1, <3>2
  <2>5. \A q : \A y \in Registrars : (Disposes(y, q))' <=> (Disposes(y, q) \/ (y = x /\ q = o))
    <3> SUFFICES ASSUME NEW q, NEW y \in Registrars
        PROVE (Disposes(y, q))' <=> (Disposes(y, q) \/ (y = x /\ q = o))
      OBVIOUS
    <3>1. CASE y = x
      <4>1. reg'[y].pc = "dispose" /\ reg'[y].target = o  BY <1>7, <3>1
      <4> QED  BY <3>1, <4>1 DEF Disposes
    <3>2. CASE y # x  BY <1>7, <3>2 DEF Disposes
    <3> QED  BY <3>1, <3>2
  <2>6. ASSUME NEW q \in Objects'  PROVE (ContextHolds(q))'
    <3>1. q \in Objects /\ (At(pool, q))' = At(pool', q) /\ ((IsHere(q))' <=> IsHere(q)) /\ ContextHolds(q)
      BY <1>5, <2>2, AtPrime
    <3>2. CASE q = o
      <4>1. /\ v.watchers = IF IsHere(q) /\ v.watching THEN 1 ELSE 0
            /\ v.run # "live" /\ ~v.active
        BY <1>4, <3>1, <3>2 DEF ContextHolds
      <4>2. \E y \in Registrars : (Disposes(y, q))'  BY <2>5, <3>2
      <4> QED  BY <1>5, <3>1, <3>2, <4>1, <4>2 DEF ContextHolds
    <3>3. CASE q # o
      <4>1. \A y \in Registrars : (Disposes(y, q))' <=> Disposes(y, q)  BY <2>5, <3>3
      <4> QED  BY <1>5, <3>1, <3>3, <4>1 DEF ContextHolds
    <3> QED  BY <3>2, <3>3
  <2>7. LoadsHold'
    <3> SUFFICES ASSUME NEW g \in Callers, NEW q \in loading[g]
        PROVE  /\ (IsHere(q))' /\ ~At(pool', q).watching
               /\ \A h \in Callers \ {g} : q \notin loading[h]
      BY AtPrime DEF LoadsHold
    <3>1. q \in Objects /\ q # o  BY <1>1, <2>3 DEF RuntimeShape
    <3> QED  BY <1>5, <2>2, <3>1 DEF LoadsHold
  <2>8. ASSUME NEW y \in Registrars  PROVE (DisposalHolds(y))'
    <3> PICK q : q = reg'[y].target  OBVIOUS
    <3> SUFFICES ASSUME reg'[y].pc = "dispose"
        PROVE  /\ (IsHere(q))' /\ At(pool', q).run # "live" /\ q[1] # current /\ q # switch.target
               /\ \A g \in Callers : q \notin loading[g]
               /\ \A z \in Registrars \ {y} : ~(reg'[z].pc = "dispose" /\ reg'[z].target = q)
      BY AtPrime DEF DisposalHolds, Disposes, IsHere, Here, At
    <3>1. CASE y = x
      <4>1. q = o  BY <1>7, <3>1
      <4>2. \A z \in Registrars \ {y} : ~(reg'[z].pc = "dispose" /\ reg'[z].target = q)
        BY <1>7, <2>4, <3>1, <4>1 DEF Disposes
      <4>3. v.run # "live"  BY <1>4
      <4> QED  BY <1>2, <1>3, <1>5, <2>1, <2>3, <4>1, <4>2, <4>3
    <3>2. CASE y # x
      <4>1. reg[y].pc = "dispose" /\ q = reg[y].target  BY <1>7, <3>2
      <4>2. q # o  BY <2>4, <4>1 DEF Disposes
      <4>3. /\ IsHere(q) /\ At(pool, q).run # "live" /\ q[1] # current /\ q # switch.target
            /\ \A g \in Callers : q \notin loading[g]
            /\ \A z \in Registrars \ {y} : ~Disposes(z, q)
        BY <2>2, <4>1 DEF DisposalHolds
      <4>4. q \in Objects  BY <1>1, <4>1 DEF RuntimeShape, RegShape
      <4>5. \A z \in Registrars \ {y} : ~(reg'[z].pc = "dispose" /\ reg'[z].target = q)
        <5> SUFFICES ASSUME NEW z \in Registrars \ {y}  PROVE ~(reg'[z].pc = "dispose" /\ reg'[z].target = q)
          OBVIOUS
        <5>1. CASE z = x
          <6>1. reg'[z].target = o  BY <1>7, <5>1
          <6> QED  BY <4>2, <6>1
        <5>2. CASE z # x  BY <1>7, <4>3, <5>2 DEF Disposes
        <5> QED  BY <5>1, <5>2
      <4> QED  BY <1>5, <4>2, <4>3, <4>4, <4>5
    <3> QED  BY <3>1, <3>2
  <2>9. TargetHolds'
    <3> SUFFICES ASSUME Targets
        PROVE /\ (IsHere(switch.target))'
              /\ switch.target \in loading["switch"] \/ At(pool', switch.target).watching
              /\ loading["switch"] \subseteq {switch.target}
              /\ switch.pc = "commit" => At(pool', switch.target).run = "live"
      BY DEF TargetHolds, Targets, At
    <3>1. At(pool', switch.target) = At(pool, switch.target)
      BY <1>1, <1>5, <2>1 DEF RuntimeShape, SwitchShape
    <3>2. (IsHere(switch.target))' <=> IsHere(switch.target)  BY DEF IsHere, Here
    <3> QED  BY <2>2, <3>1, <3>2 DEF TargetHolds
  <2>10. SelectedHolds'
    <3> SUFFICES ASSUME life # "stopped"
        PROVE /\ contexts[current] # None /\ At(pool', Here(current)).run = "live"
              /\ At(pool', Here(current)).active
      BY DEF SelectedHolds, At, Here
    <3>1. /\ contexts[current] # None /\ At(pool, Here(current)).run = "live"
          /\ At(pool, Here(current)).active
      BY <1>2, <2>2 DEF SelectedHolds
    <3>2. current \in Ids  BY <1>1, <1>2 DEF RuntimeShape, Global, Known, CatalogTypeOK
    <3>3. Here(current) \in Objects /\ Here(current) # o
      BY <1>1, <1>2, <1>3, <3>1, <3>2, HereWithin DEF Here
    <3> QED  BY <1>5, <3>1, <3>3
  <2> QED  BY <2>6, <2>7, <2>8, <2>9, <2>10
<1> QED  BY <1>10, <1>11, <1>12 DEF RuntimeIInv

LEMMA RegBeginsKeeps == ASSUME NEW x \in Registrars PROVE ProjectsIInv /\ RegBegins(x) => RuntimeIInv'
<1> SUFFICES ASSUME ProjectsIInv, RegBegins(x) PROVE RuntimeIInv'  OBVIOUS
<1> PICK p : p = IdOf(x)  OBVIOUS
<1>1. /\ writer[x].pc = "done" /\ reg[x].pc = "off"
      /\ projects' = projects /\ current' = current /\ switch' = switch /\ queue' = queue /\ job' = job
      /\ force' = force /\ timer' = timer /\ life' = life /\ owed' = owed
  BY DEF RegBegins, InWriter, RegFrame, tables
<1>2. p \in Ids  BY <1>1, IdOfFound DEF ProjectsIInv
<1>3. CASE MayDispose(p)
  <2>1. /\ pool' = [pool EXCEPT ![p][contexts[p]] = Disposing(@)]
        /\ reg' = [reg EXCEPT ![x] = [pc |-> "dispose", target |-> Here(p)]]
        /\ torn' = torn \cup (IF Taken(x, {p}) \/ switch.target = Here(p) THEN {"context"} ELSE {})
        /\ contexts' = contexts /\ loading' = loading /\ writer' = writer
    BY <1>3 DEF RegBegins
  <2> QED  BY <1>1, <1>2, <1>3, <2>1, RegDisposes
<1>4. CASE ~MayDispose(p)
  <2>1. Continue(x, p, pool, contexts) /\ Overlaps(x, IF Global THEN {p} ELSE {})
    BY <1>4 DEF RegBegins
  <2> QED  BY <1>1, <1>2, <2>1, RegContinues
<1> QED  BY <1>3, <1>4

\* The disposal is over: the context is forgotten, and a new one takes its place.
LEMMA ContinueAnew ==
  ASSUME Indexed, NEW x, NEW p \in Ids, NEW pl \in Pools, \A q \in Ids : Len(pl[q]) = Len(pool[q]),
         Continue(x, p, pl, [contexts EXCEPT ![p] = None])
  PROVE  LET n == <<p, Len(pool[p]) + 1>>
         IN \/ /\ pool' = Appended(pl, {p}) /\ contexts' = [contexts EXCEPT ![p] = n[2]]
               /\ writer' = writer
               /\ \/ /\ reg' = [reg EXCEPT ![x] = [pc |-> "load", target |-> n]]
                     /\ loading' = [loading EXCEPT ![x] = {n}]
                  \/ /\ reg' = [reg EXCEPT ![x] = [pc |-> "preload", target |-> n]]
                     /\ loading' = loading
            \/ /\ ~Global /\ p = current /\ pool' = pl
               /\ contexts' = [contexts EXCEPT ![p] = None] /\ loading' = loading /\ RegDone(x)
<1> DEFINE tbl == [contexts EXCEPT ![p] = None]
           new == tbl[p] = None
           o == <<p, IF new THEN Len(pl[p]) + 1 ELSE tbl[p]>>
           made == IF new THEN [pl EXCEPT ![p] = Append(@, Fresh)] ELSE pl
           table == [tbl EXCEPT ![p] = o[2]]
           n == <<p, Len(pool[p]) + 1>>
<1>1. \/ /\ Global /\ ~At(made, o).watching /\ pool' = made /\ contexts' = table
         /\ loading' = [loading EXCEPT ![x] = {o}]
         /\ reg' = [reg EXCEPT ![x] = [pc |-> "load", target |-> o]] /\ writer' = writer
      \/ Global /\ At(made, o).watching
      \/ /\ ~Global /\ p # current /\ pool' = made /\ contexts' = table
         /\ reg' = [reg EXCEPT ![x] = [pc |-> "preload", target |-> o]]
         /\ loading' = loading /\ writer' = writer
      \/ /\ ~Global /\ ~(p # current /\ new) /\ RegDone(x) /\ pool' = pl /\ contexts' = tbl
         /\ loading' = loading
  BY DEF Continue
<1>2. new  BY DEF Indexed
<1>3. o = n  BY <1>2
<1>4. made = Appended(pl, {p})  BY <1>2 DEF Appended, Pools
<1>5. table = [contexts EXCEPT ![p] = n[2]]  BY <1>2, <1>3 DEF Indexed
<1>6. ~At(made, n).watching
  <2>1. n \in Within(made) \ Within(pl) /\ \A q \in Within(made) \ Within(pl) : At(made, q) = Fresh
    <3> PICK ids : ids = {p}  OBVIOUS
    <3>1. ids \in SUBSET Ids /\ made = Appended(pl, ids) /\ p \in ids /\ n = <<p, Len(pl[p]) + 1>>
      BY <1>4
    <3> HIDE DEF made, n
    <3> QED  BY <3>1, PoolAppends
  <2> QED  BY <2>1, FreshContext
<1> HIDE DEF new, made, table, o, n, tbl
<1> QED  BY <1>1, <1>2, <1>3, <1>4, <1>5, <1>6 DEF tbl, n

\* The table after it.
LEMMA AnewShape ==
  ASSUME Indexed, NEW o \in Within(pool), NEW v \in Contexts, NEW pl, pl = Put(pool, o, v),
         pool' = Appended(pl, {o[1]}), contexts' = [contexts EXCEPT ![o[1]] = Len(pool[o[1]]) + 1]
  PROVE  LET n == <<o[1], Len(pool[o[1]]) + 1>>
         IN /\ Indexed' /\ Objects \subseteq Objects' /\ n \in Refs /\ n \in Objects' /\ n \notin Objects
            /\ At(pool', n) = Fresh /\ At(pool', o) = v
            /\ \A q \in Objects : q # o => At(pool', q) = At(pool, q)
            /\ \A q \in Objects' \ Objects : q = n
            /\ n = <<n[1], contexts'[n[1]]>>
            /\ \A q \in Objects : (IsHere(q))' <=> (IsHere(q) /\ q[1] # o[1])
<1> DEFINE p == o[1]
           n == <<p, Len(pool[p]) + 1>>
<1>1. /\ pool \in Pools /\ p \in Ids /\ Len(pool[p]) \in Nat /\ contexts \in [Ids -> Nat]
      /\ \A q \in Ids : contexts[q] <= Len(pool[q]) /\ Len(pool[q]) \in Nat
  BY WithinIs DEF Indexed, Pools
<1>2. /\ pl \in Pools /\ \A q \in Ids : Len(pl[q]) = Len(pool[q])
      /\ Within(pl) = Within(pool) /\ At(pl, o) = v
      /\ \A q \in Within(pool) : q # o => At(pl, q) = At(pool, q)
  <2>1. LET new == Put(pool, o, v)
        IN  /\ new \in Pools /\ \A q \in Ids : Len(new[q]) = Len(pool[q])
            /\ Within(new) = Within(pool) /\ At(new, o) = v
            /\ \A q \in Within(pool) : q # o => At(new, q) = At(pool, q)
    BY ONLY <1>1, o \in Within(pool), v \in Contexts, PoolPut
  <2> QED  BY <2>1
<1> PICK ids : ids = {p}  OBVIOUS
<1>3. /\ pool' \in Pools
      /\ \A q \in Ids : Len(pool'[q]) = IF q \in ids THEN Len(pl[q]) + 1 ELSE Len(pl[q])
      /\ Within(pl) \subseteq Within(pool')
      /\ \A q \in Within(pl) : At(pool', q) = At(pl, q)
      /\ \A q \in Within(pool') \ Within(pl) :
           q[1] \in ids /\ q = <<q[1], Len(pl[q[1]]) + 1>> /\ At(pool', q) = Fresh
      /\ \A q \in ids : <<q, Len(pl[q]) + 1>> \in Within(pool') \ Within(pl)
  <2>1. ids \in SUBSET Ids /\ pool' = Appended(pl, ids)  BY <1>1
  <2> QED  BY ONLY <1>2, <2>1, PoolAppends
<1>4. n \in Within(pool') \ Within(pool)
  <2>1. p \in ids /\ n = <<p, Len(pl[p]) + 1>>  BY <1>1, <1>2
  <2> HIDE DEF n
  <2> QED  BY <1>2, <1>3, <2>1
<1>5. ASSUME NEW q \in Within(pool') \ Within(pool)  PROVE q = n /\ At(pool', q) = Fresh
  <2>1. q[1] \in ids /\ q = <<q[1], Len(pl[q[1]]) + 1>> /\ At(pool', q) = Fresh  BY <1>2, <1>3
  <2>2. q[1] = p /\ Len(pl[p]) = Len(pool[p])  BY <1>1, <1>2, <2>1
  <2> QED  BY <2>1, <2>2
<1>6. n \in Refs  BY <1>1 DEF Refs, Ids
<1>7. contexts' \in [Ids -> Nat] /\ contexts'[p] = Len(pool[p]) + 1
      /\ \A q \in Ids \ {p} : contexts'[q] = contexts[q]
  BY <1>1
<1>8. Indexed'
  <2>1. ASSUME NEW q \in Ids  PROVE contexts'[q] <= Len(pool'[q])
    <3>1. /\ contexts[q] <= Len(pool[q]) /\ Len(pool[q]) \in Nat /\ contexts[q] \in Nat
          /\ Len(pl[q]) = Len(pool[q])
      BY <1>1, <1>2
    <3>2. CASE q = p
      <4>1. Len(pool'[q]) = Len(pool[q]) + 1 /\ contexts'[q] = Len(pool[q]) + 1
        BY <1>3, <1>7, <3>1, <3>2
      <4> QED  BY <3>1, <4>1
    <3>3. CASE q # p
      <4>1. Len(pool'[q]) = Len(pool[q]) /\ contexts'[q] = contexts[q]
        BY <1>3, <1>7, <3>1, <3>3
      <4> QED  BY <3>1, <4>1
    <3> QED  BY <3>2, <3>3
  <2>2. pool' \in Pools /\ contexts' \in [Ids -> Nat]  BY <1>3, <1>7
  <2> QED  BY <2>1, <2>2 DEF Indexed, Pools
<1>9. n = <<n[1], contexts'[n[1]]>>  BY <1>7
<1>10. ASSUME NEW q \in Within(pool)  PROVE (IsHere(q))' <=> (IsHere(q) /\ q[1] # p)
  <2>1. q[1] \in Ids  BY WithinIs, <1>1
  <2>2. CASE q[1] = p
    <3>1. q # n  BY <1>4
    <3> QED  BY <1>7, <2>2, <3>1, IsHerePrime
  <2>3. CASE q[1] # p  BY <1>7, <2>1, <2>3, IsHerePrime DEF IsHere, Here
  <2> QED  BY <2>2, <2>3
<1> HIDE DEF n
<1>11. At(pool', o) = v /\ \A q \in Within(pool) : q # o => At(pool', q) = At(pool, q)
  BY <1>2, <1>3
<1>12. Objects = Within(pool) /\ Objects' = Within(pool')  BY ObjectsWithin, ObjectsPrime
<1> QED  BY <1>2, <1>3, <1>4, <1>5, <1>6, <1>8, <1>9, <1>10, <1>11, <1>12 DEF n

LEMMA RegDisposedKeeps == ASSUME NEW x \in Registrars PROVE ProjectsIInv /\ RegDisposed(x) => RuntimeIInv'
<1> SUFFICES ASSUME ProjectsIInv, RegDisposed(x) PROVE RuntimeIInv'  OBVIOUS
<1> PICK o : o = reg[x].target  OBVIOUS
<1> PICK p : p = o[1]  OBVIOUS
<1>1. /\ RuntimeShape /\ RuntimeIInv /\ TimerHolds /\ CatalogTypeOK /\ Indexed /\ pool \in Pools
      /\ Objects = Within(pool)
  BY ShapeIndexed, ObjectsWithin DEF ProjectsIInv, RuntimeIInv, CatalogIInv, RuntimeShape, Pools
<1>2. /\ reg[x].pc = "dispose" /\ torn' = torn
      /\ projects' = projects /\ current' = current /\ switch' = switch /\ queue' = queue /\ job' = job
      /\ force' = force /\ timer' = timer /\ life' = life /\ owed' = owed
  BY DEF RegDisposed, RegFrame, tables
<1>3. /\ writer[x].pc = "done" /\ o \in Objects /\ loading[x] = {} /\ Registrars \subseteq Callers
      /\ x \notin {"job", "switch"} /\ Disposes(x, o)
  BY <1>1, <1>2, CallerNames DEF RuntimeShape, RegShape, Callers, Disposes
<1>4. p \in Ids /\ o = <<o[1], o[2]>> /\ At(pool, o) \in Contexts
  BY <1>1, <1>3, WithinIs
<1> PICK v : v = Disposed(At(pool, o))  OBVIOUS
<1>5. /\ v \in Contexts /\ v.watching = At(pool, o).watching
      /\ v.watchers = (IF At(pool, o).watchers = 0 THEN 0 ELSE At(pool, o).watchers - 1)
      /\ v.active = At(pool, o).active /\ v.run = At(pool, o).run
  BY <1>4, DisposedIs
<1> PICK pl : pl = Put(pool, o, v)  OBVIOUS
<1>6. /\ pl \in Pools /\ \A q \in Ids : Len(pl[q]) = Len(pool[q])
      /\ Within(pl) = Within(pool) /\ At(pl, o) = v
      /\ \A q \in Within(pool) : q # o => At(pl, q) = At(pool, q)
  <2>1. LET new == Put(pool, o, v)
        IN  /\ new \in Pools /\ \A q \in Ids : Len(new[q]) = Len(pool[q])
            /\ Within(new) = Within(pool) /\ At(new, o) = v
            /\ \A q \in Within(pool) : q # o => At(new, q) = At(pool, q)
    BY ONLY <1>1, <1>3, <1>5, PoolPut
  <2> QED  BY ONLY <2>1, pl = Put(pool, o, v)
<1>7. Continue(x, p, pl, [contexts EXCEPT ![p] = None])
  <2>1. pl = [pool EXCEPT ![o[1]][o[2]] = Disposed(@)]  BY DEF Put, At
  <2> QED  BY <2>1 DEF RegDisposed
<1> PICK n : n = <<p, Len(pool[p]) + 1>>  OBVIOUS
<1>8. \/ /\ pool' = Appended(pl, {p}) /\ contexts' = [contexts EXCEPT ![p] = n[2]]
         /\ writer' = writer
         /\ \/ /\ reg' = [reg EXCEPT ![x] = [pc |-> "load", target |-> n]]
               /\ loading' = [loading EXCEPT ![x] = {n}]
            \/ /\ reg' = [reg EXCEPT ![x] = [pc |-> "preload", target |-> n]]
               /\ loading' = loading
      \/ /\ ~Global /\ p = current /\ pool' = pl
         /\ contexts' = [contexts EXCEPT ![p] = None] /\ loading' = loading /\ RegDone(x)
  BY ONLY <1>1, <1>4, <1>6, <1>7, n = <<p, Len(pool[p]) + 1>>, ContinueAnew
<1>9. TimerHolds'  BY <1>1, <1>2 DEF TimerHolds, Global
<1>10. Known' = Known  BY <1>2 DEF Known
<1>11. /\ "job" \in Callers /\ "switch" \in Callers
       /\ "job" # x /\ "switch" # x /\ loading \in [Callers -> SUBSET Objects]
  BY <1>1, <1>3 DEF Callers, RuntimeShape
\* The project has been selected meanwhile: another call has overlapped.
<1>12. CASE /\ ~Global /\ p = current /\ pool' = pl
            /\ contexts' = [contexts EXCEPT ![p] = None] /\ loading' = loading /\ RegDone(x)
  <2>1. Objects' = Objects  BY <1>1, <1>6, <1>12, ObjectsPrime
  <2>2. Indexed'
    <3>1. contexts' \in [Ids -> Nat] /\ pool' \in Pools  BY <1>1, <1>6, <1>12 DEF Indexed, None
    <3>2. ASSUME NEW q \in Ids  PROVE contexts'[q] <= Len(pool'[q])
      <4>1. /\ contexts[q] <= Len(pool[q]) /\ Len(pool[q]) \in Nat /\ Len(pool'[q]) = Len(pool[q])
            /\ contexts'[q] = IF q = p THEN None ELSE contexts[q]
        BY <1>1, <1>6, <1>12 DEF Indexed, Pools
      <4> QED  BY ONLY <4>1 DEF None
    <3> QED  BY ONLY <3>1, <3>2 DEF Indexed, Pools
  <2>3. SwitchShape'  BY <1>1, <1>2, <1>10, <2>1 DEF RuntimeShape, SwitchShape, Targets
  <2>4. /\ \A y \in Registrars : RegShape(y)'
        /\ reg' \in [Registrars -> [pc : {"off", "dispose", "load", "preload"}, target : Refs]]
        /\ reg'[x] = IdleReg /\ \A y \in Registrars \ {x} : reg'[y] = reg[y]
    BY <1>1, <1>3, <1>12, <2>1, RegDoneShape
  <2>5. RuntimeShape'
    BY <1>1, <1>2, <1>10, <1>12, <2>1, <2>2, <2>3, <2>4 DEF RuntimeShape, Indexed, Pools
  <2>6. ~Undisturbed'
    BY <1>1, <1>2, <1>12 DEF Undisturbed, RuntimeIInv, DisposalHolds
  <2> QED  BY <1>9, <2>5, <2>6 DEF RuntimeIInv
<1>13. ASSUME pool' = Appended(pl, {p}), contexts' = [contexts EXCEPT ![p] = n[2]], writer' = writer,
              NEW pc \in {"load", "preload"}, reg' = [reg EXCEPT ![x] = [pc |-> pc, target |-> n]],
              loading'[x] = IF pc = "load" THEN {n} ELSE {},
              \A g \in Callers \ {x} : loading'[g] = loading[g],
              loading' = [g \in Callers |-> loading'[g]]
       PROVE  RuntimeIInv'
  <2>1. /\ Indexed' /\ Objects \subseteq Objects' /\ n \in Refs /\ n \in Objects' /\ n \notin Objects
        /\ At(pool', n) = Fresh /\ At(pool', o) = v
        /\ \A q \in Objects : q # o => At(pool', q) = At(pool, q)
        /\ \A q \in Objects' \ Objects : q = n
        /\ n = <<n[1], contexts'[n[1]]>>
        /\ \A q \in Objects : (IsHere(q))' <=> (IsHere(q) /\ q[1] # p)
    <3>1. contexts' = [contexts EXCEPT ![o[1]] = Len(pool[o[1]]) + 1] /\ pool' = Appended(pl, {o[1]})
      BY <1>13
    <3>2. /\ Indexed /\ o \in Within(pool) /\ v \in Contexts /\ pl = Put(pool, o, v)
      BY <1>1, <1>3, <1>5
    <3>3. LET m == <<o[1], Len(pool[o[1]]) + 1>>
          IN /\ Indexed' /\ Objects \subseteq Objects' /\ m \in Refs /\ m \in Objects' /\ m \notin Objects
             /\ At(pool', m) = Fresh /\ At(pool', o) = v
             /\ \A q \in Objects : q # o => At(pool', q) = At(pool, q)
             /\ \A q \in Objects' \ Objects : q = m
             /\ m = <<m[1], contexts'[m[1]]>>
             /\ \A q \in Objects : (IsHere(q))' <=> (IsHere(q) /\ q[1] # o[1])
      BY ONLY <3>1, <3>2, AnewShape
    <3>4. n = <<o[1], Len(pool[o[1]]) + 1>> /\ p = o[1]  OBVIOUS
    <3> QED  BY ONLY <3>3, <3>4
  <2>2. SwitchShape'  BY <1>1, <1>2, <1>10, <2>1 DEF RuntimeShape, SwitchShape, Targets
  <2>3. /\ \A y \in Registrars : RegShape(y)'
        /\ reg' \in [Registrars -> [pc : {"off", "dispose", "load", "preload"}, target : Refs]]
        /\ reg'[x] = [pc |-> pc, target |-> n] /\ \A y \in Registrars \ {x} : reg'[y] = reg[y]
    <3>1. \A y \in Registrars \ {x} : loading'[y] = loading[y]  BY <1>3, <1>13
    <3> QED  BY ONLY <1>1, <1>3, <1>13, <2>1, <3>1, x \in Registrars, RegGoesShape
  <2>4. loading' \in [Callers -> SUBSET Objects']
    <3>1. \A g \in Callers : loading'[g] \in SUBSET Objects'
      BY <1>11, <1>13, <2>1
    <3> QED  BY <1>13, <3>1
  <2>5. loading'["job"] = loading["job"] /\ loading'["switch"] = loading["switch"]
    BY <1>11, <1>13
  <2>6. RuntimeShape'
    BY <1>1, <1>2, <1>10, <2>1, <2>2, <2>3, <2>4, <2>5 DEF RuntimeShape, Indexed, Pools
  <2>7. ASSUME Undisturbed'
        PROVE  /\ (\A q \in Objects : ContextHolds(q))' /\ LoadsHold'
               /\ (\A y \in Registrars : DisposalHolds(y))' /\ TargetHolds' /\ SelectedHolds'
    <3>1. Undisturbed  BY <1>2, <2>7 DEF Undisturbed
    <3>2. /\ LoadsHold /\ (\A q \in Objects : ContextHolds(q)) /\ TargetHolds
          /\ (\A y \in Registrars : DisposalHolds(y)) /\ SelectedHolds
      BY <1>1, <3>1 DEF RuntimeIInv
    <3>3. /\ IsHere(o) /\ At(pool, o).run # "live" /\ p # current /\ o # switch.target
          /\ \A g \in Callers : o \notin loading[g]
          /\ \A y \in Registrars \ {x} : ~Disposes(y, o)
      BY <1>2, <3>2 DEF DisposalHolds
    <3>4. \A q \in Objects : IsHere(q) /\ q # o => q[1] # p
      BY <1>4, <3>3 DEF IsHere, Here
    <3>5. \A y \in Registrars : \A q : q # o =>
            (reg'[y].pc = "dispose" /\ reg'[y].target = q <=> Disposes(y, q))
      <4> SUFFICES ASSUME NEW y \in Registrars, NEW q, q # o
          PROVE reg'[y].pc = "dispose" /\ reg'[y].target = q <=> Disposes(y, q)
        OBVIOUS
      <4>1. CASE y = x
        <5>1. reg'[y].pc # "dispose"  BY <1>13, <2>3, <4>1
        <5> QED  BY <4>1, <5>1 DEF Disposes
      <4>2. CASE y # x  BY <2>3, <4>2 DEF Disposes
      <4> QED  BY <4>1, <4>2
    <3>6. ASSUME NEW q \in Objects'  PROVE (ContextHolds(q))'
      <4>1. CASE q = n
        <5>1. (At(pool, q))' = Fresh /\ (IsHere(q))'  BY <2>1, <4>1, AtPrime, IsHerePrime
        <5> QED  BY <5>1, FreshContext DEF ContextHolds
      <4>2. CASE q = o
        <5>1. (At(pool, q))' = v /\ ~(IsHere(q))'  BY <1>3, <2>1, <4>2, AtPrime
        <5>2. v.watchers = 0 /\ v.run # "live" /\ ~v.active
          <6>1. /\ At(pool, o).watchers = 0 \/ At(pool, o).watchers = 1
                /\ At(pool, o).run # "live" /\ ~At(pool, o).active
            BY <1>3, <3>2, <3>3 DEF ContextHolds
          <6> QED  BY <1>5, <6>1
        <5> QED  BY <5>1, <5>2 DEF ContextHolds
      <4>3. CASE q # n /\ q # o
        <5>1. q \in Objects /\ (At(pool, q))' = At(pool, q) /\ ((IsHere(q))' <=> IsHere(q))
          BY <2>1, <3>4, <4>3, AtPrime
        <5>2. \A y \in Registrars : (Disposes(y, q))' <=> Disposes(y, q)
          BY <3>5, <4>3 DEF Disposes
        <5>3. ContextHolds(q)  BY <3>2, <5>1
        <5> QED  BY <1>2, <5>1, <5>2, <5>3 DEF ContextHolds
      <4> QED  BY <4>1, <4>2, <4>3
    <3>7. LoadsHold'
      <4> SUFFICES ASSUME NEW g \in Callers, NEW q \in loading'[g]
          PROVE  /\ (IsHere(q))' /\ ~At(pool', q).watching
                 /\ \A h \in Callers \ {g} : q \notin loading'[h]
        BY AtPrime DEF LoadsHold
      <4>1. CASE g = x
        <5>1. q = n  BY <1>13, <4>1
        <5>2. (IsHere(q))' /\ ~At(pool', q).watching  BY <2>1, <5>1, IsHerePrime, FreshContext
        <5>3. \A h \in Callers \ {g} : q \notin loading'[h]
          <6>1. \A h \in Callers \ {x} : loading'[h] \in SUBSET Objects  BY <1>11, <1>13
          <6> QED  BY <2>1, <4>1, <5>1, <6>1
        <5> QED  BY <5>2, <5>3
      <4>2. CASE g # x
        <5>1. q \in loading[g] /\ q \in Objects /\ q # o  BY <1>11, <1>13, <3>3, <4>2
        <5>2. IsHere(q) /\ ~At(pool, q).watching /\ \A h \in Callers \ {g} : q \notin loading[h]
          BY <3>2, <5>1 DEF LoadsHold
        <5>3. q \notin loading'[x]  BY <1>13, <2>1, <5>1
        <5> QED  BY <1>13, <2>1, <3>4, <5>1, <5>2, <5>3
      <4> QED  BY <4>1, <4>2
    <3>8. ASSUME NEW y \in Registrars  PROVE (DisposalHolds(y))'
      <4> PICK q : q = reg'[y].target  OBVIOUS
      <4> SUFFICES ASSUME reg'[y].pc = "dispose"
          PROVE  /\ (IsHere(q))' /\ At(pool', q).run # "live" /\ q[1] # current' /\ q # switch'.target
                 /\ \A g \in Callers : q \notin loading'[g]
                 /\ \A z \in Registrars \ {y} : ~(reg'[z].pc = "dispose" /\ reg'[z].target = q)
        BY AtPrime DEF DisposalHolds, Disposes, IsHere, Here, At
      <4>1. y # x  BY <1>13, <2>3
      <4>2. reg[y].pc = "dispose" /\ q = reg[y].target /\ Disposes(y, q)  BY <2>3, <4>1 DEF Disposes
      <4>3. q # o /\ q \in Objects /\ q # n
        <5>1. ~Disposes(y, o)  BY <3>3, <4>1
        <5>2. q # o  BY <4>2, <5>1
        <5>3. q \in Objects  BY <1>1, <4>2 DEF RuntimeShape, RegShape
        <5> QED  BY <2>1, <5>2, <5>3
      <4>4. /\ IsHere(q) /\ At(pool, q).run # "live" /\ q[1] # current /\ q # switch.target
            /\ \A g \in Callers : q \notin loading[g]
            /\ \A z \in Registrars \ {y} : ~Disposes(z, q)
        BY <3>2, <4>2 DEF DisposalHolds
      <4>5. \A g \in Callers : q \notin loading'[g]
        <5>1. q \notin loading'[x]  BY <1>13, <4>3
        <5>2. \A g \in Callers \ {x} : q \notin loading'[g]  BY <1>13, <4>4
        <5> QED  BY <5>1, <5>2
      <4>6. \A z \in Registrars \ {y} : ~(reg'[z].pc = "dispose" /\ reg'[z].target = q)
        BY <3>5, <4>3, <4>4
      <4> QED  BY <1>2, <2>1, <3>4, <4>3, <4>4, <4>5, <4>6
    <3>9. TargetHolds'
      <4> SUFFICES ASSUME Targets
          PROVE /\ (IsHere(switch.target))'
                /\ switch.target \in loading'["switch"] \/ At(pool', switch.target).watching
                /\ loading'["switch"] \subseteq {switch.target}
                /\ switch.pc = "commit" => At(pool', switch.target).run = "live"
        BY <1>2 DEF TargetHolds, Targets, At
      <4> PICK t : t = switch.target  OBVIOUS
      <4>1. /\ IsHere(t)
            /\ t \in loading["switch"] \/ At(pool, t).watching
            /\ loading["switch"] \subseteq {t}
            /\ switch.pc = "commit" => At(pool, t).run = "live"
        BY <3>2 DEF TargetHolds
      <4>2. t \in Objects  BY <1>1 DEF RuntimeShape, SwitchShape
      <4>3. (IsHere(t))' /\ At(pool', t) = At(pool, t)
        <5>1. t # o  BY <3>3
        <5>2. t[1] # p  BY <3>4, <4>1, <4>2, <5>1
        <5> QED  BY <2>1, <4>1, <4>2, <5>1, <5>2
      <4>4. (IsHere(switch.target))'  BY <1>2, <4>3 DEF IsHere, Here
      <4> QED  BY <2>5, <4>1, <4>3, <4>4
    <3>10. SelectedHolds'
      <4> SUFFICES ASSUME life # "stopped", ~Global
          PROVE /\ contexts'[current] # None /\ At(pool', <<current, contexts'[current]>>).run = "live"
                /\ At(pool', <<current, contexts'[current]>>).active
        BY <1>2 DEF SelectedHolds, At, Here, Global
      <4>1. /\ contexts[current] # None /\ At(pool, Here(current)).run = "live"
            /\ At(pool, Here(current)).active
        BY <3>2 DEF SelectedHolds
      <4>2. current \in Ids  BY <1>1 DEF RuntimeShape, Global, Known, CatalogTypeOK
      <4>3. Here(current) \in Objects /\ Here(current) # o
        BY <1>1, <3>3, <4>1, <4>2, HereWithin DEF Here
      <4>4. contexts'[current] = contexts[current]  BY <1>1, <1>13, <3>3, <4>2 DEF Indexed
      <4> QED  BY <2>1, <4>1, <4>3, <4>4 DEF Here
    <3> QED  BY <3>6, <3>7, <3>8, <3>9, <3>10
  <2> QED  BY <1>9, <2>6, <2>7 DEF RuntimeIInv
<1>14. CASE /\ pool' = Appended(pl, {p}) /\ contexts' = [contexts EXCEPT ![p] = n[2]]
            /\ writer' = writer
            /\ reg' = [reg EXCEPT ![x] = [pc |-> "load", target |-> n]]
            /\ loading' = [loading EXCEPT ![x] = {n}]
  <2>1. /\ loading'[x] = {n} /\ \A g \in Callers \ {x} : loading'[g] = loading[g]
        /\ loading' = [g \in Callers |-> loading'[g]]
    BY <1>3, <1>11, <1>14
  <2> QED  BY <1>13, <1>14, <2>1
<1>15. CASE /\ pool' = Appended(pl, {p}) /\ contexts' = [contexts EXCEPT ![p] = n[2]]
            /\ writer' = writer
            /\ reg' = [reg EXCEPT ![x] = [pc |-> "preload", target |-> n]]
            /\ loading' = loading
  <2>1. /\ loading'[x] = {} /\ \A g \in Callers \ {x} : loading'[g] = loading[g]
        /\ loading' = [g \in Callers |-> loading'[g]]
    BY <1>3, <1>11, <1>15
  <2> QED  BY <1>13, <1>15, <2>1
<1> QED  BY <1>8, <1>12, <1>14, <1>15

-----------------------------------------------------------------------------
(* Stop and start *)

\* Every present context is disposed of, and forgotten.
LEMMA StopShape ==
  ASSUME Indexed,
         pool' = [p \in Ids |-> IF contexts[p] = None THEN pool[p] ELSE
                    [pool[p] EXCEPT ![contexts[p]] = Disposed(Disposing(@))]],
         contexts' = [p \in Ids |-> None]
  PROVE  /\ Indexed' /\ Objects' = Objects
         /\ \A q \in Objects : ~(IsHere(q))'
         /\ \A q \in Objects : At(pool', q) = IF IsHere(q) THEN Disposed(Disposing(At(pool, q)))
                                                           ELSE At(pool, q)
<1>1. \A p \in Ids : /\ pool[p] \in Seq(Contexts) /\ Len(pool[p]) \in Nat
                     /\ contexts[p] \in Nat /\ contexts[p] <= Len(pool[p])
  BY DEF Indexed, Pools
<1>2. ASSUME NEW p \in Ids, contexts[p] # None
      PROVE  /\ contexts[p] \in 1..Len(pool[p])
             /\ Disposed(Disposing(pool[p][contexts[p]])) \in Contexts
  <2>1. contexts[p] \in 1..Len(pool[p])  BY <1>1, <1>2 DEF None
  <2>2. pool[p][contexts[p]] \in Contexts  BY <1>1, <2>1
  <2> QED  BY <2>1, <2>2, DisposingIs, DisposedIs
<1>3. \A p \in Ids : pool'[p] =
        IF contexts[p] = None THEN pool[p]
        ELSE [pool[p] EXCEPT ![contexts[p]] = Disposed(Disposing(pool[p][contexts[p]]))]
  BY <1>1, <1>2
<1>4. ASSUME NEW p \in Ids  PROVE pool'[p] \in Seq(Contexts) /\ Len(pool'[p]) = Len(pool[p])
  <2>1. CASE contexts[p] = None  BY <1>1, <1>3, <2>1
  <2>2. CASE contexts[p] # None
    <3> PICK v : v = Disposed(Disposing(pool[p][contexts[p]]))  OBVIOUS
    <3>1. pool'[p] = [pool[p] EXCEPT ![contexts[p]] = v] /\ v \in Contexts
          /\ contexts[p] \in 1..Len(pool[p]) /\ pool[p] \in Seq(Contexts)
      BY <1>1, <1>2, <1>3, <2>2
    <3> QED  BY ONLY <3>1
  <2> QED  BY <2>1, <2>2
<1>5. Indexed'
  <2>1. pool' = [p \in Ids |-> pool'[p]]  OBVIOUS
  <2>2. pool' \in [Ids -> Seq(Contexts)]  BY ONLY <1>4, <2>1
  <2>3. contexts' \in [Ids -> Nat] /\ \A p \in Ids : contexts'[p] = 0  BY DEF None
  <2>4. \A p \in Ids : contexts'[p] <= Len(pool'[p])  BY ONLY <1>1, <1>4, <2>3
  <2> QED  BY ONLY <2>2, <2>3, <2>4 DEF Indexed, Pools
<1>6. Objects' = Objects  BY <1>4 DEF Objects
<1>7. ASSUME NEW q \in Objects
      PROVE  /\ ~(IsHere(q))'
             /\ At(pool', q) = IF IsHere(q) THEN Disposed(Disposing(At(pool, q))) ELSE At(pool, q)
  <2>1. q[1] \in Ids /\ q[2] \in 1..Len(pool[q[1]]) /\ q = <<q[1], q[2]>>
    <3>1. pool \in Pools /\ q \in Within(pool)  BY ObjectsWithin DEF Indexed
    <3> QED  BY <1>1, <3>1, WithinIs
  <2>2. ~(IsHere(q))'
    <3>1. contexts'[q[1]] = 0 /\ q[2] # 0  BY <2>1 DEF None
    <3> QED  BY <2>1, <3>1, IsHerePrime
  <2>3. IsHere(q) <=> q[2] = contexts[q[1]]  BY <2>1 DEF IsHere, Here
  <2>4. CASE contexts[q[1]] = None
    <3>1. q[2] # contexts[q[1]]  BY <2>1, <2>4 DEF None
    <3> QED  BY <1>3, <2>1, <2>2, <2>3, <2>4, <3>1 DEF At
  <2>5. CASE contexts[q[1]] # None
    <3>1. pool'[q[1]] = [pool[q[1]] EXCEPT ![contexts[q[1]]] = Disposed(Disposing(pool[q[1]][contexts[q[1]]]))]
      BY <1>3, <2>1, <2>5
    <3>2. CASE q[2] = contexts[q[1]]  BY <1>1, <2>1, <2>2, <2>3, <3>1, <3>2 DEF At
    <3>3. CASE q[2] # contexts[q[1]]  BY <1>1, <2>1, <2>2, <2>3, <3>1, <3>3 DEF At
    <3> QED  BY <3>2, <3>3
  <2> QED  BY <2>4, <2>5
<1> QED  BY <1>5, <1>6, <1>7

LEMMA StopEndsKeeps == ProjectsIInv /\ StopEnds => RuntimeIInv'
<1> SUFFICES ASSUME ProjectsIInv, StopEnds PROVE RuntimeIInv'  OBVIOUS
<1>1. /\ RuntimeShape /\ RuntimeIInv /\ Indexed /\ pool \in Pools /\ Objects = Within(pool)
      /\ writer \in [Registrars -> Writers]
  BY ShapeIndexed, ObjectsWithin DEF ProjectsIInv, RuntimeIInv, CatalogIInv, CatalogTypeOK, RuntimeShape, Pools, Writers
<1>2. /\ switch.pc = "off" /\ job.pc = "off" /\ life' = "stopped" /\ force' = FALSE /\ owed' = {}
      /\ pool' = [p \in Ids |-> IF contexts[p] = None THEN pool[p] ELSE
                    [pool[p] EXCEPT ![contexts[p]] = Disposed(Disposing(@))]]
      /\ contexts' = [p \in Ids |-> None]
      /\ torn' = torn \cup (IF \E x \in Registrars : writer[x].pc # "off" THEN {"context"} ELSE {})
      /\ projects' = projects /\ writer' = writer /\ current' = current /\ switch' = switch
      /\ queue' = queue /\ job' = job /\ timer' = timer /\ reg' = reg /\ loading' = loading
  BY DEF StopEnds, catalogVars, tables
<1>3. /\ Indexed' /\ Objects' = Objects /\ \A q \in Objects : ~(IsHere(q))'
      /\ \A q \in Objects : At(pool', q) = IF IsHere(q) THEN Disposed(Disposing(At(pool, q)))
                                                        ELSE At(pool, q)
  BY ONLY <1>1, <1>2, StopShape
<1>4. Known' = Known /\ torn' \subseteq {"mutation", "context"}
  BY <1>1, <1>2 DEF Known, RuntimeShape
<1>5. SwitchShape'  BY <1>1, <1>2, <1>3, <1>4 DEF RuntimeShape, SwitchShape, Targets
<1>6. \A x \in Registrars : RegShape(x)'  BY <1>1, <1>2, <1>3 DEF RuntimeShape, RegShape
<1>7. RuntimeShape'
  BY <1>1, <1>2, <1>3, <1>4, <1>5, <1>6 DEF RuntimeShape, Indexed, Pools
<1>8. TimerHolds' /\ SelectedHolds' /\ TargetHolds'
  BY <1>2 DEF TimerHolds, SelectedHolds, TargetHolds, Targets
<1>9. ASSUME Undisturbed'
      PROVE  /\ (\A q \in Objects : ContextHolds(q))' /\ LoadsHold'
             /\ (\A x \in Registrars : DisposalHolds(x))'
  <2>1. Undisturbed /\ \A x \in Registrars : writer[x].pc = "off"
    BY <1>2, <1>9 DEF Undisturbed
  <2>2. \A x \in Registrars : reg[x].pc = "off" /\ loading[x] = {}
    BY <1>1, <2>1 DEF RuntimeShape, RegShape
  <2>3. \A f \in Callers : loading'[f] = {}
    BY <1>1, <1>2, <2>2 DEF RuntimeShape, Callers
  <2>4. LoadsHold' /\ \A x \in Registrars : (DisposalHolds(x))'
    BY <1>2, <2>2, <2>3 DEF LoadsHold, DisposalHolds
  <2>5. ASSUME NEW q \in Objects  PROVE (ContextHolds(q))'
    <3>1. ContextHolds(q) /\ At(pool, q) \in Contexts  BY <1>1, <2>1, WithinIs DEF RuntimeIInv
    <3>2. (At(pool, q))' = At(pool', q) /\ ~(IsHere(q))'  BY <1>3, AtPrime
    <3>3. CASE IsHere(q)
      <4> PICK c : c = At(pool, q)  OBVIOUS
      <4> PICK d : d = Disposing(c)  OBVIOUS
      <4>1. c \in Contexts /\ c.watchers \in {0, 1}  BY <3>1 DEF ContextHolds
      <4>2. /\ d \in Contexts /\ d.watchers = c.watchers /\ ~d.active /\ d.run # "live"
        BY <4>1, DisposingIs
      <4>3. /\ Disposed(d).watchers = (IF d.watchers = 0 THEN 0 ELSE d.watchers - 1)
            /\ Disposed(d).active = d.active /\ Disposed(d).run = d.run
        BY <4>2, DisposedIs
      <4>4. At(pool', q) = Disposed(d)  BY <1>3, <3>3
      <4>5. Disposed(d).watchers = 0  BY <4>1, <4>2, <4>3
      <4> QED  BY <3>2, <4>2, <4>3, <4>4, <4>5 DEF ContextHolds
    <3>4. CASE ~IsHere(q)
      <4>1. At(pool', q) = At(pool, q)  BY <1>3, <3>4
      <4> QED  BY <3>1, <3>2, <3>4, <4>1 DEF ContextHolds
    <3> QED  BY <3>3, <3>4
  <2> QED  BY <1>3, <2>4, <2>5
<1> QED  BY <1>7, <1>8, <1>9 DEF RuntimeIInv

\* What a host that starts finds: a context for every project, of which the
\* selected one works, or all are shown.
LEMMA StartedIs ==
  ASSUME NEW p, NEW sel
  PROVE  /\ Started(p, sel) \in Contexts
         /\ Started(p, sel).watchers = IF Started(p, sel).watching THEN 1 ELSE 0
         /\ Started(p, sel).run = "live" => Started(p, sel).watching
         /\ Started(p, sel).active => Started(p, sel).run = "live" /\ p = sel
         /\ Started(p, sel).run # "disposed"
         /\ p = sel => Started(p, sel).run = "live" /\ Started(p, sel).active
<1>1. CASE p = sel
  <2>1. Started(p, sel) = [watching |-> TRUE, watchers |-> 1, run |-> "live", active |-> TRUE]
    BY <1>1 DEF Started
  <2> QED  BY <1>1, <2>1 DEF Contexts
<1>2. CASE p # sel /\ sel = GlobalView
  <2>1. Started(p, sel) = [watching |-> TRUE, watchers |-> 1, run |-> "live", active |-> FALSE]
    BY <1>2 DEF Started
  <2> QED  BY <1>2, <2>1 DEF Contexts
<1>3. CASE p # sel /\ sel # GlobalView
  <2>1. Started(p, sel) = Fresh  BY <1>3 DEF Started
  <2> QED  BY <1>3, <2>1, FreshContext
<1> QED  BY <1>1, <1>2, <1>3

LEMMA StartTable ==
  ASSUME NEW ids \in SUBSET Ids, NEW sel
  PROVE  LET pl == StartPool(ids, sel)
             cx == StartContexts(ids)
         IN  /\ pl \in Pools /\ cx \in [Ids -> Nat] /\ \A p \in Ids : cx[p] <= Len(pl[p])
             /\ \A o \in Within(pl) : o = <<o[1], cx[o[1]]>> /\ At(pl, o) = Started(o[1], sel)
             /\ \A p \in ids : /\ <<p, cx[p]>> \in Within(pl) /\ cx[p] # None
                               /\ At(pl, <<p, cx[p]>>) = Started(p, sel)
<1> DEFINE pl == StartPool(ids, sel)
           cx == StartContexts(ids)
<1>1. \A p \in Ids : /\ pl[p] = IF p \in ids THEN <<Started(p, sel)>> ELSE <<>>
                     /\ cx[p] = IF p \in ids THEN 1 ELSE 0
  BY DEF StartPool, StartContexts, None
<1>2. pl = [p \in Ids |-> pl[p]] /\ cx = [p \in Ids |-> cx[p]]  BY DEF StartPool, StartContexts
<1> HIDE DEF pl, cx
<1>3. ASSUME NEW p \in Ids
      PROVE  pl[p] \in Seq(Contexts) /\ Len(pl[p]) = cx[p] /\ cx[p] \in {0, 1}
  <2>1. CASE p \in ids
    <3> PICK c : c = Started(p, sel)  OBVIOUS
    <3>1. c \in Contexts  BY StartedIs
    <3>2. <<c>> \in Seq(Contexts) /\ Len(<<c>>) = 1  BY <3>1
    <3>3. pl[p] = <<c>> /\ cx[p] = 1  BY <1>1, <2>1
    <3> QED  BY <3>2, <3>3
  <2>2. CASE p \notin ids
    <3>1. pl[p] = <<>> /\ cx[p] = 0  BY <1>1, <2>2
    <3> QED  BY <3>1
  <2> QED  BY <2>1, <2>2
<1>4. pl \in Pools  BY <1>2, <1>3 DEF Pools
<1>5. cx \in [Ids -> Nat] /\ \A p \in Ids : cx[p] <= Len(pl[p])  BY <1>2, <1>3
<1>6. ASSUME NEW o \in Within(pl)  PROVE o = <<o[1], cx[o[1]]>> /\ At(pl, o) = Started(o[1], sel)
  <2>1. o[1] \in Ids /\ o[2] \in Nat \ {0} /\ o[2] <= Len(pl[o[1]]) /\ o = <<o[1], o[2]>>
    BY <1>4, WithinIs
  <2>2. o[2] = 1 /\ cx[o[1]] = 1  BY <1>3, <2>1
  <2>3. pl[o[1]] = <<Started(o[1], sel)>>  BY <1>1, <2>1, <2>2
  <2>4. At(pl, o) = Started(o[1], sel)  BY <2>2, <2>3 DEF At
  <2> QED  BY <2>1, <2>2, <2>4
<1>7. ASSUME NEW p \in ids
      PROVE  /\ <<p, cx[p]>> \in Within(pl) /\ cx[p] # None
             /\ At(pl, <<p, cx[p]>>) = Started(p, sel)
  <2>1. cx[p] = 1 /\ Len(pl[p]) = 1 /\ pl[p] = <<Started(p, sel)>>  BY <1>1, <1>3
  <2>2. <<p, 1>> \in Within(pl)  BY <1>4, <2>1, WithinIs
  <2>3. At(pl, <<p, 1>>) = Started(p, sel)  BY <2>1 DEF At
  <2> QED  BY <2>1, <2>2, <2>3 DEF None
<1> QED  BY <1>4, <1>5, <1>6, <1>7 DEF pl, cx

\* A host that has just started.
Starts(sel) ==
  /\ pool = StartPool(Known, sel) /\ contexts = StartContexts(Known) /\ current = sel
  /\ switch = IdleSwitch /\ queue = <<>> /\ job = IdleJob /\ force = FALSE
  /\ reg = [x \in Registrars |-> IdleReg] /\ loading = [f \in Callers |-> {}]
  /\ life = "up" /\ owed = {} /\ timer \in BOOLEAN /\ torn \subseteq {"mutation", "context"}

HasStarted ==
  /\ Known \subseteq Ids
  /\ \E sel \in Known \cup {GlobalView} : Starts(sel) /\ (sel = GlobalView => timer)

LEMMA StartsHold == HasStarted => RuntimeIInv
<1> SUFFICES ASSUME Known \subseteq Ids, NEW sel \in Known \cup {GlobalView}, Starts(sel),
                    sel = GlobalView => timer
             PROVE  RuntimeIInv
  BY DEF HasStarted
<1>1. /\ pool = StartPool(Known, sel) /\ contexts = StartContexts(Known) /\ current = sel
      /\ switch = IdleSwitch /\ queue = <<>> /\ job = IdleJob /\ force = FALSE
      /\ reg = [x \in Registrars |-> IdleReg] /\ loading = [f \in Callers |-> {}]
      /\ life = "up" /\ owed = {} /\ timer \in BOOLEAN /\ torn \subseteq {"mutation", "context"}
  BY DEF Starts
<1>2. LET pl == StartPool(Known, sel)
          cx == StartContexts(Known)
      IN  /\ pl \in Pools /\ cx \in [Ids -> Nat] /\ \A p \in Ids : cx[p] <= Len(pl[p])
          /\ \A o \in Within(pl) : o = <<o[1], cx[o[1]]>> /\ At(pl, o) = Started(o[1], sel)
          /\ \A p \in Known : /\ <<p, cx[p]>> \in Within(pl) /\ cx[p] # None
                              /\ At(pl, <<p, cx[p]>>) = Started(p, sel)
  BY StartTable
<1>3. /\ pool \in Pools /\ contexts \in [Ids -> Nat] /\ \A p \in Ids : contexts[p] <= Len(pool[p])
      /\ \A o \in Within(pool) : o = <<o[1], contexts[o[1]]>> /\ At(pool, o) = Started(o[1], sel)
      /\ \A p \in Known : /\ <<p, contexts[p]>> \in Within(pool) /\ contexts[p] # None
                          /\ At(pool, <<p, contexts[p]>>) = Started(p, sel)
  BY ONLY <1>1, <1>2
<1>4. \A o \in Objects : IsHere(o) /\ At(pool, o) = Started(o[1], sel)
  BY <1>3, ObjectsWithin DEF IsHere, Here
<1>5. switch.pc = "off" /\ job.pc = "off" /\ SwitchShape
  <2>1. switch = [pc |-> "off", to |-> None, target |-> NoContext] /\ NoContext \in Refs
    BY <1>1 DEF IdleSwitch, Refs, NoContext, None
  <2> QED  BY <1>1, <2>1 DEF SwitchShape, SwitchPcs, Targets, IdleJob
<1>6. IdleReg \in [pc : {"off", "dispose", "load", "preload"}, target : Refs] /\ IdleReg.pc = "off"
  BY DEF IdleReg, Refs, NoContext, None
<1>7. \A x \in Registrars : reg[x] = IdleReg /\ loading[x] = {} /\ RegShape(x)
  BY <1>1, <1>6 DEF RegShape, Callers
<1>8. \A f \in Callers : loading[f] = {}  BY <1>1
<1>9. RuntimeShape
  <2>1. job \in [pc : {"off", "ensure", "view", "ending", "again"}, forced : BOOLEAN]
    BY <1>1 DEF IdleJob
  <2>2. reg \in [Registrars -> [pc : {"off", "dispose", "load", "preload"}, target : Refs]]
    BY <1>1, <1>6
  <2>3. loading \in [Callers -> SUBSET Objects] /\ loading["job"] = {} /\ loading["switch"] = {}
    BY <1>1 DEF Callers
  <2>4. current \in Known \cup {GlobalView} /\ queue \in Seq(Known \cup {GlobalView})  BY <1>1
  <2> QED  BY <1>1, <1>3, <1>5, <1>7, <2>1, <2>2, <2>3, <2>4 DEF RuntimeShape, Pools
<1>10. TimerHolds  BY <1>1 DEF TimerHolds, Global
<1>11. ASSUME NEW o \in Objects  PROVE ContextHolds(o)
  <2>1. IsHere(o) /\ At(pool, o) = Started(o[1], sel)  BY <1>4
  <2> QED  BY <1>1, <2>1, StartedIs DEF ContextHolds
<1>12. LoadsHold /\ TargetHolds /\ \A x \in Registrars : DisposalHolds(x)
  BY <1>5, <1>6, <1>7, <1>8 DEF LoadsHold, TargetHolds, Targets, DisposalHolds
<1>13. SelectedHolds
  <2> SUFFICES ASSUME ~Global
      PROVE contexts[sel] # None /\ At(pool, Here(sel)).run = "live" /\ At(pool, Here(sel)).active
    BY <1>1 DEF SelectedHolds
  <2>1. sel \in Known  BY <1>1 DEF Global
  <2> QED  BY <1>3, <2>1, StartedIs DEF Here
<1> QED  BY <1>9, <1>10, <1>11, <1>12, <1>13 DEF RuntimeIInv

LEMMA RestartKeeps == ProjectsIInv /\ Restart => RuntimeIInv'
<1> SUFFICES ASSUME ProjectsIInv, Restart PROVE RuntimeIInv'  OBVIOUS
<1>1. CatalogIInv /\ CatalogIInv' /\ Known' = Known  BY RestartCatalog DEF ProjectsIInv
<1>2. torn \subseteq {"mutation", "context"}  BY DEF ProjectsIInv, RuntimeIInv, RuntimeShape
<1> PICK sel : sel = Restored  OBVIOUS
<1>3. sel \in Known \cup {GlobalView} /\ sel \in Known' \cup {GlobalView}  BY <1>1, RestoredKnown
<1>4. timer' = (sel = GlobalView)  BY DEF Restart
<1>5. (Starts(sel))'
  <2>1. torn' \subseteq {"mutation", "context"}  BY <1>2 DEF Restart
  <2>2. pool' = StartPool(Known', sel) /\ contexts' = StartContexts(Known')  BY <1>1 DEF Restart
  <2>3. timer' \in BOOLEAN  BY <1>4
  <2> QED  BY <1>1, <2>1, <2>2, <2>3 DEF Restart, Starts, StartPool, StartContexts
<1>6. (Known \subseteq Ids)'  BY <1>1 DEF CatalogIInv, CatalogTypeOK, Known
<1>7. HasStarted'  BY <1>3, <1>4, <1>5, <1>6 DEF HasStarted
<1> QED  BY <1>7, StartsHold, PTL

-----------------------------------------------------------------------------
(* What the catalog does leaves the runtimes alone *)

LEMMA RuntimeAlone ==
  ASSUME RuntimeIInv, UNCHANGED runtimeVars, torn' \in {torn, torn \cup {"mutation"}}, Known \subseteq Known',
         \A x \in Registrars : writer[x].pc = "done" => writer'[x].pc = "done"
  PROVE  RuntimeIInv'
<1>1. RuntimeShape /\ TimerHolds  BY DEF RuntimeIInv
<1>2. /\ pool' = pool /\ contexts' = contexts /\ current' = current /\ switch' = switch /\ queue' = queue
      /\ job' = job /\ force' = force /\ timer' = timer /\ reg' = reg /\ loading' = loading
      /\ life' = life /\ owed' = owed /\ ("context" \in torn' <=> "context" \in torn)
      /\ torn' \subseteq torn \cup {"mutation"}
  BY DEF runtimeVars
<1>3. Objects' = Objects  BY <1>2 DEF Objects
<1>4. SwitchShape'  BY <1>1, <1>2, <1>3 DEF RuntimeShape, SwitchShape, Targets
<1>5. \A x \in Registrars : RegShape(x)'  BY <1>1, <1>2, <1>3 DEF RuntimeShape, RegShape
<1>6. queue' \in Seq(Known' \cup {GlobalView})
  <2>1. queue \in Seq(Known \cup {GlobalView})  BY <1>1 DEF RuntimeShape
  <2> QED  BY <1>2, <2>1
<1>7. RuntimeShape'  BY <1>1, <1>2, <1>3, <1>4, <1>5, <1>6 DEF RuntimeShape
<1>8. TimerHolds'  BY <1>1, <1>2 DEF TimerHolds, Global
<1>9. ASSUME Undisturbed'
      PROVE  /\ (\A o \in Objects : ContextHolds(o))' /\ LoadsHold'
             /\ (\A x \in Registrars : DisposalHolds(x))' /\ TargetHolds' /\ SelectedHolds'
  <2>1. /\ (\A o \in Objects : ContextHolds(o)) /\ LoadsHold
        /\ (\A x \in Registrars : DisposalHolds(x)) /\ TargetHolds /\ SelectedHolds
    BY <1>2, <1>9 DEF RuntimeIInv, Undisturbed
  <2>2. ASSUME NEW o \in Objects  PROVE ContextHolds(o)'
    <3>1. ContextHolds(o)  BY <2>1
    <3> QED  BY <1>2, <3>1 DEF ContextHolds, At, IsHere, Here, Disposes
  <2>3. LoadsHold'  BY <1>2, <2>1 DEF LoadsHold, At, IsHere, Here
  <2>4. ASSUME NEW x \in Registrars  PROVE DisposalHolds(x)'
    <3>1. DisposalHolds(x)  BY <2>1
    <3> QED  BY <1>2, <3>1 DEF DisposalHolds, At, IsHere, Here, Disposes
  <2>5. TargetHolds'  BY <1>2, <2>1 DEF TargetHolds, Targets, At, IsHere, Here
  <2>6. SelectedHolds'  BY <1>2, <2>1 DEF SelectedHolds, Global, At, Here
  <2> QED  BY <1>3, <2>2, <2>3, <2>4, <2>5, <2>6
<1> QED  BY <1>7, <1>8, <1>9 DEF RuntimeIInv

\* The catalog is done with a registration until its context is refreshed.
LEMMA DoneRests ==
  ASSUME CatalogTypeOK, CatalogSteps
  PROVE  \A y \in Registrars : writer[y].pc = "done" => writer'[y].pc = "done"
<1>1. writer \in [Registrars -> Writers]  BY DEF CatalogTypeOK, Writers
<1>2. ASSUME NEW x \in Registrars, writer[x].pc # "done",
             \E v : writer' = [writer EXCEPT ![x] = v]
      PROVE  \A y \in Registrars : writer[y].pc = "done" => writer'[y].pc = "done"
  BY <1>1, <1>2
<1>3. ASSUME NEW x \in Registrars, WriterSteps(x)
      PROVE  \A y \in Registrars : writer[y].pc = "done" => writer'[y].pc = "done"
  <2>1. CASE Inspect(x)
    <3>1. writer[x].pc = "queued" /\ \E v : writer' = [writer EXCEPT ![x] = v]
      BY <2>1 DEF Inspect, InWriter
    <3> QED  BY <1>2, <3>1
  <2>2. CASE PutRepository(x)
    <3>1. writer[x].pc = "repo" /\ writer' = [writer EXCEPT ![x] = [writer[x] EXCEPT !.pc = "project"]]
      BY <1>1, <2>2 DEF PutRepository, InWriter
    <3> QED  BY <1>2, <3>1
  <2>3. CASE PutProject(x)
    <3>1. writer[x].pc = "project" /\ writer' = [writer EXCEPT ![x] = [writer[x] EXCEPT !.pc = "prune"]]
      BY <1>1, <2>3 DEF PutProject, InWriter
    <3> QED  BY <1>2, <3>1
  <2>4. CASE PruneRepository(x)
    <3>1. writer[x].pc = "prune" /\ writer' = [writer EXCEPT ![x] = [writer[x] EXCEPT !.pc = "done"]]
      BY <1>1, <2>4 DEF PruneRepository, InWriter
    <3> QED  BY <1>2, <3>1
  <2> QED  BY <1>3, <2>1, <2>2, <2>3, <2>4 DEF WriterSteps
<1>4. ASSUME NEW x \in Registrars, PutProjectFails(x) \/ RemovalFails(x)
      PROVE  \A y \in Registrars : writer[y].pc = "done" => writer'[y].pc = "done"
  <2>1. writer[x].pc \in {"project", "prune"} /\ writer' = [writer EXCEPT ![x] = NoWriter]
    BY <1>4 DEF PutProjectFails, RemovalFails, InWriter
  <2> QED  BY <1>2, <2>1
<1>5. ASSUME NEW x \in Registrars,
             (\E d \in Paths : RegisterPath(x, d)) \/ (\E c \in claims : RegisterCandidate(x, c))
      PROVE  \A y \in Registrars : writer[y].pc = "done" => writer'[y].pc = "done"
  <2>1. writer[x].pc = "off" /\ \E v : writer' = [writer EXCEPT ![x] = v]
    BY <1>5 DEF RegisterPath, RegisterCandidate, InWriter
  <2> QED  BY <1>2, <2>1
<1>6. ASSUME writer' = writer
      PROVE  \A y \in Registrars : writer[y].pc = "done" => writer'[y].pc = "done"
  BY <1>6
<1> QED  BY <1>3, <1>4, <1>5, <1>6
         DEF CatalogSteps, AddRoot, RemoveRoot, ScanBegins, ScanEnds, ClaimExpires, RepositoryMoves

LEMMA CatalogStepsLeave == ProjectsIInv /\ CatalogSteps => ProjectsIInv'
<1> SUFFICES ASSUME ProjectsIInv, CatalogSteps PROVE ProjectsIInv'  OBVIOUS
<1>1. CatalogIInv /\ RuntimeIInv /\ CatalogTypeOK  BY DEF ProjectsIInv, CatalogIInv
<1>2. CatalogIInv' /\ Known \subseteq Known'  BY <1>1, CatalogStepsKeep
<1>3. UNCHANGED runtimeVars  BY DEF CatalogSteps, CatalogOnly
<1>4. torn' \in {torn, torn \cup {"mutation"}}  BY DEF CatalogSteps, RemovalFails
<1>5. RuntimeIInv'  BY <1>1, <1>2, <1>3, <1>4, DoneRests, RuntimeAlone
<1> QED  BY <1>2, <1>5 DEF ProjectsIInv

-----------------------------------------------------------------------------
(* What the runtimes do leaves the catalog in order *)

\* A step that only remembers a selection, or ends registrations.
LEMMA CatalogAlone ==
  ASSUME CatalogIInv, UNCHANGED <<projects, repos, root, claims, scanning, disk>>, torn \subseteq torn',
         setting' \in {setting, GlobalView} \cup Known,
         writer' = writer \/ \E x \in Registrars :
           writer[x].pc = "done" /\ writer' = [writer EXCEPT ![x] = NoWriter]
  PROVE  CatalogIInv'
<1>1. writer \in [Registrars -> Writers]  BY DEF CatalogIInv, CatalogTypeOK, Writers
<1>2. writer' \in [Registrars -> Writers]  BY <1>1, NoWriterType
<1>3. \A y \in Registrars :
        writer'[y] = writer[y] \/ (~Mutates(y) /\ writer'[y].pc \in {"off", "queued"})
  <2>1. ASSUME NEW x \in Registrars, writer[x].pc = "done", writer' = [writer EXCEPT ![x] = NoWriter],
               NEW y \in Registrars
        PROVE  writer'[y] = writer[y] \/ (~Mutates(y) /\ writer'[y].pc \in {"off", "queued"})
    BY <1>1, <2>1, NoWriterType DEF Mutates
  <2> QED  BY <2>1
<1>4. root' \in [id : Nat, configured : BOOLEAN] /\ claims' \subseteq Paths \X Nat /\ scanning' \in Nat
      /\ setting' \in Known \cup {None, GlobalView}
  BY DEF CatalogIInv, CatalogTypeOK
<1> QED  BY <1>2, <1>3, <1>4, CatalogRests

\* What is torn stays so until a restart.
LEMMA RefreshTears == ASSUME NEW pl, NEW forced, RefreshGlobal(pl, forced) PROVE torn \subseteq torn'
  BY DEF RefreshGlobal, BeginPass, Overlaps

LEMMA JobStepsRest == JobSteps \/ ClientRefreshes \/ TimerFires => UNCHANGED catalogVars /\ torn \subseteq torn'
<1>1. (\E o \in loading["job"] : JobLoads(o)) \/ JobEnsured \/ JobFinally
        => UNCHANGED catalogVars /\ torn \subseteq torn'
  BY DEF JobLoads, JobEnsured, JobFinally
<1>2. JobViewed \/ JobAgain => UNCHANGED catalogVars /\ torn \subseteq torn'
  BY DEF JobViewed, JobAgain, BeginPass, Overlaps
<1>3. ClientRefreshes \/ TimerFires => UNCHANGED catalogVars /\ torn \subseteq torn'
  BY RefreshTears DEF ClientRefreshes, TimerFires
<1> QED  BY <1>1, <1>2, <1>3 DEF JobSteps

LEMMA SwitchRests ==
  SwitchBegins \/ (\E o \in loading["switch"] : SwitchLoads(o)) \/ SwitchEnsured \/ SwitchReloads
    \/ SwitchRefreshed \/ SwitchFails => UNCHANGED catalogVars /\ torn \subseteq torn'
<1>1. SwitchBegins => UNCHANGED catalogVars /\ torn \subseteq torn'
  <2> SUFFICES ASSUME SwitchBegins PROVE UNCHANGED catalogVars /\ torn \subseteq torn'  OBVIOUS
  <2>1. torn' = torn \/ RefreshGlobal(pool, TRUE) \/ \E ids : Overlaps("switch", ids)
    BY DEF SwitchBegins
  <2>2. torn \subseteq torn'  BY <2>1, RefreshTears DEF Overlaps
  <2>3. UNCHANGED catalogVars  BY DEF SwitchBegins, SwitchFrame
  <2> QED  BY <2>2, <2>3
<1> QED  BY <1>1 DEF SwitchLoads, SwitchEnsured, SwitchReloads, SwitchRefreshed, SwitchFails, SwitchFrame

LEMMA OthersRest ==
  (\E to \in Ids \cup {GlobalView} : RequestSwitch(to)) \/ StopBegins \/ StopEnds
    => UNCHANGED catalogVars /\ torn \subseteq torn'
  BY DEF RequestSwitch, StopBegins, StopEnds

LEMMA CatalogSelects ==
  ASSUME ProjectsIInv, SwitchCommits \/ SwitchCommitsGlobal
  PROVE  CatalogIInv'
<1>1. CatalogIInv /\ switch.pc = "commit"
  BY DEF ProjectsIInv, SwitchCommits, SwitchCommitsGlobal
<1>2. UNCHANGED <<projects, repos, root, claims, scanning, disk, writer>> /\ setting' = switch.to
  BY DEF SwitchCommits, SwitchCommitsGlobal, Activated
<1>3. torn \subseteq torn'  BY RefreshTears DEF SwitchCommits, SwitchCommitsGlobal
<1>4. switch.to \in Known \cup {GlobalView}
  BY <1>1 DEF ProjectsIInv, RuntimeIInv, RuntimeShape, SwitchShape, Targets
<1> QED  BY <1>1, <1>2, <1>3, <1>4, CatalogAlone

LEMMA CatalogGoesOn ==
  ASSUME ProjectsIInv, NEW x \in Registrars, RegSteps(x)
  PROVE  CatalogIInv'
<1>1. /\ CatalogIInv /\ RegShape(x)  BY DEF ProjectsIInv, RuntimeIInv, RuntimeShape
<1>2. UNCHANGED <<projects, repos, root, setting, claims, scanning, disk>>
  BY DEF RegSteps, RegBegins, RegDisposed, RegLoaded, RegPreloaded, RegFrame, tables
<1>3. torn \subseteq torn'
  BY DEF RegSteps, RegBegins, RegDisposed, RegLoaded, RegPreloaded, Overlaps
<1>4. ASSUME NEW p, NEW pl, NEW tbl, Continue(x, p, pl, tbl)  PROVE writer' = writer \/ RegDone(x)
  BY <1>4 DEF Continue
<1>5. writer[x].pc = "done"
  BY <1>1 DEF RegSteps, RegBegins, RegDisposed, RegLoaded, RegPreloaded, InWriter, RegShape
<1>6. writer' = writer \/ RegDone(x)
  BY <1>4 DEF RegSteps, RegBegins, RegDisposed, RegLoaded, RegPreloaded
<1>7. writer' = writer \/ writer' = [writer EXCEPT ![x] = NoWriter]  BY <1>6 DEF RegDone
<1> QED  BY <1>1, <1>2, <1>3, <1>5, <1>7, CatalogAlone

-----------------------------------------------------------------------------
(* The invariant is inductive *)

LEMMA ProjectsBegin == Init => ProjectsIInv
<1> SUFFICES ASSUME Init PROVE ProjectsIInv  OBVIOUS
<1>1. CatalogIInv  BY CatalogBegins DEF Init
<1>2. Known \subseteq Ids  BY <1>1 DEF CatalogIInv, CatalogTypeOK, Known
<1>3. setting = None  BY DEF Init, CatalogInit
<1>4. Restored \in Known
  <2>1. RecordOf(Home) \in projects  BY <1>1 DEF CatalogIInv, Registered, RecordOf
  <2> QED  BY <1>3, <2>1 DEF Restored, Known
<1>5. Restored # GlobalView  BY <1>2, <1>4, CatalogAssumptions DEF Ids, GlobalView
<1>6. Starts(Restored)  BY DEF Init, Starts
<1>7. HasStarted  BY <1>2, <1>4, <1>5, <1>6 DEF HasStarted
<1> QED  BY <1>1, <1>7, StartsHold DEF ProjectsIInv

LEMMA ProjectsNext == ProjectsIInv /\ [Next]_vars => ProjectsIInv'
<1> SUFFICES ASSUME ProjectsIInv, [Next]_vars PROVE ProjectsIInv'  OBVIOUS
<1>1. CatalogIInv /\ RuntimeIInv /\ setting \in {setting, GlobalView} \cup Known  BY DEF ProjectsIInv
<1>2. ASSUME UNCHANGED catalogVars, torn \subseteq torn'  PROVE CatalogIInv'
  BY <1>1, <1>2, CatalogAlone DEF catalogVars, tables
<1>3. CASE CatalogSteps  BY <1>3, CatalogStepsLeave
<1>4. CASE JobSteps \/ ClientRefreshes \/ TimerFires
  <2>1. CatalogIInv'  BY <1>2, <1>4, JobStepsRest
  <2>2. RuntimeIInv'
    BY <1>4, JobLoadsKeeps, JobEnsuredKeeps, JobViewedKeeps, JobFinallyKeeps, JobAgainKeeps,
       ClientRefreshesKeeps, TimerFiresKeeps DEF JobSteps
  <2> QED  BY <2>1, <2>2 DEF ProjectsIInv
<1>5. CASE \/ SwitchBegins \/ (\E o \in loading["switch"] : SwitchLoads(o)) \/ SwitchEnsured
           \/ SwitchReloads \/ SwitchRefreshed \/ SwitchFails
  <2>1. CatalogIInv'  BY <1>2, <1>5, SwitchRests
  <2>2. RuntimeIInv'
    BY <1>5, SwitchBeginsKeeps, SwitchLoadsKeeps, SwitchEnsuredKeeps, SwitchReloadsKeeps,
       SwitchRefreshedKeeps, SwitchFailsKeeps
  <2> QED  BY <2>1, <2>2 DEF ProjectsIInv
<1>6. CASE SwitchCommits \/ SwitchCommitsGlobal
  <2>1. RuntimeIInv'  BY <1>6, SwitchCommitsKeeps, SwitchCommitsGlobalKeeps
  <2> QED  BY <1>6, <2>1, CatalogSelects DEF ProjectsIInv
<1>7. ASSUME NEW x \in Registrars, RegSteps(x)  PROVE ProjectsIInv'
  <2>1. RuntimeIInv'
    BY <1>7, RegBeginsKeeps, RegDisposedKeeps, RegLoadedKeeps, RegPreloadedKeeps DEF RegSteps
  <2> QED  BY <1>7, <2>1, CatalogGoesOn DEF ProjectsIInv
<1>8. CASE (\E to \in Ids \cup {GlobalView} : RequestSwitch(to)) \/ StopBegins \/ StopEnds
  <2>1. CatalogIInv'  BY <1>2, <1>8, OthersRest
  <2>2. RuntimeIInv'  BY <1>8, RequestSwitchKeeps, StopBeginsKeeps, StopEndsKeeps
  <2> QED  BY <2>1, <2>2 DEF ProjectsIInv
<1>9. CASE Restart  BY <1>1, <1>9, RestartCatalog, RestartKeeps DEF ProjectsIInv
<1>10. CASE UNCHANGED vars
  <2>1. UNCHANGED catalogVars /\ UNCHANGED runtimeVars /\ torn' \in {torn, torn \cup {"mutation"}} /\ torn \subseteq torn'  BY <1>10 DEF vars
  <2>2. CatalogIInv'  BY <1>2, <2>1
  <2>3. Known \subseteq Known' /\ writer' = writer  BY <2>1 DEF catalogVars, tables, Known
  <2>4. RuntimeIInv'  BY <1>1, <2>1, <2>3, RuntimeAlone
  <2> QED  BY <2>2, <2>4 DEF ProjectsIInv
<1> QED  BY <1>3, <1>4, <1>5, <1>6, <1>7, <1>8, <1>9, <1>10 DEF Next, SwitchSteps

LEMMA ProjectsImply == ProjectsIInv => ContextsInv
<1> SUFFICES ASSUME ProjectsIInv PROVE ContextsInv  OBVIOUS
<1>1. CatalogIInv /\ RuntimeIInv /\ RuntimeShape /\ TimerHolds  BY DEF ProjectsIInv, RuntimeIInv
<1>2. ASSUME Undisturbed
      PROVE  (\A o \in Objects : ContextHolds(o)) /\ SelectedHolds
  BY <1>1, <1>2 DEF RuntimeIInv
<1>3. Indexed /\ Objects = Within(pool)  BY <1>1, ShapeIndexed, ObjectsWithin
<1>4. TypeOK
  <2>1. Contexts = [watching : BOOLEAN, watchers : Nat, active : BOOLEAN, run : {"none", "live", "disposed"}]
    BY DEF Contexts
  <2>2. ASSUME NEW p \in Ids
        PROVE  /\ pool[p] \in Seq([watching : BOOLEAN, watchers : Nat, active : BOOLEAN,
                                   run : {"none", "live", "disposed"}])
               /\ contexts[p] \in 0..Len(pool[p])
    <3>1. /\ pool[p] \in Seq(Contexts) /\ Len(pool[p]) \in Nat
          /\ contexts[p] \in Nat /\ contexts[p] <= Len(pool[p])
      BY <1>3 DEF Indexed, Pools
    <3> QED  BY ONLY <2>1, <3>1
  <2>3. /\ switch.pc \in {"off", "ensure", "load", "reload", "commit", "refresh"}
        /\ job.pc \in {"off", "ensure", "view", "ending", "again"}
        /\ \A x \in Registrars : reg[x].pc \in {"off", "dispose", "load", "preload"}
    BY <1>1 DEF RuntimeShape, SwitchShape, SwitchPcs, RegShape
  <2> QED  BY <1>1, <2>2, <2>3 DEF TypeOK, CatalogIInv, RuntimeShape
<1>5. RepositoriesMatch
  <2>1. ASSUME Free, "mutation" \notin torn, NEW g \in repos  PROVE Referenced(g, projects)
    <3>1. \A x \in Registrars : InHand(x) = {}  BY <2>1 DEF Free, InHand
    <3> QED  BY <1>1, <2>1, <3>1 DEF CatalogIInv, NoOrphans
  <2> QED  BY <1>1, <2>1 DEF CatalogIInv, RepositoriesFound, RepositoriesMatch
<1>6. OnlySelectedActive  BY <1>2 DEF OnlySelectedActive, ContextHolds, IsHere
<1>7. SelectedIsLive
  <2> SUFFICES ASSUME Undisturbed, life # "stopped", ~Global
      PROVE /\ contexts[current] # None
            /\ At(pool, Here(current)).run = "live" /\ At(pool, Here(current)).active
            /\ At(pool, Here(current)).watchers = 1
    BY DEF SelectedIsLive
  <2>1. /\ contexts[current] # None /\ At(pool, Here(current)).run = "live"
        /\ At(pool, Here(current)).active
    BY <1>2 DEF SelectedHolds
  <2>2. current \in Ids  BY <1>1 DEF RuntimeShape, Global, Known, CatalogIInv, CatalogTypeOK
  <2>3. Here(current) \in Objects  BY <1>3, <2>1, <2>2, HereWithin
  <2>4. ContextHolds(Here(current))  BY <1>2, <2>3
  <2> QED  BY <2>1, <2>4 DEF ContextHolds
<1>8. NothingLeaked
  <2> SUFFICES ASSUME Undisturbed, NEW o \in Objects
      PROVE /\ At(pool, o).watchers <= 1
            /\ (At(pool, o).run = "live" \/ At(pool, o).watchers > 0) => o = Here(o[1])
    BY DEF NothingLeaked
  <2>1. ContextHolds(o)  BY <1>2
  <2> QED  BY <2>1 DEF ContextHolds, IsHere
<1>9. GlobalKeepsRefreshing  BY <1>1 DEF GlobalKeepsRefreshing, TimerHolds
<1> QED  BY <1>1, <1>4, <1>5, <1>6, <1>7, <1>8, <1>9 DEF ContextsInv, CatalogIInv

\* A directory is one project with its repository.  Nothing leaks: what is
\* watched or live is the context a project has now, only the selected one
\* works, and it does so as long as the host is up; the view of all projects
\* goes on refreshing (catalog.ts:254-306, coordinator.ts:81-396).
THEOREM ContextsInvHolds == Spec => []ContextsInv
BY ProjectsBegin, ProjectsNext, ProjectsImply, PTL DEF Spec

-----------------------------------------------------------------------------
(* Candidates *)

\* A mutation that registers a candidate goes on under the root of its token.
UnderRoot == \A x \in Registrars : (Mutates(x) /\ writer[x].root # None) => Configured(writer[x].root)

\* A step that writes for y alone and leaves the root, or takes y on under it.
LEMMA OneWrites ==
  ASSUME CatalogTypeOK, UnderRoot, UNCHANGED root, NEW y \in Registrars, NEW v,
         writer' = [writer EXCEPT ![y] = v],
         v.pc \in {"repo", "project", "prune"} =>
           v.root = writer[y].root /\ (Mutates(y) \/ MayRegister(y))
  PROVE  UnderRoot'
<1>1. writer'[y] = v /\ \A x \in Registrars \ {y} : writer'[x] = writer[x]  BY DEF CatalogTypeOK
<1>2. \A x \in Registrars \ {y} : (Mutates(x) /\ writer[x].root # None) => Configured(writer[x].root)
  BY DEF UnderRoot
<1>3. (v.pc \in {"repo", "project", "prune"} /\ v.root # None) => Configured(v.root)
  BY DEF UnderRoot, MayRegister
<1> QED  BY <1>1, <1>2, <1>3 DEF UnderRoot, Mutates, Configured

LEMMA WriterUnderRoot ==
  ASSUME CatalogTypeOK, UnderRoot, NEW y \in Registrars, WriterSteps(y)
  PROVE  UnderRoot'
<1>1. writer \in [Registrars -> Writers]  BY DEF CatalogTypeOK, Writers
<1>2. UNCHANGED root
  BY DEF WriterSteps, Inspect, PutRepository, PutProject, PruneRepository, tables
<1>3. CASE Inspect(y)
  <2>1. CASE MayRegister(y)
    <3>1. PICK v : v = writer'[y] /\ v.root = writer[y].root /\ writer' = [writer EXCEPT ![y] = v]
      BY <1>1, <1>3, <2>1 DEF Inspect, Writers
    <3> QED  BY <1>2, <2>1, <3>1, OneWrites
  <2>2. CASE ~MayRegister(y)
    <3>1. writer' = [writer EXCEPT ![y] = NoWriter]  BY <1>3, <2>2 DEF Inspect
    <3> QED  BY <1>2, <3>1, OneWrites, NoWriterType
  <2> QED  BY <2>1, <2>2
<1>4. CASE PutRepository(y) \/ PutProject(y) \/ PruneRepository(y)
  <2>1. Mutates(y)  BY <1>4 DEF PutRepository, PutProject, PruneRepository, InWriter, Mutates
  <2>2. PICK pc : writer' = [writer EXCEPT ![y] = [writer[y] EXCEPT !.pc = pc]]
    BY <1>1, <1>4 DEF PutRepository, PutProject, PruneRepository
  <2>3. [writer[y] EXCEPT !.pc = pc].root = writer[y].root  BY <1>1 DEF Writers
  <2> QED  BY <1>2, <2>1, <2>2, <2>3, OneWrites
<1> QED  BY <1>3, <1>4 DEF WriterSteps

\* A root is added and removed when no mutation is under way.
LEMMA CatalogUnderRoot == ASSUME CatalogTypeOK, UnderRoot, CatalogSteps PROVE UnderRoot'
<1>1. ASSUME NEW y \in Registrars, WriterSteps(y)  PROVE UnderRoot'
  BY <1>1, WriterUnderRoot
<1>2. ASSUME NEW y \in Registrars, PutProjectFails(y) \/ RemovalFails(y)  PROVE UnderRoot'
  <2>1. writer' = [writer EXCEPT ![y] = NoWriter] /\ UNCHANGED root
    BY <1>2 DEF PutProjectFails, RemovalFails, tables
  <2> QED  BY <2>1, OneWrites, NoWriterType
<1>3. ASSUME NEW y \in Registrars,
             (\E d \in Paths : RegisterPath(y, d)) \/ (\E c \in claims : RegisterCandidate(y, c))
      PROVE  UnderRoot'
  <2>1. UNCHANGED root /\ \E v : v.pc = "queued" /\ writer' = [writer EXCEPT ![y] = v]
    BY <1>3, NoWriterType DEF RegisterPath, RegisterCandidate, tables, Writers
  <2> QED  BY <2>1, OneWrites
<1>4. CASE AddRoot \/ RemoveRoot
  BY <1>4 DEF AddRoot, RemoveRoot, Free, UnderRoot, Mutates
<1>5. ASSUME UNCHANGED <<root, writer>>  PROVE UnderRoot'
  BY <1>5 DEF UnderRoot, Mutates, Configured
<1> QED  BY <1>1, <1>2, <1>3, <1>4, <1>5
         DEF CatalogSteps, ScanBegins, ScanEnds, ClaimExpires, RepositoryMoves, tables

LEMMA StepsUnderRoot == CatalogTypeOK /\ UnderRoot /\ [Next]_vars => UnderRoot'
<1> SUFFICES ASSUME CatalogTypeOK, UnderRoot, [Next]_vars  PROVE UnderRoot'  OBVIOUS
<1>1. ASSUME UNCHANGED <<root, writer>>  PROVE UnderRoot'
  BY <1>1 DEF UnderRoot, Mutates, Configured
<1>2. ASSUME UNCHANGED catalogVars  PROVE UnderRoot'
  BY <1>1, <1>2 DEF catalogVars, tables
<1>3. CASE CatalogSteps  BY <1>3, CatalogUnderRoot
<1>4. ASSUME NEW y \in Registrars, RegSteps(y)  PROVE UnderRoot'
  <2>1. UNCHANGED root
    BY <1>4 DEF RegSteps, RegBegins, RegDisposed, RegLoaded, RegPreloaded, RegFrame, tables
  <2>2. ASSUME NEW p, NEW pl, NEW tbl, Continue(y, p, pl, tbl)  PROVE writer' = writer \/ RegDone(y)
    BY <2>2 DEF Continue
  <2>3. writer' = writer \/ RegDone(y)
    BY <1>4, <2>2 DEF RegSteps, RegBegins, RegDisposed, RegLoaded, RegPreloaded
  <2>4. RegDone(y) => writer' = [writer EXCEPT ![y] = NoWriter]  BY DEF RegDone
  <2> QED  BY <1>1, <2>1, <2>3, <2>4, OneWrites, NoWriterType
<1>5. CASE Restart
  <2>1. \A x \in Registrars : writer'[x] = NoWriter  BY <1>5 DEF Restart
  <2> QED  BY <2>1, NoWriterType DEF UnderRoot, Mutates
<1>6. CASE JobSteps \/ ClientRefreshes \/ TimerFires  BY <1>2, <1>6, JobStepsRest
<1>7. CASE \/ SwitchBegins \/ (\E o \in loading["switch"] : SwitchLoads(o)) \/ SwitchEnsured
           \/ SwitchReloads \/ SwitchRefreshed \/ SwitchFails
  BY <1>2, <1>7, SwitchRests
<1>8. CASE SwitchCommits \/ SwitchCommitsGlobal
  BY <1>1, <1>8 DEF SwitchCommits, SwitchCommitsGlobal
<1>9. CASE (\E to \in Ids \cup {GlobalView} : RequestSwitch(to)) \/ StopBegins \/ StopEnds
  BY <1>2, <1>9, OthersRest
<1>10. CASE UNCHANGED vars  BY <1>2, <1>10 DEF vars
<1> QED  BY <1>3, <1>4, <1>5, <1>6, <1>7, <1>8, <1>9, <1>10 DEF Next, SwitchSteps

LEMMA UnderRootBegins == Init => UnderRoot
<1>1. Init => \A x \in Registrars : writer[x] = NoWriter  BY DEF Init, CatalogInit
<1> QED  BY <1>1, NoWriterType DEF UnderRoot, Mutates

\* A candidate of a scan becomes a project only while the root that was scanned
\* is configured, from the check to the put: the same directory under a new root
\* does not do, and no root goes in between (catalog.ts:240-247, 291-312,
\* 383-397).
THEOREM CandidatesUnderRootHolds == Spec => CandidatesUnderRoot
<1>1. UnderRoot => [\A x \in Registrars :
                      (Puts(x) /\ writer[x].root # None) => Configured(writer[x].root)]_<<projects, writer, root>>
  BY DEF UnderRoot, Mutates, Puts, InWriter
<1>2. ProjectsIInv /\ UnderRoot /\ [Next]_vars => UnderRoot'
  BY StepsUnderRoot DEF ProjectsIInv, CatalogIInv
<1> QED  BY <1>1, <1>2, ProjectsBegin, ProjectsNext, UnderRootBegins, PTL DEF Spec, CandidatesUnderRoot

-----------------------------------------------------------------------------
(* The scan of a discovery root *)


-----------------------------------------------------------------------------
(* Paths *)

LEMMA ContainedIn ==
  ASSUME NEW a \in Seq(STRING), NEW d \in Seq(STRING)
  PROVE  Contained(a, d) <=> Len(a) <= Len(d) /\ \A n \in 1..Len(a) : a[n] = d[n]
<1>1. Len(a) \in Nat /\ Len(d) \in Nat  OBVIOUS
<1>2. ASSUME Len(a) <= Len(d)
      PROVE  SubSeq(d, 1, Len(a)) = [n \in 1..Len(a) |-> d[n]]
  BY <1>1, <1>2
<1>3. a = [n \in 1..Len(a) |-> a[n]]  OBVIOUS
<1> QED  BY <1>1, <1>2, <1>3 DEF Contained

LEMMA ContainedOrder ==
  ASSUME NEW a \in Seq(STRING), NEW b \in Seq(STRING), NEW d \in Seq(STRING)
  PROVE  /\ Contained(a, a)
         /\ Contained(a, b) /\ Contained(b, d) => Contained(a, d)
         /\ Contained(a, d) /\ Contained(b, d) /\ Len(a) <= Len(b) => Contained(a, b)
         /\ Contained(a, b) /\ Len(b) <= Len(a) => a = b
<1>1. Len(a) \in Nat /\ Len(b) \in Nat /\ Len(d) \in Nat  OBVIOUS
<1>2. Contained(a, a)  BY ContainedIn
<1>3. Contained(a, b) /\ Contained(b, d) => Contained(a, d)  BY <1>1, ContainedIn
<1>4. Contained(a, d) /\ Contained(b, d) /\ Len(a) <= Len(b) => Contained(a, b)  BY <1>1, ContainedIn
<1>5. Contained(a, b) /\ Len(b) <= Len(a) => a = b
  <2>1. a = [n \in 1..Len(a) |-> a[n]] /\ b = [n \in 1..Len(b) |-> b[n]]  OBVIOUS
  <2>2. SUFFICES ASSUME Contained(a, b), Len(b) <= Len(a) PROVE a = b  OBVIOUS
  <2>3. Len(a) = Len(b) /\ \A n \in 1..Len(a) : a[n] = b[n]  BY <1>1, <2>2, ContainedIn
  <2> QED  BY <2>1, <2>3
<1> QED  BY <1>2, <1>3, <1>4, <1>5

\* The path to an ancestor.
LEMMA PathTo ==
  ASSUME NEW d \in Seq(STRING), NEW n \in 0..Len(d)
  PROVE  /\ SubSeq(d, 1, n) \in Seq(STRING) /\ Len(SubSeq(d, 1, n)) = n
         /\ Contained(SubSeq(d, 1, n), d)
         /\ \A a \in Seq(STRING) : Contained(a, d) /\ Len(a) = n => SubSeq(d, 1, n) = a
<1>1. Len(d) \in Nat  OBVIOUS
<1> DEFINE a == SubSeq(d, 1, n)
<1>2. a \in Seq(STRING) /\ Len(a) = n /\ \A i \in 1..n : a[i] = d[i]  BY <1>1
<1>3. \A b \in Seq(STRING) : Contained(b, d) /\ Len(b) = n => a = b  BY DEF Contained
<1> HIDE DEF a
<1>4. Contained(a, d)  BY <1>1, <1>2, ContainedIn
<1> QED  BY <1>2, <1>3, <1>4 DEF a

\* A child of a directory.
LEMMA ChildOf ==
  ASSUME NEW d \in Seq(STRING), NEW e \in Seq(STRING), Len(e) > 0, Parent(e) = d
  PROVE  Len(e) = Len(d) + 1 /\ Contained(d, e) /\ SubSeq(e, 1, Len(d)) = d
<1>1. PICK n : n = Len(e) - 1  OBVIOUS
<1>2. Len(e) \in Nat /\ n \in 0..Len(e) /\ d = SubSeq(e, 1, n)  BY <1>1 DEF Parent
<1>3. Len(d) = n /\ Contained(d, e)  BY <1>2, PathTo
<1>4. Len(e) = Len(d) + 1  BY <1>1, <1>2, <1>3
<1> QED  BY <1>1, <1>2, <1>3, <1>4

\* Two children of one directory have two names.
LEMMA NamesApart ==
  ASSUME NEW e \in Seq(STRING), NEW f \in Seq(STRING), Len(e) > 0, Len(f) > 0,
         Parent(e) = Parent(f), NameOf(e) = NameOf(f)
  PROVE  e = f
<1> DEFINE d == Parent(e)
<1>1. Len(e) \in Nat /\ Len(f) \in Nat /\ Len(e) - 1 \in 0..Len(e)  OBVIOUS
<1>2. d \in Seq(STRING)  BY <1>1, PathTo DEF Parent
<1> HIDE DEF d
<1>3. Parent(e) = d /\ Parent(f) = d  BY DEF d
<1>4. Len(e) = Len(d) + 1 /\ Len(f) = Len(d) + 1 /\ Contained(d, e) /\ Contained(d, f)
  BY <1>2, <1>3, ChildOf
<1>5. Len(d) \in Nat  BY <1>2
<1>6. \A n \in 1..Len(d) : e[n] = f[n]  BY <1>2, <1>4, ContainedIn
<1>7. e[Len(e)] = f[Len(e)] /\ Len(e) = Len(f)  BY <1>4 DEF NameOf
<1>8. \A n \in 1..Len(e) : e[n] = f[n]  BY <1>4, <1>5, <1>6, <1>7
<1>9. e = [n \in 1..Len(e) |-> e[n]] /\ f = [n \in 1..Len(f) |-> f[n]]  OBVIOUS
<1> QED  BY <1>7, <1>8, <1>9

-----------------------------------------------------------------------------
(* The order in which directories are queued *)

LEMMA CountUpTo ==
  ASSUME NEW n \in Nat
  PROVE  IsFiniteSet(1..n) /\ Cardinality(1..n) = n
<1>1. 1 \in Int /\ n \in Int  OBVIOUS
<1>2. IsFiniteSet(1..n) /\ Cardinality(1..n) = IF 1 > n THEN 0 ELSE n - 1 + 1  BY <1>1, FS_Interval
<1> QED  BY <1>2

PlaceIn(S, rank, e) == Cardinality({f \in S : rank[f] <= rank[e]})

\* Elements of different ranks have the places 1 to n.
LEMMA PlacesAre ==
  ASSUME NEW S, IsFiniteSet(S), NEW rank \in [S -> Nat],
         \A x, y \in S : rank[x] = rank[y] => x = y
  PROVE  /\ Cardinality(S) \in Nat
         /\ \A x \in S : PlaceIn(S, rank, x) \in 1..Cardinality(S)
         /\ \A n \in 1..Cardinality(S) : \E x \in S : PlaceIn(S, rank, x) = n
<1> DEFINE Upto(x) == {f \in S : rank[f] <= rank[x]}
           n == Cardinality(S)
           place == [x \in S |-> PlaceIn(S, rank, x)]
<1>1. n \in Nat  BY FS_CardinalityType
<1>2. \A x \in S : Upto(x) \in SUBSET S /\ x \in Upto(x)  OBVIOUS
<1>3. ASSUME NEW x \in S
      PROVE  IsFiniteSet(Upto(x)) /\ Cardinality(Upto(x)) \in 1..n
  <2>1. Upto(x) \in SUBSET S /\ Upto(x) # {}  BY <1>2
  <2> HIDE DEF Upto
  <2>2. IsFiniteSet(Upto(x)) /\ Cardinality(Upto(x)) <= n  BY <2>1, FS_Subset
  <2>3. Cardinality(Upto(x)) \in Nat /\ Cardinality(Upto(x)) # 0  BY <2>1, <2>2, FS_CardinalityType, FS_EmptySet
  <2> QED  BY <1>1, <2>2, <2>3
<1>4. ASSUME NEW x \in S, NEW y \in S, rank[x] < rank[y]
      PROVE  Cardinality(Upto(x)) < Cardinality(Upto(y))
  <2>1. Upto(x) \in SUBSET Upto(y)
    <3>1. \A f \in S : rank[f] \in Nat  OBVIOUS
    <3> QED  BY <1>4, <3>1
  <2>2. y \in Upto(y) /\ y \notin Upto(x)  BY <1>4
  <2>3. IsFiniteSet(Upto(x)) /\ IsFiniteSet(Upto(y)) /\ Cardinality(Upto(x)) \in Nat /\ Cardinality(Upto(y)) \in Nat
    BY <1>1, <1>3
  <2> HIDE DEF Upto
  <2>4. Cardinality(Upto(x)) <= Cardinality(Upto(y)) /\ Cardinality(Upto(x)) # Cardinality(Upto(y))
    BY <2>1, <2>2, <2>3, FS_Subset
  <2> QED  BY <2>3, <2>4
<1>5. \A x \in S : PlaceIn(S, rank, x) = Cardinality(Upto(x))  BY DEF PlaceIn
<1> HIDE DEF Upto
<1>6. place \in [S -> 1..n]  BY <1>3, <1>5
<1>7. \A x, y \in S : place[x] = place[y] => x = y
  <2> SUFFICES ASSUME NEW x \in S, NEW y \in S, place[x] = place[y] PROVE x = y  OBVIOUS
  <2>1. Cardinality(Upto(x)) = Cardinality(Upto(y)) /\ Cardinality(Upto(x)) \in Nat  BY <1>1, <1>3, <1>5
  <2>2. ~(rank[x] < rank[y]) /\ ~(rank[y] < rank[x])  BY <1>4, <2>1
  <2>3. rank[x] \in Nat /\ rank[y] \in Nat  OBVIOUS
  <2> QED  BY <2>2, <2>3
<1>8. place \in Surjection(S, 1..n)
  <2> HIDE DEF place
  <2>1. place \in Injection(S, 1..n)  BY <1>6, <1>7 DEF Injection, IsInjective
  <2>2. IsFiniteSet(1..n) /\ Cardinality(1..n) = Cardinality(S)  BY <1>1, CountUpTo DEF n
  <2> HIDE DEF n
  <2> QED  BY <2>1, <2>2, FS_Injection
<1>9. \A m \in 1..n : \E x \in S : place[x] = m
  <2> HIDE DEF place
  <2> QED  BY <1>8 DEF Surjection
<1> QED  BY <1>1, <1>3, <1>5, <1>9

EnteredBelow(d) == {e \in Below(d) : Entered(e)}

\* Each directory that is entered is queued once.
LEMMA ChildrenAre ==
  ASSUME NEW d \in Seq(STRING)
  PROVE  /\ Children(d) \in Seq(EnteredBelow(d))
         /\ \A e \in EnteredBelow(d) : \E n \in 1..Len(Children(d)) : Children(d)[n] = e
         /\ \A n, m \in 1..Len(Children(d)) : Children(d)[n] = Children(d)[m] => n = m
<1> DEFINE S == EnteredBelow(d)
           Rank(e) == CHOOSE n \in DOMAIN NameOrder : NameOrder[n] = NameOf(e)
           rank == [e \in S |-> Rank(e)]
           Place(e) == Cardinality({f \in S : Rank(f) <= Rank(e)})
           k == Cardinality(S)
           c == [n \in 1..k |-> CHOOSE e \in S : Place(e) = n]
<1>1. S \subseteq Dirs /\ S \subseteq Seq(STRING) /\ IsFiniteSet(S)
  <2>1. S \in SUBSET Dirs  BY DEF EnteredBelow, Below
  <2> HIDE DEF S
  <2> QED  BY <2>1, ScanConstants, FS_Subset
<1>2. \A e \in S : Len(e) > 0 /\ Parent(e) = d  BY DEF EnteredBelow, Below
<1>3. \A e \in S : Rank(e) \in DOMAIN NameOrder /\ NameOrder[Rank(e)] = NameOf(e)
  <2> SUFFICES ASSUME NEW e \in S PROVE Rank(e) \in DOMAIN NameOrder /\ NameOrder[Rank(e)] = NameOf(e)
    OBVIOUS
  <2>1. e \in Dirs /\ e # << >>  BY <1>1, <1>2
  <2>2. \E n \in DOMAIN NameOrder : NameOrder[n] = NameOf(e)  BY <2>1, ScanConstants
  <2> QED  BY <2>2, Zenon
<1>4. Children(d) = c
  <2>1. S = {e \in Below(d) : Entered(e)}  BY DEF EnteredBelow
  <2> HIDE DEF S
  <2> QED  BY <2>1 DEF Children
<1> HIDE DEF S, Rank
<1>5. rank \in [S -> Nat]  BY <1>3, ScanConstants
<1>6. \A e, f \in S : rank[e] = rank[f] => e = f
  <2> SUFFICES ASSUME NEW e \in S, NEW f \in S, rank[e] = rank[f] PROVE e = f  OBVIOUS
  <2>1. NameOf(e) = NameOf(f)  BY <1>3
  <2>2. e \in Seq(STRING) /\ f \in Seq(STRING) /\ Parent(e) = Parent(f) /\ Len(e) > 0 /\ Len(f) > 0
    BY <1>1, <1>2
  <2> QED  BY <2>1, <2>2, NamesApart
<1>7. \A e \in S : PlaceIn(S, rank, e) = Place(e)
  <2> SUFFICES ASSUME NEW e \in S PROVE PlaceIn(S, rank, e) = Place(e)  OBVIOUS
  <2>1. {f \in S : rank[f] <= rank[e]} = {f \in S : Rank(f) <= Rank(e)}  OBVIOUS
  <2> QED  BY <2>1 DEF PlaceIn
<1> HIDE DEF rank, Place
<1>8. /\ k \in Nat /\ \A e \in S : Place(e) \in 1..k
      /\ \A n \in 1..k : \E e \in S : Place(e) = n
  BY <1>1, <1>5, <1>6, <1>7, PlacesAre
<1>9. \A n \in 1..k : c[n] \in S /\ Place(c[n]) = n
  <2> SUFFICES ASSUME NEW n \in 1..k PROVE c[n] \in S /\ Place(c[n]) = n  OBVIOUS
  <2>1. c[n] = CHOOSE e \in S : Place(e) = n  OBVIOUS
  <2>2. \E e \in S : Place(e) = n  BY <1>8
  <2> QED  BY <2>1, <2>2, Zenon
<1>10. c \in [1..k -> S]
  <2>1. c = [n \in 1..k |-> c[n]]  OBVIOUS
  <2> HIDE DEF c
  <2> QED  BY <1>9, <2>1
<1> HIDE DEF c
<1>11. c \in Seq(S) /\ Len(c) = k  BY <1>8, <1>10
<1>12. \A n, m \in 1..k : c[n] = c[m] => n = m  BY <1>9
<1>13. ASSUME NEW e \in S PROVE \E n \in 1..k : c[n] = e
  <2> DEFINE T == {c[n] : n \in 1..k}
  <2>1. T \in SUBSET S  BY <1>9
  <2>2. c \in Bijection(1..k, T)
    <3>1. c \in [1..k -> T]  BY <1>10
    <3>2. c \in Injection(1..k, T)  BY <1>12, <3>1 DEF Injection, IsInjective
    <3>3. c \in Surjection(1..k, T)  BY <3>1 DEF Surjection
    <3> QED  BY <3>2, <3>3 DEF Bijection
  <2>3. IsFiniteSet(1..k) /\ Cardinality(1..k) = k  BY <1>8, CountUpTo
  <2> HIDE DEF T
  <2>4. Cardinality(T) = k  BY <2>2, <2>3, FS_Bijection DEF ExistsBijection
  <2>5. T = S  BY <1>1, <2>1, <2>4, FS_Subset
  <2> QED  BY <2>5 DEF T
<1> QED  BY <1>4, <1>11, <1>12, <1>13 DEF S

-----------------------------------------------------------------------------
(* The inductive invariant of the walk *)

\* The directories a walk may come to: behind plain ones, and within the depth.
OnTheWay(d) ==
  /\ d \in Dirs /\ Contained(RootDir, d) /\ Depth(d) <= scan.maxDepth
  /\ KindOf(d) \in {"plain", "project", "closed"}
  /\ \A n \in Len(RootDir)..(Len(d) - 1) : KindOf(SubSeq(d, 1, n)) = "plain"

ScanTypes ==
  /\ tree \in Disks
  /\ scan \in [maxDepth : Nat, queue : Seq(Dirs), visited : Nat, found : Seq(Dirs),
              truncated : BOOLEAN, over : BOOLEAN]

Queued == DOMAIN scan.queue
Found == DOMAIN scan.found

\* No two of the queue lead to the same directories.
Apart(q) == \A i, j \in DOMAIN q : i # j => ~Contained(q[i], q[j])

\* The walk goes level by level.
Levels(q) ==
  /\ \A i, j \in DOMAIN q : i < j => Len(q[i]) <= Len(q[j])
  /\ \A i \in DOMAIN q : Len(q[i]) <= Len(q[1]) + 1

\* A directory that was found is not met again, and no deeper than what is queued.
Passed(q, d) == \A i \in DOMAIN q : ~Contained(q[i], d) /\ Len(d) <= Len(q[i])

QueueHolds ==
  /\ \A i \in Queued : OnTheWay(scan.queue[i])
  /\ Apart(scan.queue) /\ Levels(scan.queue)

FoundHolds ==
  /\ \A n \in Found : scan.found[n] \in Nearest /\ Passed(scan.queue, scan.found[n])
  /\ \A n, m \in Found : n # m => scan.found[n] # scan.found[m]
  /\ Len(scan.found) <= MaxCandidates

\* A project that should be found was found, or lies in a part still queued.
NoneForgotten ==
  \A d \in Nearest : (\E n \in Found : scan.found[n] = d) \/ (\E i \in Queued : Contained(scan.queue[i], d))

EndHolds == scan.over /\ ~scan.truncated => scan.queue = << >>

WalkHolds == ScanTypes /\ QueueHolds /\ FoundHolds /\ NoneForgotten /\ EndHolds

\* On a disk that changes only the use of a token is safe.
ScanIInv == TokenStaysUnderRoot /\ (~changed => WalkHolds)

-----------------------------------------------------------------------------

LEMMA RootPath == RootDir \in Seq(STRING) /\ Len(RootDir) \in Nat
BY ScanConstants

LEMMA WayIsReal ==
  ASSUME tree \in Disks, NEW d, OnTheWay(d)
  PROVE  RealPath(d) = d
<1>1. d \in Dirs /\ d \in Seq(STRING) /\ Len(d) \in Nat /\ RootDir \in Seq(STRING) /\ Len(RootDir) \in Nat
  BY ScanConstants DEF OnTheWay
<1>2. ASSUME NEW n \in 1..Len(d) PROVE KindOf(SubSeq(d, 1, n)) # "link"
  <2>1. CASE n = Len(d)
    <3>1. SubSeq(d, 1, Len(d)) = d  BY <1>1
    <3> QED  BY <2>1, <3>1 DEF OnTheWay
  <2>2. CASE n # Len(d) /\ n >= Len(RootDir)
    <3>1. n \in Len(RootDir)..(Len(d) - 1)  BY <1>1, <2>2
    <3> QED  BY <3>1 DEF OnTheWay
  <2>3. CASE n < Len(RootDir)
    <3> DEFINE a == SubSeq(d, 1, n)
    <3>1. a \in Seq(STRING) /\ Len(a) = n /\ Contained(a, d)  BY <1>1, PathTo
    <3> HIDE DEF a
    <3>2. Contained(RootDir, d)  BY DEF OnTheWay
    <3>3. Contained(a, RootDir)  BY <1>1, <2>3, <3>1, <3>2, ContainedOrder
    <3>4. KindOf(a) # "link"  BY <3>3, ScanConstants DEF KindOf
    <3> QED  BY <3>4 DEF a
  <2> QED  BY <1>1, <2>1, <2>2, <2>3
<1>3. {n \in 1..Len(d) : KindOf(SubSeq(d, 1, n)) = "link"} = {}  BY <1>2
<1> QED  BY <1>3 DEF RealPath

LEMMA NearestOnTheWay ==
  \A d : d \in Nearest <=> OnTheWay(d) /\ KindOf(d) = "project"
BY DEF Nearest, OnTheWay

\* The sequence without its head and with more at its end.
LEMMA TailAndMore ==
  ASSUME NEW S, NEW q \in Seq(S), q # << >>, NEW c \in Seq(S)
  PROVE  /\ Len(q) \in Nat /\ Len(q) > 0 /\ Len(c) \in Nat /\ DOMAIN q = 1..Len(q) /\ DOMAIN c = 1..Len(c)
         /\ Head(q) = q[1] /\ q[1] \in S
         /\ Tail(q) \o c \in Seq(S) /\ Len(Tail(q) \o c) = Len(q) - 1 + Len(c)
         /\ DOMAIN (Tail(q) \o c) = 1..(Len(q) - 1 + Len(c))
         /\ \A i \in 1..(Len(q) - 1) : (Tail(q) \o c)[i] = q[i + 1]
         /\ \A i \in Len(q)..(Len(q) - 1 + Len(c)) : (Tail(q) \o c)[i] = c[i - Len(q) + 1]
<1>1. Len(q) \in Nat /\ Len(q) > 0 /\ Len(c) \in Nat /\ DOMAIN q = 1..Len(q) /\ DOMAIN c = 1..Len(c)
  OBVIOUS
<1>2. Head(q) = q[1] /\ q[1] \in S  BY <1>1
<1> DEFINE t == Tail(q)
<1>3. t \in Seq(S) /\ Len(t) = Len(q) - 1 /\ \A i \in 1..(Len(q) - 1) : t[i] = q[i + 1]
  BY <1>1
<1> HIDE DEF t
<1>4. t \o c \in Seq(S) /\ Len(t \o c) = Len(q) - 1 + Len(c)
  <2>1. t \o c \in Seq(S) /\ Len(t \o c) = Len(t) + Len(c)  BY <1>3, ConcatProperties
  <2> QED  BY <1>3, <2>1
<1>5. \A i \in 1..(Len(q) - 1) : (t \o c)[i] = q[i + 1]  BY <1>1, <1>3
<1>6. \A i \in Len(q)..(Len(q) - 1 + Len(c)) : (t \o c)[i] = c[i - Len(q) + 1]  BY <1>1, <1>3
<1> QED  BY <1>1, <1>2, <1>4, <1>5, <1>6 DEF t

\* The head gives way to directories one level below it.
LEMMA QueueMoves ==
  ASSUME NEW q \in Seq(Dirs), q # << >>, Apart(q), Levels(q), NEW c \in Seq(Dirs),
         \A n \in DOMAIN c : Len(c[n]) = Len(q[1]) + 1 /\ Contained(q[1], c[n]),
         \A n, m \in DOMAIN c : c[n] = c[m] => n = m
  PROVE  /\ Apart(Tail(q) \o c) /\ Levels(Tail(q) \o c)
         /\ \A d \in Dirs : Passed(q, d) => Passed(Tail(q) \o c, d)
         /\ c = << >> => Passed(Tail(q) \o c, q[1])
<1> DEFINE r == Tail(q) \o c
           n == Len(q)
           m == n - 1 + Len(c)
<1>1. /\ n \in Nat /\ n > 0 /\ Len(c) \in Nat /\ DOMAIN q = 1..n /\ DOMAIN c = 1..Len(c) /\ q[1] \in Dirs
      /\ r \in Seq(Dirs) /\ Len(r) = m /\ DOMAIN r = 1..m
      /\ \A i \in 1..(n - 1) : r[i] = q[i + 1]
      /\ \A i \in n..m : r[i] = c[i - n + 1]
  BY TailAndMore
<1> HIDE DEF r, n
<1>2. \A a \in Dirs : a \in Seq(STRING) /\ Len(a) \in Nat  BY ScanConstants
<1>3. \A i \in 1..n : q[i] \in Dirs  BY <1>1
<1>4. \A i \in 1..Len(c) : c[i] \in Dirs  BY <1>1
<1>13. \A i, j \in 1..n : i # j => ~Contained(q[i], q[j])  BY <1>1 DEF Apart
<1>14. /\ \A i, j \in 1..n : i < j => Len(q[i]) <= Len(q[j])
       /\ \A i \in 1..n : Len(q[i]) <= Len(q[1]) + 1
  BY <1>1 DEF Levels
<1>15. \A i \in 1..Len(c) : Len(c[i]) = Len(q[1]) + 1 /\ Contained(q[1], c[i])  BY <1>1
<1> DEFINE Old(i) == i \in 1..(n - 1)
           New(i) == i \in n..m
<1>5. \A i \in 1..m : Old(i) \/ New(i)  BY <1>1
<1>6. \A i : Old(i) => i + 1 \in 1..n /\ i + 1 # 1 /\ i \in Nat  BY <1>1
<1>7. \A i : New(i) => i - n + 1 \in 1..Len(c) /\ i \in Nat  BY <1>1
<1>8. Apart(r)
  <2> SUFFICES ASSUME NEW i \in 1..m, NEW j \in 1..m, i # j PROVE ~Contained(r[i], r[j])
    BY <1>1 DEF Apart
  <2>1. CASE Old(i) /\ Old(j)
    <3>1. i + 1 # j + 1  BY <2>1, <1>6
    <3>2. r[i] = q[i + 1] /\ r[j] = q[j + 1] /\ i + 1 \in 1..n /\ j + 1 \in 1..n  BY <1>1, <1>6, <2>1
    <3> QED  BY <1>13, <3>1, <3>2
  <2>2. CASE Old(i) /\ New(j)
    <3> DEFINE a == q[i + 1]
               e == c[j - n + 1]
    <3>1. a \in Dirs /\ e \in Dirs /\ q[1] \in Dirs  BY <1>1, <1>3, <1>4, <1>6, <1>7, <2>2
    <3>2. Len(e) = Len(q[1]) + 1 /\ Contained(q[1], e)  BY <1>1, <1>7, <2>2
    <3>3. ~Contained(q[1], a) /\ ~Contained(a, q[1])
      <4>1. i + 1 \in 1..n /\ i + 1 # 1 /\ 1 \in 1..n  BY <1>1, <1>6, <2>2
      <4> QED  BY <1>13, <4>1
    <3>4. r[i] = a /\ r[j] = e  BY <1>1, <2>2
    <3> HIDE DEF a, e
    <3>5. ~Contained(a, e)
      <4> SUFFICES ASSUME Contained(a, e) PROVE FALSE  OBVIOUS
      <4>1. CASE Len(a) <= Len(q[1])  BY <1>2, <3>1, <3>2, <3>3, <4>1, ContainedOrder
      <4>2. CASE Len(q[1]) <= Len(a)  BY <1>2, <3>1, <3>2, <3>3, <4>2, ContainedOrder
      <4> QED  BY <1>2, <3>1, <4>1, <4>2
    <3> QED  BY <3>4, <3>5
  <2>3. CASE New(i) /\ Old(j)
    <3> DEFINE e == c[i - n + 1]
               a == q[j + 1]
    <3>1. a \in Dirs /\ e \in Dirs /\ q[1] \in Dirs  BY <1>1, <1>3, <1>4, <1>6, <1>7, <2>3
    <3>2. Contained(q[1], e)  BY <1>1, <1>7, <2>3
    <3>3. ~Contained(q[1], a)
      <4>1. j + 1 \in 1..n /\ j + 1 # 1 /\ 1 \in 1..n  BY <1>1, <1>6, <2>3
      <4> QED  BY <1>13, <4>1
    <3>4. r[i] = e /\ r[j] = a  BY <1>1, <2>3
    <3> HIDE DEF a, e
    <3>5. ~Contained(e, a)  BY <1>2, <3>1, <3>2, <3>3, ContainedOrder
    <3> QED  BY <3>4, <3>5
  <2>4. CASE New(i) /\ New(j)
    <3> DEFINE e == c[i - n + 1]
               f == c[j - n + 1]
    <3>1. e \in Dirs /\ f \in Dirs  BY <1>4, <1>7, <2>4
    <3>2. Len(e) = Len(q[1]) + 1 /\ Len(f) = Len(q[1]) + 1  BY <1>1, <1>7, <2>4
    <3>3. e # f
      <4>1. i - n + 1 # j - n + 1  BY <1>1, <1>7, <2>4
      <4> QED  BY <1>1, <1>7, <2>4, <4>1
    <3>4. r[i] = e /\ r[j] = f  BY <1>1, <2>4
    <3> HIDE DEF e, f
    <3>5. ~Contained(e, f)
      <4>1. Len(f) <= Len(e)  BY <1>1, <1>2, <3>2
      <4> QED  BY <1>2, <3>1, <3>3, <4>1, ContainedOrder
    <3> QED  BY <3>4, <3>5
  <2> QED  BY <1>5, <2>1, <2>2, <2>3, <2>4
<1>9. /\ \A i : Old(i) => r[i] \in Dirs /\ Len(r[i]) >= Len(q[1]) /\ Len(r[i]) <= Len(q[1]) + 1
      /\ \A i : New(i) => r[i] \in Dirs /\ Len(r[i]) = Len(q[1]) + 1
  <2>1. ASSUME NEW i, Old(i) PROVE r[i] \in Dirs /\ Len(r[i]) >= Len(q[1]) /\ Len(r[i]) <= Len(q[1]) + 1
    <3>1. r[i] = q[i + 1] /\ i + 1 \in 1..n /\ 1 < i + 1 /\ 1 \in 1..n  BY <1>1, <1>6, <2>1
    <3>2. Len(q[1]) <= Len(q[i + 1]) /\ Len(q[i + 1]) <= Len(q[1]) + 1  BY <1>14, <3>1
    <3> QED  BY <1>2, <1>3, <3>1, <3>2
  <2>2. ASSUME NEW i, New(i) PROVE r[i] \in Dirs /\ Len(r[i]) = Len(q[1]) + 1
    <3>1. i - n + 1 \in 1..Len(c) /\ r[i] = c[i - n + 1]  BY <1>1, <1>7, <2>2
    <3> QED  BY <1>4, <1>15, <3>1
  <2> QED  BY <2>1, <2>2
<1>10. Levels(r)
  <2>1. Len(q[1]) \in Nat  BY <1>1, <1>2
  <2>2. ASSUME NEW i \in 1..m, NEW j \in 1..m, i < j PROVE Len(r[i]) <= Len(r[j])
    <3>1. CASE Old(i) /\ Old(j)
      <4>1. i + 1 < j + 1 /\ i + 1 \in 1..n /\ j + 1 \in 1..n  BY <1>6, <2>2, <3>1
      <4>2. r[i] = q[i + 1] /\ r[j] = q[j + 1]  BY <1>1, <3>1
      <4> QED  BY <1>14, <4>1, <4>2
    <3>2. CASE New(j)
      <4>1. Len(r[j]) = Len(q[1]) + 1  BY <1>9, <3>2
      <4>2. Len(r[i]) <= Len(q[1]) + 1
        <5>1. Old(i) \/ New(i)  BY <1>5
        <5>2. r[i] \in Dirs /\ (Len(r[i]) <= Len(q[1]) + 1 \/ Len(r[i]) = Len(q[1]) + 1)  BY <1>9, <5>1
        <5> QED  BY <1>2, <2>1, <5>2
      <4> QED  BY <4>1, <4>2
    <3>3. CASE New(i) /\ Old(j)  BY <1>1, <2>2, <3>3
    <3> QED  BY <1>5, <3>1, <3>2, <3>3
  <2>3. ASSUME NEW i \in 1..m PROVE Len(r[i]) <= Len(r[1]) + 1
    <3>1. 1 \in 1..m  BY <1>1
    <3>2. Len(r[1]) >= Len(q[1]) /\ Len(r[1]) \in Nat
      <4>1. Old(1) \/ New(1)  BY <1>5, <3>1
      <4>2. r[1] \in Dirs /\ (Len(r[1]) >= Len(q[1]) \/ Len(r[1]) = Len(q[1]) + 1)  BY <1>9, <4>1
      <4> QED  BY <1>2, <2>1, <4>2
    <3>3. Len(r[i]) <= Len(q[1]) + 1 /\ Len(r[i]) \in Nat
      <4>1. Old(i) \/ New(i)  BY <1>5
      <4>2. r[i] \in Dirs /\ (Len(r[i]) <= Len(q[1]) + 1 \/ Len(r[i]) = Len(q[1]) + 1)  BY <1>9, <4>1
      <4> QED  BY <1>2, <2>1, <4>2
    <3> QED  BY <2>1, <3>2, <3>3
  <2> QED  BY <1>1, <2>2, <2>3 DEF Levels
<1>11. ASSUME NEW d \in Dirs, Passed(q, d) PROVE Passed(r, d)
  <2> SUFFICES ASSUME NEW i \in 1..m PROVE ~Contained(r[i], d) /\ Len(d) <= Len(r[i])
    BY <1>1 DEF Passed
  <2>1. 1 \in 1..n /\ ~Contained(q[1], d) /\ Len(d) <= Len(q[1])
    <3>1. \A j \in 1..n : ~Contained(q[j], d) /\ Len(d) <= Len(q[j])  BY <1>1, <1>11 DEF Passed
    <3>2. 1 \in 1..n  BY <1>1
    <3> QED  BY <3>1, <3>2
  <2>2. CASE Old(i)
    <3>1. r[i] = q[i + 1] /\ i + 1 \in 1..n  BY <1>1, <1>6, <2>2
    <3>2. \A j \in 1..n : ~Contained(q[j], d) /\ Len(d) <= Len(q[j])  BY <1>1, <1>11 DEF Passed
    <3> QED  BY <3>1, <3>2
  <2>3. CASE New(i)
    <3> DEFINE e == c[i - n + 1]
    <3>1. e \in Dirs /\ Contained(q[1], e) /\ Len(e) = Len(q[1]) + 1 /\ r[i] = e  BY <1>1, <1>4, <1>7, <2>3
    <3> HIDE DEF e
    <3> QED  BY <1>1, <1>2, <2>1, <3>1, ContainedOrder
  <2> QED  BY <1>5, <2>2, <2>3
<1>12. ASSUME c = << >> PROVE Passed(r, q[1])
  <2> SUFFICES ASSUME NEW i \in 1..m PROVE ~Contained(r[i], q[1]) /\ Len(q[1]) <= Len(r[i])
    BY <1>1 DEF Passed
  <2>1. Old(i)  BY <1>1, <1>12
  <2>2. r[i] = q[i + 1] /\ i + 1 \in 1..n /\ i + 1 # 1 /\ 1 \in 1..n  BY <1>1, <1>6, <2>1
  <2>3. ~Contained(q[i + 1], q[1])  BY <1>13, <2>2
  <2> QED  BY <1>9, <2>1, <2>2, <2>3
<1> QED  BY <1>8, <1>10, <1>11, <1>12 DEF r

\* What is queued in place of a directory.
Behind(d) ==
  IF KindOf(RealPath(d)) \in {"closed", "absent"} \/ Boundary(d) \/ ~Deeper(d) THEN << >>
  ELSE Children(RealPath(d))

LEMMA VisitIs ==
  ASSUME scan.queue \in Seq(Dirs), scan.queue # << >>, NEW d
  PROVE  Visit(d) = [scan EXCEPT !.visited = @ + 1,
                                 !.found = IF Boundary(d) THEN Append(@, d) ELSE @,
                                 !.queue = Tail(@) \o Behind(d)]
<1>1. Tail(scan.queue) \in Seq(Dirs)  OBVIOUS
<1>2. Tail(scan.queue) \o << >> = Tail(scan.queue)  BY <1>1
<1> QED  BY <1>2 DEF Visit, Behind, Boundary

\* What a directory on the way is replaced by: its children on the way, and all that lead to a project.
LEMMA BehindIs ==
  ASSUME ScanTypes, NEW d, OnTheWay(d)
  PROVE  /\ Behind(d) \in Seq(Dirs)
         /\ \A n \in DOMAIN Behind(d) : /\ Len(Behind(d)[n]) = Len(d) + 1 /\ Contained(d, Behind(d)[n])
                                       /\ OnTheWay(Behind(d)[n])
         /\ \A n, m \in DOMAIN Behind(d) : Behind(d)[n] = Behind(d)[m] => n = m
         /\ Boundary(d) <=> KindOf(d) = "project"
         /\ Boundary(d) => Behind(d) = << >>
         /\ \A p \in Nearest : Contained(d, p) /\ p # d =>
              ~Boundary(d) /\ \E n \in DOMAIN Behind(d) : Contained(Behind(d)[n], p)
<1>1. tree \in Disks /\ RealPath(d) = d  BY WayIsReal DEF ScanTypes
<1>2. d \in Dirs /\ d \in Seq(STRING) /\ Len(d) \in Nat /\ RootDir \in Seq(STRING) /\ Len(RootDir) \in Nat
  BY ScanConstants DEF OnTheWay
<1>3. Boundary(d) <=> KindOf(d) = "project"  BY <1>1 DEF Boundary
<1>4. scan.maxDepth \in Nat /\ Contained(RootDir, d) /\ Depth(d) <= scan.maxDepth
  BY DEF ScanTypes, OnTheWay
<1>5. Len(RootDir) <= Len(d)  BY <1>4 DEF Contained
<1>6. Deeper(d) <=> Len(d) - Len(RootDir) < scan.maxDepth  BY DEF Deeper, Depth
<1> DEFINE open == ~(KindOf(d) \in {"closed", "absent"} \/ Boundary(d) \/ ~Deeper(d))
<1>7. Behind(d) = IF open THEN Children(d) ELSE << >>  BY <1>1 DEF Behind
<1>8. /\ Children(d) \in Seq(EnteredBelow(d)) /\ DOMAIN Children(d) = 1..Len(Children(d))
      /\ \A e \in EnteredBelow(d) : \E n \in 1..Len(Children(d)) : Children(d)[n] = e
      /\ \A n, m \in 1..Len(Children(d)) : Children(d)[n] = Children(d)[m] => n = m
  BY <1>2, ChildrenAre
<1>9. open => KindOf(d) = "plain"  BY <1>3 DEF OnTheWay
<1>10. ASSUME NEW e \in EnteredBelow(d)
       PROVE  e \in Dirs /\ e \in Seq(STRING) /\ Len(e) = Len(d) + 1 /\ Contained(d, e) /\ SubSeq(e, 1, Len(d)) = d
  BY <1>2, ChildOf, ScanConstants DEF EnteredBelow, Below
<1>11. ASSUME NEW e \in EnteredBelow(d), open PROVE OnTheWay(e)
  <2>1. /\ e \in Dirs /\ e \in Seq(STRING) /\ Len(e) = Len(d) + 1
        /\ Contained(d, e) /\ SubSeq(e, 1, Len(d)) = d
    BY <1>10
  <2>2. Contained(RootDir, e)  BY <1>2, <1>4, <2>1, ContainedOrder
  <2>3. Depth(e) <= scan.maxDepth  BY <1>2, <1>4, <1>6, <1>11, <2>1 DEF Depth
  <2>4. KindOf(e) \in {"plain", "project", "closed"}  BY DEF EnteredBelow, Entered
  <2>5. ASSUME NEW n \in Len(RootDir)..(Len(e) - 1) PROVE KindOf(SubSeq(e, 1, n)) = "plain"
    <3>1. CASE n = Len(d)  BY <1>9, <1>11, <2>1, <3>1
    <3>2. CASE n # Len(d)
      <4>1. n \in Len(RootDir)..(Len(d) - 1) /\ n \in 0..Len(d) /\ n \in 0..Len(e)
        <5>1. Len(e) - 1 = Len(d)  BY <1>2, <2>1
        <5>2. n \in Int /\ Len(RootDir) <= n /\ n <= Len(d)  BY <1>2, <2>5, <5>1
        <5>3. Len(d) \in Nat /\ Len(RootDir) \in Nat /\ Len(e) = Len(d) + 1 /\ n # Len(d)  BY <1>2, <2>1, <3>2
        <5> QED  BY <5>2, <5>3
      <4>2. /\ SubSeq(d, 1, n) \in Seq(STRING) /\ Len(SubSeq(d, 1, n)) = n /\ Contained(SubSeq(d, 1, n), d)
        BY <1>2, <4>1, PathTo
      <4>3. Contained(SubSeq(d, 1, n), e)  BY <1>2, <2>1, <4>2, ContainedOrder
      <4>4. SubSeq(e, 1, n) = SubSeq(d, 1, n)  BY <2>1, <4>1, <4>2, <4>3, PathTo
      <4>5. KindOf(SubSeq(d, 1, n)) = "plain"  BY <4>1 DEF OnTheWay
      <4> QED  BY <4>4, <4>5
    <3> QED  BY <3>1, <3>2
  <2> QED  BY <2>1, <2>2, <2>3, <2>4, <2>5 DEF OnTheWay
<1>12. ASSUME NEW p \in Nearest, Contained(d, p), p # d
       PROVE  open /\ \E n \in DOMAIN Children(d) : Contained(Children(d)[n], p)
  <2>1. /\ p \in Dirs /\ p \in Seq(STRING) /\ Len(p) \in Nat /\ OnTheWay(p) /\ KindOf(p) = "project"
    BY ScanConstants, NearestOnTheWay DEF OnTheWay
  <2>2. Len(d) < Len(p)
    <3>1. Len(d) <= Len(p)  BY <1>12 DEF Contained
    <3>2. ~(Len(p) <= Len(d))  BY <1>2, <1>12, <2>1, ContainedOrder
    <3> QED  BY <1>2, <2>1, <3>1, <3>2
  <2>3. SubSeq(p, 1, Len(d)) = d  BY <1>12 DEF Contained
  <2>4. \A n \in Len(RootDir)..(Len(p) - 1) : KindOf(SubSeq(p, 1, n)) = "plain"  BY <2>1 DEF OnTheWay
  <2>5. KindOf(d) = "plain"
    <3>1. Len(d) \in Len(RootDir)..(Len(p) - 1)  BY <1>2, <1>5, <2>1, <2>2
    <3> QED  BY <2>3, <2>4, <3>1
  <2>6. Deeper(d)
    <3>1. Len(p) - Len(RootDir) <= scan.maxDepth  BY <2>1 DEF OnTheWay, Depth
    <3> QED  BY <1>2, <1>4, <1>6, <2>1, <2>2, <3>1
  <2>7. open  BY <1>3, <2>5, <2>6
  <2> DEFINE e == SubSeq(p, 1, Len(d) + 1)
  <2>8. e \in Seq(STRING) /\ Len(e) = Len(d) + 1 /\ Contained(e, p)
    <3>1. Len(d) + 1 \in 0..Len(p)  BY <1>2, <2>1, <2>2
    <3> QED  BY <2>1, <3>1, PathTo
  <2>9. KindOf(e) \in {"plain", "project"}
    <3>1. CASE Len(d) + 1 = Len(p)
      <4>1. e = p  BY <2>1, <3>1
      <4> QED  BY <2>1, <4>1
    <3>2. CASE Len(d) + 1 # Len(p)
      <4>1. Len(d) + 1 \in Len(RootDir)..(Len(p) - 1)  BY <1>2, <1>5, <2>1, <2>2, <3>2
      <4> QED  BY <2>4, <4>1
    <3> QED  BY <3>1, <3>2
  <2> HIDE DEF e
  <2>10. Contained(d, e)  BY <1>2, <1>12, <2>1, <2>8, ContainedOrder
  <2>11. Parent(e) = d
    <3>1. Len(e) - 1 = Len(d)  BY <1>2, <2>8
    <3> QED  BY <2>10, <3>1 DEF Parent, Contained
  <2>12. e \in Dirs  BY <2>9 DEF KindOf
  <2>13. Len(e) > 0  BY <1>2, <2>8
  <2>14. Entered(e)
    <3>1. Contained(RootDir, e)  BY <1>2, <1>4, <2>8, <2>10, ContainedOrder
    <3>2. Depth(e) <= scan.maxDepth
      <4>1. Len(p) - Len(RootDir) <= scan.maxDepth  BY <2>1 DEF OnTheWay, Depth
      <4> QED  BY <1>2, <1>4, <2>1, <2>2, <2>8, <4>1 DEF Depth
    <3>3. ASSUME NEW n \in Len(RootDir)..(Len(e) - 1) PROVE KindOf(SubSeq(e, 1, n)) = "plain"
      <4>1. n \in 0..Len(e) /\ n \in 0..Len(p) /\ n \in Len(RootDir)..(Len(p) - 1)
        BY <1>2, <2>1, <2>2, <2>8
      <4>2. /\ SubSeq(e, 1, n) \in Seq(STRING) /\ Len(SubSeq(e, 1, n)) = n
            /\ Contained(SubSeq(e, 1, n), e)
        BY <2>8, <4>1, PathTo
      <4>3. Contained(SubSeq(e, 1, n), p)  BY <2>1, <2>8, <4>2, ContainedOrder
      <4>4. SubSeq(p, 1, n) = SubSeq(e, 1, n)  BY <2>1, <4>1, <4>2, <4>3, PathTo
      <4> QED  BY <2>4, <4>1, <4>4
    <3>4. OnTheWay(e)  BY <2>9, <2>12, <3>1, <3>2, <3>3 DEF OnTheWay
    <3>5. RealPath(e) = e  BY <1>1, <3>4, WayIsReal
    <3> QED  BY <2>9, <3>1, <3>5 DEF Entered
  <2>15. e \in EnteredBelow(d)  BY <2>11, <2>12, <2>13, <2>14 DEF EnteredBelow, Below
  <2> QED  BY <1>8, <2>7, <2>8, <2>15
<1> HIDE DEF open
<1>13. Children(d) \in Seq(Dirs)
  <2>1. EnteredBelow(d) \subseteq Dirs  BY DEF EnteredBelow, Below
  <2> QED  BY <1>8, <2>1
<1>14. CASE open
  <2>1. Behind(d) = Children(d)  BY <1>7, <1>14
  <2>2. \A n \in DOMAIN Children(d) : Children(d)[n] \in EnteredBelow(d)  BY <1>8
  <2>3. \A n \in DOMAIN Children(d) : /\ Len(Children(d)[n]) = Len(d) + 1 /\ Contained(d, Children(d)[n])
                                      /\ OnTheWay(Children(d)[n])
    BY <1>10, <1>11, <1>14, <2>2
  <2>4. ~Boundary(d)  BY <1>14 DEF open
  <2> QED  BY <1>3, <1>8, <1>12, <1>13, <2>1, <2>3, <2>4
<1>15. CASE ~open
  <2>1. Behind(d) = << >>  BY <1>7, <1>15
  <2>2. << >> \in Seq(Dirs) /\ DOMAIN << >> = {}  OBVIOUS
  <2> QED  BY <1>3, <1>12, <1>15, <2>1, <2>2
<1> QED  BY <1>14, <1>15

\* One directory is taken from the queue and looked at.
LEMMA VisitStep ==
  ASSUME WalkHolds, UNCHANGED tree, scan.queue # << >>, ~scan.over,
         Boundary(Head(scan.queue)) => Len(scan.found) < MaxCandidates,
         scan' = Visit(Head(scan.queue))
  PROVE  WalkHolds'
<1>1. PICK q : q = scan.queue  OBVIOUS
<1>2. PICK f : f = scan.found  OBVIOUS
<1> DEFINE d == q[1]
           c == Behind(d)
<1>3. /\ q \in Seq(Dirs) /\ q # << >> /\ f \in Seq(Dirs)
      /\ \A i \in DOMAIN q : OnTheWay(q[i])
      /\ Apart(q) /\ Levels(q)
      /\ \A n \in DOMAIN f : f[n] \in Nearest /\ Passed(q, f[n])
      /\ \A n, m \in DOMAIN f : n # m => f[n] # f[m]
      /\ Len(f) <= MaxCandidates
      /\ \A p \in Nearest : (\E n \in DOMAIN f : f[n] = p) \/ (\E i \in DOMAIN q : Contained(q[i], p))
  BY <1>1, <1>2 DEF WalkHolds, ScanTypes, QueueHolds, FoundHolds, NoneForgotten, Queued, Found
<1>4. Head(q) = d /\ 1 \in DOMAIN q /\ d \in Dirs /\ OnTheWay(d)
  <2>1. Head(q) = d /\ DOMAIN q = 1..Len(q) /\ Len(q) \in Nat /\ Len(q) > 0 /\ d \in Dirs  BY <1>3, TailAndMore
  <2> QED  BY <1>3, <2>1
<1> HIDE DEF d
<1>5. /\ c \in Seq(Dirs)
      /\ \A n \in DOMAIN c : Len(c[n]) = Len(d) + 1 /\ Contained(d, c[n]) /\ OnTheWay(c[n])
      /\ \A n, m \in DOMAIN c : c[n] = c[m] => n = m
      /\ Boundary(d) <=> KindOf(d) = "project"
      /\ Boundary(d) => c = << >>
      /\ \A p \in Nearest : Contained(d, p) /\ p # d =>
           ~Boundary(d) /\ \E n \in DOMAIN c : Contained(c[n], p)
  BY <1>4, BehindIs DEF WalkHolds
<1> HIDE DEF c
<1> DEFINE r == Tail(q) \o c
           g == IF Boundary(d) THEN Append(f, d) ELSE f
<1>6. scan' = [scan EXCEPT !.visited = @ + 1, !.found = g, !.queue = r]
  <2>1. scan.queue \in Seq(Dirs) /\ scan.queue # << >>  BY <1>1, <1>3
  <2>2. Visit(d) = [scan EXCEPT !.visited = @ + 1,
                                !.found = IF Boundary(d) THEN Append(@, d) ELSE @,
                                !.queue = Tail(@) \o Behind(d)]
    BY <2>1, VisitIs
  <2>3. scan' = Visit(d)  BY <1>1, <1>4
  <2> QED  BY <1>1, <1>2, <2>2, <2>3 DEF c
<1>7. /\ Apart(r) /\ Levels(r)
      /\ \A p \in Dirs : Passed(q, p) => Passed(r, p)
      /\ c = << >> => Passed(r, d)
  BY <1>3, <1>5, QueueMoves DEF d
<1>8. /\ Len(q) \in Nat /\ Len(q) > 0 /\ Len(c) \in Nat /\ DOMAIN q = 1..Len(q) /\ DOMAIN c = 1..Len(c)
      /\ r \in Seq(Dirs) /\ DOMAIN r = 1..(Len(q) - 1 + Len(c))
      /\ \A i \in 1..(Len(q) - 1) : r[i] = q[i + 1]
      /\ \A i \in Len(q)..(Len(q) - 1 + Len(c)) : r[i] = c[i - Len(q) + 1]
  BY <1>3, <1>5, TailAndMore
<1> HIDE DEF r
<1>9. /\ \A i \in 2..Len(q) : \E j \in DOMAIN r : r[j] = q[i]
      /\ \A n \in DOMAIN c : \E j \in DOMAIN r : r[j] = c[n]
  <2>1. ASSUME NEW i \in 2..Len(q) PROVE \E j \in DOMAIN r : r[j] = q[i]
    <3>1. i - 1 \in 1..(Len(q) - 1) /\ i - 1 \in DOMAIN r /\ i - 1 + 1 = i  BY <1>8
    <3>2. r[i - 1] = q[i]  BY <1>8, <3>1
    <3> QED  BY <3>1, <3>2
  <2>2. ASSUME NEW n \in DOMAIN c PROVE \E j \in DOMAIN r : r[j] = c[n]
    <3> DEFINE j == Len(q) - 1 + n
    <3>1. j \in Len(q)..(Len(q) - 1 + Len(c)) /\ j \in DOMAIN r /\ j - Len(q) + 1 = n  BY <1>8
    <3>2. r[j] = c[n]  BY <1>8, <3>1
    <3> QED  BY <3>1, <3>2
  <2> QED  BY <2>1, <2>2
<1>10. \A i \in DOMAIN r : OnTheWay(r[i])
  <2> SUFFICES ASSUME NEW i \in DOMAIN r PROVE OnTheWay(r[i])  OBVIOUS
  <2>1. CASE i < Len(q)
    <3>1. i \in 1..(Len(q) - 1) /\ i + 1 \in DOMAIN q  BY <1>8, <2>1
    <3> QED  BY <1>3, <1>8, <3>1
  <2>2. CASE ~(i < Len(q))
    <3>1. i \in Len(q)..(Len(q) - 1 + Len(c)) /\ i - Len(q) + 1 \in DOMAIN c  BY <1>8, <2>2
    <3> QED  BY <1>5, <1>8, <3>1
  <2> QED  BY <2>1, <2>2
<1>11. /\ g \in Seq(Dirs) /\ Len(g) <= MaxCandidates
       /\ \A n \in DOMAIN g : g[n] \in Nearest /\ Passed(r, g[n])
       /\ \A n, m \in DOMAIN g : n # m => g[n] # g[m]
       /\ \A n \in DOMAIN f : \E m \in DOMAIN g : g[m] = f[n]
       /\ Boundary(d) => \E m \in DOMAIN g : g[m] = d
  <2>1. \A n \in DOMAIN f : f[n] \in Dirs /\ Passed(r, f[n]) /\ f[n] # d
    <3> SUFFICES ASSUME NEW n \in DOMAIN f PROVE f[n] \in Dirs /\ Passed(r, f[n]) /\ f[n] # d  OBVIOUS
    <3>1. f[n] \in Dirs /\ Passed(q, f[n])  BY <1>3
    <3>2. ~Contained(d, f[n])  BY <1>4, <3>1 DEF Passed, d
    <3>3. d \in Seq(STRING)  BY <1>4, ScanConstants
    <3>4. Contained(d, d)  BY <3>3, ContainedOrder
    <3> QED  BY <1>7, <3>1, <3>2, <3>4
  <2>2. CASE ~Boundary(d)
    <3>1. g = f  BY <2>2
    <3> QED  BY <1>3, <2>1, <2>2, <3>1
  <2>3. CASE Boundary(d)
    <3>1. d \in Nearest  BY <1>4, <1>5, <2>3, NearestOnTheWay
    <3>2. Passed(r, d)  BY <1>5, <1>7, <2>3
    <3>3. g = Append(f, d)  BY <2>3
    <3>4. Len(f) < MaxCandidates /\ MaxCandidates \in Nat  BY <1>1, <1>2, <1>4, <2>3, ScanConstants
    <3>5. Len(f) \in Nat /\ DOMAIN f = 1..Len(f)  BY <1>3
    <3>6. /\ g \in Seq(Dirs) /\ Len(g) = Len(f) + 1 /\ DOMAIN g = 1..(Len(f) + 1)
          /\ \A n \in 1..Len(f) : g[n] = f[n]
          /\ g[Len(f) + 1] = d
      <4> HIDE DEF g
      <4>1. g \in Seq(Dirs) /\ Len(g) = Len(f) + 1  BY <1>3, <1>4, <3>3
      <4>2. DOMAIN g = 1..Len(g)  BY <4>1
      <4> QED  BY <1>3, <1>4, <3>3, <3>5, <4>1, <4>2
    <3> HIDE DEF g
    <3>7. Len(g) <= MaxCandidates  BY <3>4, <3>5, <3>6
    <3>8. \A n \in DOMAIN g : n \in 1..Len(f) \/ n = Len(f) + 1  BY <3>5, <3>6
    <3>9. \A n \in DOMAIN g : g[n] \in Nearest /\ Passed(r, g[n])
      BY <1>3, <2>1, <3>1, <3>2, <3>5, <3>6, <3>8
    <3>10. \A n, m \in DOMAIN g : n # m => g[n] # g[m]
      BY <1>3, <2>1, <3>5, <3>6, <3>8
    <3>11. Len(f) + 1 \in DOMAIN g /\ DOMAIN f \subseteq DOMAIN g  BY <3>5, <3>6
    <3> QED  BY <3>5, <3>6, <3>7, <3>9, <3>10, <3>11
  <2> QED  BY <2>2, <2>3
<1> HIDE DEF g
<1>12. \A p \in Nearest : (\E n \in DOMAIN g : g[n] = p) \/ (\E i \in DOMAIN r : Contained(r[i], p))
  <2> SUFFICES ASSUME NEW p \in Nearest, ~\E n \in DOMAIN g : g[n] = p
               PROVE  \E i \in DOMAIN r : Contained(r[i], p)
    OBVIOUS
  <2>1. ~\E n \in DOMAIN f : f[n] = p
    <3> SUFFICES ASSUME NEW n \in DOMAIN f, f[n] = p PROVE FALSE  OBVIOUS
    <3>1. PICK m \in DOMAIN g : g[m] = f[n]  BY <1>11
    <3> QED  BY <3>1
  <2>2. PICK i \in DOMAIN q : Contained(q[i], p)  BY <1>3, <2>1
  <2>3. CASE i = 1
    <3>1. Contained(d, p)  BY <2>2, <2>3 DEF d
    <3>2. CASE p = d
      <4>1. Boundary(d)  BY <1>5, <3>2, NearestOnTheWay
      <4> QED  BY <1>11, <3>2, <4>1
    <3>3. CASE p # d
      <4>1. PICK n \in DOMAIN c : Contained(c[n], p)  BY <1>5, <3>1, <3>3
      <4>2. PICK j \in DOMAIN r : r[j] = c[n]  BY <1>9
      <4> QED  BY <4>1, <4>2
    <3> QED  BY <3>2, <3>3
  <2>4. CASE i # 1
    <3>1. i \in 2..Len(q)  BY <1>8, <2>4
    <3>2. PICK j \in DOMAIN r : r[j] = q[i]  BY <1>9, <3>1
    <3> QED  BY <2>2, <3>2
  <2> QED  BY <2>3, <2>4
<1>13. /\ scan'.queue = r /\ scan'.found = g /\ scan'.maxDepth = scan.maxDepth
       /\ scan'.over = scan.over /\ scan'.truncated = scan.truncated
       /\ scan' \in [maxDepth : Nat, queue : Seq(Dirs), visited : Nat, found : Seq(Dirs),
                     truncated : BOOLEAN, over : BOOLEAN]
  <2>1. scan \in [maxDepth : Nat, queue : Seq(Dirs), visited : Nat, found : Seq(Dirs),
                  truncated : BOOLEAN, over : BOOLEAN]
    BY DEF WalkHolds, ScanTypes
  <2>2. PICK S : S = Seq(Dirs)  OBVIOUS
  <2>3. PICK s : s = scan  OBVIOUS
  <2>4. PICK t : t = scan'  OBVIOUS
  <2>5. t = [s EXCEPT !.visited = s.visited + 1, !.found = g, !.queue = r]  BY <1>6, <2>3, <2>4
  <2>6. g \in S /\ r \in S  BY <1>8, <1>11, <2>2
  <2>7. s \in [maxDepth : Nat, queue : S, visited : Nat, found : S, truncated : BOOLEAN, over : BOOLEAN]
    BY <2>1, <2>2, <2>3
  <2>8. /\ t.queue = r /\ t.found = g /\ t.maxDepth = s.maxDepth /\ t.over = s.over
        /\ t.truncated = s.truncated
        /\ t \in [maxDepth : Nat, queue : S, visited : Nat, found : S, truncated : BOOLEAN, over : BOOLEAN]
    <3>1. PICK v : v = s.visited + 1  OBVIOUS
    <3>2. v \in Nat  BY ONLY <2>7, <3>1
    <3>3. t = [s EXCEPT !.visited = v, !.found = g, !.queue = r]  BY ONLY <2>5, <3>1
    <3>4. /\ t.queue = r /\ t.found = g /\ t.maxDepth = s.maxDepth /\ t.over = s.over
          /\ t.truncated = s.truncated /\ t.visited = v
      BY ONLY <2>7, <3>3
    <3>5. t \in [maxDepth : Nat, queue : S, visited : Nat, found : S, truncated : BOOLEAN, over : BOOLEAN]
      BY ONLY <2>6, <2>7, <3>2, <3>3
    <3> QED  BY ONLY <3>4, <3>5
  <2> QED  BY ONLY <2>2, <2>3, <2>4, <2>8
<1>14. (\A x : OnTheWay(x)' <=> OnTheWay(x)) /\ Nearest' = Nearest
  <2>1. \A x : KindOf(x)' = KindOf(x)  BY DEF KindOf
  <2>2. \A x : OnTheWay(x)' <=> OnTheWay(x)  BY <1>13, <2>1 DEF OnTheWay, Depth
  <2>3. Nearest' = Nearest  BY <1>13, <2>1 DEF Nearest, Depth
  <2> QED  BY <2>2, <2>3
<1>15. ScanTypes'  BY <1>13 DEF WalkHolds, ScanTypes
<1>16. QueueHolds'  BY <1>7, <1>10, <1>13, <1>14 DEF QueueHolds, Queued
<1>17. FoundHolds'  BY <1>11, <1>13, <1>14 DEF FoundHolds, Found
<1>18. NoneForgotten'  BY <1>12, <1>13, <1>14 DEF NoneForgotten, Found, Queued
<1>19. EndHolds'  BY <1>13 DEF EndHolds
<1> QED  BY <1>15, <1>16, <1>17, <1>18, <1>19 DEF WalkHolds

LEMMA RoundStep ==
  ASSUME WalkHolds, UNCHANGED tree, ScanRound
  PROVE  WalkHolds'
<1>1. /\ scan \in [maxDepth : Nat, queue : Seq(Dirs), visited : Nat, found : Seq(Dirs),
                   truncated : BOOLEAN, over : BOOLEAN]
      /\ ~scan.over
  BY DEF WalkHolds, ScanTypes, ScanRound
<1>2. CASE /\ scan'.queue = scan.queue /\ scan'.found = scan.found /\ scan'.maxDepth = scan.maxDepth
           /\ scan' \in [maxDepth : Nat, queue : Seq(Dirs), visited : Nat, found : Seq(Dirs),
                         truncated : BOOLEAN, over : BOOLEAN]
           /\ scan.queue = << >> \/ scan'.truncated
  <2>1. \A x : KindOf(x)' = KindOf(x)  BY DEF KindOf
  <2>2. (\A x : OnTheWay(x)' <=> OnTheWay(x)) /\ Nearest' = Nearest
    BY <1>2, <2>1 DEF OnTheWay, Nearest, Depth
  <2>3. ScanTypes'  BY <1>2 DEF WalkHolds, ScanTypes
  <2>4. QueueHolds'  BY <1>2, <2>2 DEF WalkHolds, QueueHolds, Queued
  <2>5. FoundHolds'  BY <1>2, <2>2 DEF WalkHolds, FoundHolds, Found
  <2>6. NoneForgotten'  BY <1>2, <2>2 DEF WalkHolds, NoneForgotten, Found, Queued
  <2>7. EndHolds'  BY <1>2 DEF EndHolds
  <2> QED  BY <2>3, <2>4, <2>5, <2>6, <2>7 DEF WalkHolds
<1>3. CASE scan.queue = << >>
  <2>1. scan' = [scan EXCEPT !.over = TRUE]  BY <1>3 DEF ScanRound
  <2> QED  BY <1>1, <1>2, <1>3, <2>1
<1>4. CASE /\ scan.queue # << >>
           /\ \/ scan.visited >= MaxScanned
              \/ KindOf(RealPath(Head(scan.queue))) = "project" /\ Len(scan.found) >= MaxCandidates
  <2>1. scan' = [scan EXCEPT !.over = TRUE, !.truncated = TRUE]  BY <1>4 DEF ScanRound
  <2> QED  BY <1>1, <1>2, <2>1
<1>5. CASE /\ scan.queue # << >>
           /\ ~\/ scan.visited >= MaxScanned
               \/ KindOf(RealPath(Head(scan.queue))) = "project" /\ Len(scan.found) >= MaxCandidates
  <2>1. scan' = Visit(Head(scan.queue))  BY <1>5 DEF ScanRound
  <2>2. Boundary(Head(scan.queue)) => Len(scan.found) < MaxCandidates
    <3>1. Len(scan.found) \in Nat /\ MaxCandidates \in Nat  BY <1>1, ScanConstants
    <3> QED  BY <1>5, <3>1 DEF Boundary
  <2> QED  BY <1>1, <1>5, <2>1, <2>2, VisitStep
<1> QED  BY <1>3, <1>4, <1>5

LEMMA ScanStep == ScanIInv /\ [ScanNext]_scanVars => ScanIInv'
<1> SUFFICES ASSUME ScanIInv, [ScanNext]_scanVars PROVE ScanIInv'  OBVIOUS
<1>1. CASE UNCHANGED scanVars
  <2>1. tree' = tree /\ changed' = changed /\ scan' = scan /\ registered' = registered
    BY <1>1 DEF scanVars
  <2>2. (\A x : KindOf(x)' = KindOf(x)) /\ Nearest' = Nearest /\ (\A x : OnTheWay(x)' <=> OnTheWay(x))
    BY <2>1 DEF KindOf, Nearest, OnTheWay, Depth
  <2>3. WalkHolds => WalkHolds'
    BY <2>1, <2>2 DEF WalkHolds, ScanTypes, QueueHolds, FoundHolds, NoneForgotten, EndHolds, Queued, Found
  <2> QED  BY <2>1, <2>3 DEF ScanIInv, TokenStaysUnderRoot
<1>2. CASE ScanRound
  <2>1. UNCHANGED <<tree, changed, registered>>  BY <1>2 DEF ScanRound
  <2>2. WalkHolds => WalkHolds'  BY <1>2, <2>1, RoundStep
  <2> QED  BY <2>1, <2>2 DEF ScanIInv, TokenStaysUnderRoot
<1>3. CASE UseToken
  <2>1. tree' = tree /\ changed' = changed /\ scan' = scan  BY <1>3 DEF UseToken
  <2>2. (\A x : KindOf(x)' = KindOf(x)) /\ Nearest' = Nearest /\ (\A x : OnTheWay(x)' <=> OnTheWay(x))
    BY <2>1 DEF KindOf, Nearest, OnTheWay, Depth
  <2>3. WalkHolds => WalkHolds'
    BY <2>1, <2>2 DEF WalkHolds, ScanTypes, QueueHolds, FoundHolds, NoneForgotten, EndHolds, Queued, Found
  <2>4. TokenStaysUnderRoot'  BY <1>3 DEF UseToken, Allowed, ScanIInv, TokenStaysUnderRoot
  <2> QED  BY <2>1, <2>3, <2>4 DEF ScanIInv
<1>4. CASE DiskChanges
  <2>1. changed' = TRUE /\ registered' = registered  BY <1>4 DEF DiskChanges
  <2> QED  BY <2>1 DEF ScanIInv, TokenStaysUnderRoot
<1> QED  BY <1>1, <1>2, <1>3, <1>4 DEF ScanNext

LEMMA ScanStarts == ScanInit => ScanIInv
<1> SUFFICES ASSUME ScanInit PROVE ScanIInv  OBVIOUS
<1>1. PICK maxDepth \in Depths :
        scan = [maxDepth |-> maxDepth, queue |-> <<RootDir>>, visited |-> 0,
                found |-> << >>, truncated |-> FALSE, over |-> FALSE]
  BY DEF ScanInit
<1>2. maxDepth \in Nat /\ RootDir \in Dirs /\ tree \in Disks  BY ScanConstants DEF ScanInit
<1>3. /\ scan.queue = <<RootDir>> /\ scan.found = << >> /\ scan.maxDepth = maxDepth /\ scan.over = FALSE
      /\ scan \in [maxDepth : Nat, queue : Seq(Dirs), visited : Nat, found : Seq(Dirs),
                   truncated : BOOLEAN, over : BOOLEAN]
  <2>1. <<RootDir>> \in Seq(Dirs) /\ << >> \in Seq(Dirs)  BY <1>2
  <2> QED  BY <1>1, <1>2, <2>1
<1>4. RootDir \in Seq(STRING) /\ Len(RootDir) \in Nat  BY RootPath
<1>5. Queued = {1} /\ scan.queue[1] = RootDir /\ Found = {}  BY <1>3 DEF Queued, Found
<1>6. OnTheWay(RootDir)
  <2>1. Contained(RootDir, RootDir)  BY <1>4, ContainedOrder
  <2>2. Depth(RootDir) <= scan.maxDepth  BY <1>2, <1>3, <1>4 DEF Depth
  <2>3. KindOf(RootDir) \in {"plain", "project", "closed"}  BY <1>2, ScanConstants DEF KindOf
  <2> QED  BY <1>2, <1>4, <2>1, <2>2, <2>3 DEF OnTheWay
<1>7. Apart(scan.queue) /\ Levels(scan.queue)  BY <1>4, <1>5 DEF Apart, Levels, Queued
<1>8. QueueHolds  BY <1>5, <1>6, <1>7 DEF QueueHolds
<1>9. FoundHolds
  <2>1. Len(scan.found) = 0 /\ 0 <= MaxCandidates  BY <1>3, ScanConstants
  <2> QED  BY <1>5, <2>1 DEF FoundHolds
<1>10. NoneForgotten  BY <1>5 DEF NoneForgotten, Nearest
<1>11. ScanTypes /\ EndHolds  BY <1>2, <1>3 DEF ScanTypes, EndHolds
<1> QED  BY <1>8, <1>9, <1>10, <1>11 DEF WalkHolds, ScanIInv, ScanInit, TokenStaysUnderRoot

\* A project that is a repository lies in no other one that is nearer.
LEMMA OwnRepository ==
  ASSUME tree \in Disks, NEW d \in Dirs, d \in tree.repositories
  PROVE  WorkspaceSource(d).repository = d
<1>1. Dirs \subseteq Seq(STRING) /\ tree.repositories \subseteq Dirs  BY ScanConstants
<1>2. d \in Enclosing(d)  BY <1>1, ContainedOrder DEF Enclosing
<1>3. \A h \in Enclosing(d) : h \in Seq(STRING) /\ Contained(h, d) /\ Len(h) <= Len(d)
  BY <1>1 DEF Enclosing, Contained
<1> DEFINE E == Enclosing(d)
           g == CHOOSE g \in E : \A h \in E : Len(h) <= Len(g)
<1>4. Innermost(Enclosing(d)) = g  BY DEF Innermost
<1> HIDE DEF E
<1>5. g \in E /\ \A h \in E : Len(h) <= Len(g)
  <2>1. d \in E /\ \A h \in E : Len(h) <= Len(d)  BY <1>2, <1>3 DEF E
  <2> QED  BY <2>1, Zenon
<1> HIDE DEF g
<1>6. g = d
  <2>1. g \in Seq(STRING) /\ Contained(g, d) /\ Len(d) <= Len(g)  BY <1>2, <1>3, <1>5 DEF E
  <2> QED  BY <1>1, <2>1, ContainedOrder
<1> QED  BY <1>2, <1>4, <1>6 DEF WorkspaceSource

LEMMA ScanImplies == ScanIInv => ScanInv
<1> SUFFICES ASSUME ScanIInv PROVE ScanIsExact  BY DEF ScanIInv, ScanInv
<1> DEFINE kept == {scan.found[n] : n \in DOMAIN scan.found}
           left == Nearest \ kept
<1>1. SUFFICES ASSUME scan.over, ~changed
               PROVE  /\ kept \subseteq Nearest /\ Cardinality(kept) = Len(scan.found)
                      /\ Len(scan.found) <= MaxCandidates
                      /\ left # {} => scan.truncated
                      /\ \A d \in kept, e \in left : Len(d) <= Len(e)
                      /\ \A d \in kept \cap tree.repositories : WorkspaceSource(d).repository = d
  BY DEF ScanIsExact
<1>2. PICK f : f = scan.found  OBVIOUS
<1>3. /\ WalkHolds /\ tree \in Disks /\ f \in Seq(Dirs) /\ scan.queue \in Seq(Dirs)
      /\ \A n \in DOMAIN f : f[n] \in Nearest /\ Passed(scan.queue, f[n])
      /\ \A n, m \in DOMAIN f : n # m => f[n] # f[m]
      /\ Len(f) <= MaxCandidates
  BY <1>1, <1>2 DEF ScanIInv, WalkHolds, ScanTypes, FoundHolds, Found
<1>4. kept = {f[n] : n \in DOMAIN f}  BY <1>2
<1> HIDE DEF kept
<1>5. kept \subseteq Nearest  BY <1>3, <1>4
<1>6. Cardinality(kept) = Len(f)
  <2>1. Len(f) \in Nat /\ DOMAIN f = 1..Len(f) /\ f = [n \in 1..Len(f) |-> f[n]]  BY <1>3
  <2>2. f \in [1..Len(f) -> kept]  BY <1>4, <2>1
  <2>3. f \in Injection(1..Len(f), kept)  BY <1>3, <2>1, <2>2 DEF Injection, IsInjective
  <2>4. f \in Surjection(1..Len(f), kept)  BY <1>4, <2>1, <2>2 DEF Surjection
  <2>5. ExistsBijection(1..Len(f), kept)  BY <2>3, <2>4 DEF Bijection, ExistsBijection
  <2>6. IsFiniteSet(1..Len(f)) /\ Cardinality(1..Len(f)) = Len(f)  BY <2>1, CountUpTo
  <2> QED  BY <2>5, <2>6, FS_Bijection
<1>7. ASSUME NEW e \in left PROVE \E i \in DOMAIN scan.queue : Contained(scan.queue[i], e)
  BY <1>2, <1>3, <1>4 DEF WalkHolds, NoneForgotten, Found, Queued
<1>8. left # {} => scan.truncated
  <2>1. SUFFICES ASSUME NEW e \in left, ~scan.truncated PROVE FALSE  BY DEF ScanTypes, WalkHolds
  <2>2. scan.queue = << >>  BY <1>1, <1>3, <2>1 DEF WalkHolds, EndHolds
  <2> QED  BY <1>7, <2>2
<1>9. ASSUME NEW d \in kept, NEW e \in left PROVE Len(d) <= Len(e)
  <2>1. PICK i \in DOMAIN scan.queue : Contained(scan.queue[i], e)  BY <1>7
  <2>2. Len(d) <= Len(scan.queue[i])  BY <1>3, <1>4 DEF Passed
  <2>3. Len(scan.queue[i]) <= Len(e)  BY <2>1 DEF Contained
  <2>4. scan.queue[i] \in Dirs /\ d \in Dirs /\ e \in Dirs  BY <1>3, <1>5 DEF Nearest
  <2>5. Len(scan.queue[i]) \in Nat /\ Len(d) \in Nat /\ Len(e) \in Nat  BY <2>4, ScanConstants
  <2> QED  BY <2>2, <2>3, <2>5
<1>10. \A d \in kept \cap tree.repositories : WorkspaceSource(d).repository = d
  <2>1. kept \subseteq Dirs  BY <1>5 DEF Nearest
  <2> QED  BY <1>3, <2>1, OwnRepository
<1> QED  BY <1>2, <1>3, <1>5, <1>6, <1>8, <1>9, <1>10

-----------------------------------------------------------------------------
(* The catalog and its scans side by side *)

SidesIInv == ProjectsIInv /\ ScanIInv

LEMMA SidesBegin == SideInit => SidesIInv
<1>1. NoScan => ScanIInv  BY DEF NoScan, ScanIInv, TokenStaysUnderRoot
<1> QED  BY <1>1, ProjectsBegin, ScanStarts DEF SideInit, SidesIInv

LEMMA SidesNext == SidesIInv /\ [SideNext]_<<vars, scanVars, part>> => SidesIInv'
<1>1. SideNext => [Next]_vars /\ [ScanNext]_scanVars  BY DEF SideNext
<1>2. UNCHANGED <<vars, scanVars, part>> => [Next]_vars /\ [ScanNext]_scanVars  OBVIOUS
<1> QED  BY <1>1, <1>2, ProjectsNext, ScanStep DEF SidesIInv

\* Whatever order registrations, switches, refreshes and stops come in, the catalog
\* names every directory once and a project has one live context, of which only
\* the selected one works (runtime-coordinator.ts); a scan of a disk that stays as
\* it is finds exactly the nearest projects (catalog.ts:481-530), and whatever
\* becomes of the disk, no token of it registers a directory outside of its root
\* (catalog.ts:290-313).
THEOREM ProjectsInvHolds == SideBySide => []ProjectsInv
<1>1. SidesIInv => ProjectsInv  BY ProjectsImply, ScanImplies DEF SidesIInv, ProjectsInv
<1> QED  BY <1>1, SidesBegin, SidesNext, PTL DEF SideBySide
=============================================================================
