---------------------------- MODULE ProjectCatalog ----------------------------
(***************************************************************************)
(* The Project Catalog (src/src/catalog/catalog.ts): the durable tables of *)
(* registered projects, of their Git repositories and of discovery roots,  *)
(* the remembered selection, and the one-use tokens of a scan.             *)
(*                                                                         *)
(* Mutations are serialized; a registration is several writes in one       *)
(* mutation.  Scans are not mutations and interleave with them.            *)
(*                                                                         *)
(* A directory is known by its canonical path, a repository by its root.   *)
(* Walking the disk is ProjectScan; names and branches are left out.       *)
(***************************************************************************)
EXTENDS Naturals, Sequences, FiniteSets

CONSTANTS
  Paths,        \* directories that may be registered
  Home,         \* the workspace the host was started in
  Repos,        \* Git repositories on the disk
  NoRepo,
  Registrars,   \* registrations that may be under way at once
  MaxProjects,  \* bound on project ids
  MaxAsks       \* bound on requests, faults and moves of the world

ASSUME CatalogAssumptions ==
  /\ IsFiniteSet(Paths) /\ Home \in Paths /\ NoRepo \notin Repos
  /\ MaxProjects \in Nat \ {0} /\ MaxAsks \in Nat

VARIABLES
  projects,  \* the project records
  repos,     \* the repository records
  root,      \* the last discovery root made, which covers every path
  setting,   \* the remembered selection: a project id or GlobalView
  claims,    \* the paths, each with the root of its scan, of unused tokens
  scanning,  \* the root that a scan is reading, None for none
  disk,      \* the repository each directory lies in
  writer,    \* the await of each registration inside the catalog
  asks,
  torn       \* history: mutations cut short, calls that overlapped

tables == <<projects, repos, root, setting>>
catalogVars == <<tables, claims, scanning, disk, writer>>

None == 0
Ids == 1..MaxProjects

\* Stands among the project ids for the selection of all projects.
GlobalView == MaxProjects + 1

\* Where a registration stands.  From "repo" to "prune" it is the mutation
\* that is under way.
WriterPcs == {"off", "queued", "repo", "project", "prune", "done"}

NoWriter == [pc |-> "off", path |-> Home, root |-> None, id |-> None,
             repo |-> NoRepo, old |-> NoRepo]

Ask == asks < MaxAsks /\ asks' = asks + 1

Registered(path) == \E r \in projects : r.path = path
RecordOf(path) == CHOOSE r \in projects : r.path = path
PathOf(id) == (CHOOSE r \in projects : r.id = id).path
Referenced(repo, records) == \E r \in records : r.repo = repo
InWriter(x, pc) == writer[x].pc = pc

CatalogTypeOK ==
  /\ projects \subseteq [id : Ids, path : Paths, repo : Repos \cup {NoRepo}]
  /\ repos \subseteq Repos /\ root \in [id : Nat, configured : BOOLEAN]
  /\ setting \in Ids \cup {None, GlobalView}
  /\ claims \subseteq Paths \X Nat /\ scanning \in Nat
  /\ disk \in [Paths -> Repos \cup {NoRepo}]
  /\ writer \in [Registrars -> [pc : WriterPcs, path : Paths, root : Nat, id : Ids \cup {None},
                                repo : Repos \cup {NoRepo}, old : Repos \cup {NoRepo}]]

\* The host has started once: its workspace is registered, maybe other
\* directories are, and a root is set.
CatalogInit ==
  /\ disk \in [Paths -> Repos \cup {NoRepo}]
  /\ \E first \in SUBSET Paths :
       /\ Home \in first /\ Cardinality(first) <= MaxProjects
       /\ \E id \in {f \in [first -> 1..Cardinality(first)] : \A d, e \in first : f[d] = f[e] => d = e} :
            projects = {[id |-> id[d], path |-> d, repo |-> disk[d]] : d \in first}
       /\ repos = {disk[d] : d \in first} \ {NoRepo}
  /\ root = [id |-> 1, configured |-> TRUE] /\ setting = None
  /\ claims = {} /\ scanning = None
  /\ writer = [x \in Registrars |-> NoWriter]

-----------------------------------------------------------------------------
(* Mutations are serialized *)

\* Mutant of Free: a mutation begins when it is asked for.
FreeAlways == TRUE

Free == \A x \in Registrars : writer[x].pc \notin {"repo", "project", "prune"}

\* registerProject, with a path.
RegisterPath(x, path) ==
  /\ Ask /\ InWriter(x, "off")
  /\ writer' = [writer EXCEPT ![x] = [NoWriter EXCEPT !.pc = "queued", !.path = path]]
  /\ UNCHANGED <<tables, claims, scanning, disk>>

\* registerCandidate: the token is used up before anything is checked.
RegisterCandidate(x, claim) ==
  /\ Ask /\ InWriter(x, "off") /\ claim \in claims
  /\ claims' = claims \ {claim}
  /\ writer' = [writer EXCEPT ![x] = [NoWriter EXCEPT !.pc = "queued", !.path = claim[1],
                                                      !.root = claim[2]]]
  /\ UNCHANGED <<tables, scanning, disk>>

Configured(id) == root.configured /\ root.id = id

\* Mutant of MayRegister: a root that covers the candidate is looked for.
MayRegisterCovered(x) == writer[x].root # None => root.configured

\* The root of a candidate may be gone since the scan, or gone and made anew.
MayRegister(x) == writer[x].root # None => Configured(writer[x].root)

\* The mutation begins: the root is checked, the directory inspected, and the
\* record that its path has already looked up.
Inspect(x) ==
  LET path == writer[x].path
      known == Registered(path)
  IN /\ InWriter(x, "queued") /\ Free
     /\ writer' = [writer EXCEPT ![x] =
          IF MayRegister(x)
          THEN [@ EXCEPT !.pc = "repo", !.repo = disk[path],
                         !.id = IF known THEN RecordOf(path).id ELSE None,
                         !.old = IF known THEN RecordOf(path).repo ELSE NoRepo]
          ELSE NoWriter]
     /\ UNCHANGED <<tables, claims, scanning, disk>>

\* upsertRepository.
PutRepository(x) ==
  /\ InWriter(x, "repo")
  /\ repos' = repos \cup ({writer[x].repo} \ {NoRepo})
  /\ writer' = [writer EXCEPT ![x].pc = "project"]
  /\ UNCHANGED <<projects, root, setting, claims, scanning, disk>>

NewId == CHOOSE i \in Ids \ {r.id : r \in projects} : TRUE

\* The project is put, under the id that its path had already.
PutProject(x) ==
  LET w == writer[x]
      id == IF w.id = None THEN NewId ELSE w.id
  IN /\ InWriter(x, "project")
     /\ w.id # None \/ Cardinality(projects) < MaxProjects
     /\ projects' = {r \in projects : r.id # id} \cup {[id |-> id, path |-> w.path, repo |-> w.repo]}
     /\ writer' = [writer EXCEPT ![x].pc = "prune"]
     /\ UNCHANGED <<repos, root, setting, claims, scanning, disk>>

\* The put fails: a repository that nothing refers to is removed again.
PutProjectFails(x) ==
  /\ Ask /\ InWriter(x, "project")
  /\ repos' = IF Referenced(writer[x].repo, projects) THEN repos ELSE repos \ {writer[x].repo}
  /\ writer' = [writer EXCEPT ![x] = NoWriter]
  /\ UNCHANGED <<projects, root, setting, claims, scanning, disk>>

\* Mutant of Pruned: the old repository is removed with its project record.
PrunedAlways(x) == IF writer[x].old = writer[x].repo THEN {} ELSE {writer[x].old}

\* The repository the project has left goes, if no project lies in it.
Pruned(x) ==
  IF writer[x].old = writer[x].repo \/ Referenced(writer[x].old, projects)
  THEN {} ELSE {writer[x].old}

PruneRepository(x) ==
  /\ InWriter(x, "prune")
  /\ repos' = repos \ Pruned(x)
  /\ writer' = [writer EXCEPT ![x].pc = "done"]
  /\ UNCHANGED <<projects, root, setting, claims, scanning, disk>>

\* The repository that should go cannot be deleted: after the put, which
\* stands, or after one that has failed.
RemovalFails(x) ==
  LET left == IF InWriter(x, "prune") THEN Pruned(x) ELSE {writer[x].repo} \ {NoRepo}
  IN /\ Ask /\ writer[x].pc \in {"project", "prune"}
     /\ \E g \in left : ~Referenced(g, projects)
     /\ torn' = torn \cup {"mutation"}
     /\ writer' = [writer EXCEPT ![x] = NoWriter]
     /\ UNCHANGED <<tables, claims, scanning, disk>>

WriterSteps(x) == Inspect(x) \/ PutRepository(x) \/ PutProject(x) \/ PruneRepository(x)

-----------------------------------------------------------------------------
(* Roots and scans *)

\* addDiscoveryRoot: the root is a new one, also when it was there before.  The
\* removals bound it.
AddRoot ==
  /\ UNCHANGED asks /\ Free /\ ~root.configured
  /\ root' = [id |-> root.id + 1, configured |-> TRUE]
  /\ UNCHANGED <<projects, repos, setting, claims, scanning, disk, writer>>

\* removeDiscoveryRoot, which forgets the tokens of the root.
RemoveRoot ==
  /\ Ask /\ Free /\ root.configured
  /\ root' = [root EXCEPT !.configured = FALSE]
  /\ claims' = {c \in claims : c[2] # root.id}
  /\ UNCHANGED <<projects, repos, setting, scanning, disk, writer>>

ScanBegins ==
  /\ Ask /\ root.configured /\ scanning = None
  /\ scanning' = root.id
  /\ UNCHANGED <<tables, claims, disk, writer>>

\* The scan hands out a token per directory it found, also when its root was
\* removed meanwhile.
ScanEnds ==
  /\ scanning # None
  /\ scanning' = None /\ claims' = claims \cup (Paths \X {scanning})
  /\ UNCHANGED <<tables, disk, writer>>

ClaimExpires(claim) ==
  /\ claim \in claims /\ claims' = claims \ {claim}
  /\ UNCHANGED <<tables, scanning, disk, writer>>

\* A directory becomes a repository, joins or leaves one.
RepositoryMoves(path, repo) ==
  /\ Ask /\ disk[path] # repo
  /\ disk' = [disk EXCEPT ![path] = repo]
  /\ UNCHANGED <<tables, claims, scanning, writer>>

\* activateProject, activateGlobal: the selection is remembered by a mutation.
Activated(selection) == Free /\ setting' = selection

\* The selection that start() restores: what is remembered, or the workspace
\* of the host.
Restored == IF setting = None THEN RecordOf(Home).id ELSE setting

-----------------------------------------------------------------------------
(* Properties *)

\* A directory is one project, whichever ways and times it is registered.
OneProjectPerPath ==
  \A r, s \in projects : (r.path = s.path \/ r.id = s.id) => r = s

\* The repository of a project is always there to be found, in the middle of a
\* registration too (a workspace would silently fall back to a plain directory),
\* and one that no project refers to does not outlive the mutation, unless that
\* was cut short.
RepositoriesMatch ==
  /\ \A r \in projects : r.repo # NoRepo => r.repo \in repos
  /\ (Free /\ "mutation" \notin torn) => \A g \in repos : Referenced(g, projects)

\* The registration of x puts its project.
Puts(x) == InWriter(x, "project") /\ writer'[x].pc = "prune"

\* A candidate becomes a project only while the very discovery root that was
\* scanned is configured, up to the moment when the project is put: a token,
\* and a registration that waits with one, does not outlive its root, though
\* the same directory be a root again.
CandidatesUnderRoot ==
  [][\A x \in Registrars :
       (Puts(x) /\ writer[x].root # None) => Configured(writer[x].root)]_<<projects, writer, root>>
=============================================================================
