---------------------------- MODULE ProjectScan ----------------------------
(***************************************************************************)
(* The scan of a discovery root (src/src/catalog/catalog.ts): the bounded  *)
(* walk, the inspection of what it found, and the directory that a token   *)
(* of it stands for when it is used.  The disk may change on the way.      *)
(*                                                                         *)
(* A directory is the sequence of names that leads to it; the root of the  *)
(* scan is RootDir.  A disk says of each directory what it is, which       *)
(* directories are Git repositories, and where its symbolic link leads.    *)
(* Remotes, branches and the time limits of Git are left out.              *)
(***************************************************************************)
EXTENDS Naturals, Sequences, FiniteSets

CONSTANTS
  Dirs,           \* the directories that can exist, with their ancestors
  RootDir,        \* the root of the scan
  NameOrder,      \* the names of directories in their order
  Disks,          \* the disks a scan may begin on
  Moving,         \* the directories that may become a link or disappear
  Depths,         \* the values of maxDepth of the root
  MaxScanned,     \* MAX_SCANNED_DIRECTORIES
  MaxCandidates   \* MAX_PROJECT_CANDIDATES

VARIABLES
  tree,           \* what is on the disk now
  changed,        \* whether it changed since the scan began
  scan,           \* the walk of scanProjectDirectories
  registered      \* what was registered from the tokens of the scan

scanVars == <<tree, changed, scan, registered>>

Parent(d) == SubSeq(d, 1, Len(d) - 1)
NameOf(d) == d[Len(d)]
Depth(d) == Len(d) - Len(RootDir)
Below(d) == {e \in Dirs : Len(e) > 0 /\ Parent(e) = d}

Contained(root, d) == Len(root) <= Len(d) /\ SubSeq(d, 1, Len(root)) = root

\* "project" holds .git or WORKFLOW.md, "skipped" has one of the names that are
\* never entered, "closed" cannot be read.
Kinds == {"plain", "project", "skipped", "closed", "link", "absent"}
KindOf(d) == IF d \in Dirs THEN tree.kind[d] ELSE "absent"

\* The path of a root is canonical when it is stored, and its own name is not looked at.
ASSUME ScanConstants ==
  /\ IsFiniteSet(Dirs) /\ Dirs \subseteq Seq(STRING) /\ RootDir \in Dirs
  /\ \A d \in Dirs \ {<< >>} : \E n \in DOMAIN NameOrder : NameOrder[n] = NameOf(d)
  /\ DOMAIN NameOrder \subseteq Nat
  /\ Depths \subseteq Nat /\ MaxScanned \in Nat /\ MaxCandidates \in Nat
  /\ \A t \in Disks :
       /\ t.kind \in [Dirs -> Kinds] /\ t.repositories \subseteq Dirs
       /\ t.kind[RootDir] \in {"plain", "project", "closed"}
       /\ \A d \in Dirs : Contained(d, RootDir) => t.kind[d] # "link"

\* realpath: a link on the way is replaced by what it points to.
RealPath(d) ==
  LET links == {n \in 1..Len(d) : KindOf(SubSeq(d, 1, n)) = "link"}
  IN IF links = {} THEN d
     ELSE LET n == CHOOSE n \in links : \A m \in links : n <= m
          IN tree.target \o SubSeq(d, n + 1, Len(d))

-----------------------------------------------------------------------------
(* The walk *)

\* Mutant of Entered: a directory is queued whatever its name.
EnteredAll(d) == KindOf(d) \in {"plain", "project", "closed", "skipped"}

\* The subdirectories that are queued: real ones, with an ordinary name, that
\* lie under the root.
Entered(d) == KindOf(d) \in {"plain", "project", "closed"} /\ Contained(RootDir, RealPath(d))

\* They are queued in the order of their names.
Children(d) ==
  LET Rank(e) == CHOOSE n \in DOMAIN NameOrder : NameOrder[n] = NameOf(e)
      entered == {e \in Below(d) : Entered(e)}
      Place(e) == Cardinality({f \in entered : Rank(f) <= Rank(e)})
  IN [n \in 1..Cardinality(entered) |-> CHOOSE e \in entered : Place(e) = n]

\* Mutant of Deeper: one level more.
DeeperByOne(d) == Depth(d) <= scan.maxDepth

Deeper(d) == Depth(d) < scan.maxDepth

\* Mutant of Boundary: a project is walked through.
BoundaryNever(d) == FALSE

\* A project is the end of the walk in its part of the tree.
Boundary(d) == KindOf(RealPath(d)) = "project"

\* The head of the queue is visited; reading a directory follows a link.
Visit(d) ==
  LET isProject == KindOf(RealPath(d)) = "project"
      closed == KindOf(RealPath(d)) \in {"closed", "absent"}
  IN [scan EXCEPT
        !.visited = @ + 1,
        !.found = IF isProject THEN Append(@, d) ELSE @,
        !.queue = IF closed \/ Boundary(d) \/ ~Deeper(d) THEN Tail(@)
                  ELSE Tail(@) \o Children(RealPath(d))]

\* One round of the loop of scanProjectDirectories.
ScanRound ==
  /\ ~scan.over
  /\ IF scan.queue = << >> THEN scan' = [scan EXCEPT !.over = TRUE]
     ELSE IF \/ scan.visited >= MaxScanned
             \/ KindOf(RealPath(Head(scan.queue))) = "project" /\ Len(scan.found) >= MaxCandidates
     THEN scan' = [scan EXCEPT !.over = TRUE, !.truncated = TRUE]
     ELSE scan' = Visit(Head(scan.queue))
  /\ UNCHANGED <<tree, changed, registered>>

-----------------------------------------------------------------------------
(* The inspection, and the use of a token *)

\* git rev-parse --show-toplevel: the innermost repository around a directory.
Enclosing(d) == {g \in tree.repositories : Contained(g, d)}
Innermost(dirs) == CHOOSE g \in dirs : \A h \in dirs : Len(h) <= Len(g)

\* inspectProjectDirectory and workspaceSourceFor.
WorkspaceSource(d) ==
  IF Enclosing(d) = {} THEN [strategy |-> "controlled-directory", root |-> d]
  ELSE [strategy |-> "worktree", root |-> d, repository |-> Innermost(Enclosing(d))]

\* lstat follows the links on the way, not the last one.
IsRealDirectory(d) ==
  IF d = << >> THEN TRUE
  ELSE KindOf(Append(RealPath(Parent(d)), NameOf(d))) \notin {"link", "absent"}

\* Mutant of Allowed: the path is checked as it was claimed.
AllowedAsClaimed(d) == Contained(RootDir, d)

\* registerCandidate: the directory must still lie under the root.
Allowed(d) == Contained(RootDir, RealPath(d))

UseToken ==
  /\ scan.over
  /\ \E n \in DOMAIN scan.found :
       /\ IsRealDirectory(scan.found[n]) /\ Allowed(scan.found[n])
       /\ registered' = registered \cup {RealPath(scan.found[n])}
  /\ UNCHANGED <<tree, changed, scan>>

\* Somebody replaces a directory by a link out of the root, or removes it.
DiskChanges ==
  /\ ~changed /\ changed' = TRUE
  /\ \E d \in Moving, kind \in {"link", "absent"} :
       /\ tree.kind[d] \notin {"link", "absent"}
       /\ tree' = [tree EXCEPT !.kind[d] = kind,
                               !.repositories = {g \in @ : ~Contained(d, g)}]
  /\ UNCHANGED <<scan, registered>>

ScanInit ==
  /\ tree \in Disks /\ changed = FALSE /\ registered = {}
  /\ \E maxDepth \in Depths :
       scan = [maxDepth |-> maxDepth, queue |-> <<RootDir>>, visited |-> 0,
               found |-> << >>, truncated |-> FALSE, over |-> FALSE]

ScanNext == ScanRound \/ UseToken \/ DiskChanges

-----------------------------------------------------------------------------
(* Properties *)

\* The projects a scan should find: within the depth, with nothing but plain
\* directories between them and the root.
Nearest ==
  {d \in Dirs : /\ Contained(RootDir, d) /\ Depth(d) <= scan.maxDepth /\ KindOf(d) = "project"
                /\ \A n \in Len(RootDir)..(Len(d) - 1) : KindOf(SubSeq(d, 1, n)) = "plain"}

\* A scan of a disk that stays as it is finds nothing but those, none twice and no
\* more than its bound; what it leaves out it says, and it leaves out none that is
\* nearer than one it keeps; a repository is the workspace of its own project.
ScanIsExact ==
  LET kept == {scan.found[n] : n \in DOMAIN scan.found}
      left == Nearest \ kept
  IN scan.over /\ ~changed =>
     /\ kept \subseteq Nearest /\ Cardinality(kept) = Len(scan.found)
     /\ Len(scan.found) <= MaxCandidates
     /\ left # {} => scan.truncated
     /\ \A d \in kept, e \in left : Len(d) <= Len(e)
     /\ \A d \in kept \cap tree.repositories : WorkspaceSource(d).repository = d

\* A token never registers a directory outside of the root it was made for,
\* whatever became of the disk since the scan (catalog.ts:308-309).
TokenStaysUnderRoot == \A d \in registered : Contained(RootDir, d)

ScanInv == ScanIsExact /\ TokenStaysUnderRoot
=============================================================================
