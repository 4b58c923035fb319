----------------------------- MODULE ProjectSides -----------------------------
(***************************************************************************)
(* The catalog with the contexts of its projects, and beside it the scan   *)
(* of a discovery root: to the catalog a scan is one step with the         *)
(* projects it found, so a behaviour is one of the contexts or one of a    *)
(* scan.                                                                   *)
(***************************************************************************)
EXTENDS RuntimeCoordinator, ProjectScan

VARIABLE part   \* "contexts" or "scan"

NoScan ==
  /\ tree = CHOOSE d \in Disks : TRUE
  /\ changed = TRUE /\ registered = {}
  /\ scan = [maxDepth |-> 0, queue |-> << >>, visited |-> 0, found |-> << >>,
             truncated |-> FALSE, over |-> TRUE]

SideInit ==
  /\ Init
  /\ \/ part = "contexts" /\ NoScan
     \/ /\ part = "scan" /\ ScanInit
        /\ Cardinality(projects) = 1 /\ setting = None /\ \A p \in Paths : disk[p] = NoRepo

SideNext ==
  /\ UNCHANGED part
  /\ \/ part = "contexts" /\ Next /\ UNCHANGED scanVars
     \/ part = "scan" /\ ScanNext /\ UNCHANGED vars

SideBySide == SideInit /\ [][SideNext]_<<vars, scanVars, part>> /\ Fairness

\* The projects that are held, and the directories in which they are found.
ProjectsInv == ContextsInv /\ ScanInv
=============================================================================
