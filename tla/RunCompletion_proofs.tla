------------------------ MODULE RunCompletion_proofs ------------------------
(***************************************************************************)
(* Theorems about RunCompletion, for any tasks, operator moves and number  *)
(* of restarts, and about RunBudgets, the budget of a run beside it, for   *)
(* any budgets and any number of results that settle at once.              *)
(***************************************************************************)
EXTENDS RunCompletion, RunBudgets, TLAPS

\* The phases a run reaches only through the merge gate.
GatedPhases == {"planning", "awaiting_approval", "integrating", "validating",
                "finalizing", "succeeded"}

IntegrationPcs == {"discard", "provision", "merge", "attach", "announce", "advance"}

CleanupPcs == {"cleanup", "dismantle", "conclude"}

AllMerged == intBranch /\ Tasks \ Empty \subseteq merged

Dropped == {t \in Tasks \ Empty : work[t] = "succeeded" /\ t \notin branches}

\* What a program counter says of the phase its tick has read, and where the
\* tick may stand while the run is finalizing or has succeeded.
PlaceInv ==
  /\ pc \in IntegrationPcs => seen = "integrating"
  /\ pc \in {"verify", "accept"} => seen \in {"integrating", "validating"}
  /\ pc \in CleanupPcs => seen = "finalizing"
  /\ pc = "gate" => AllSucceeded
  /\ phase = "finalizing" => pc = "idle" \/ seen = "finalizing"
  /\ phase = "succeeded" => pc = "idle"
  /\ seen = "finalizing" => phase \in {"finalizing"} \cup TerminalPhases

\* Behind the gate every task has succeeded.
GateInv ==
  /\ "created" \notin {phase, suspendedFrom}
  /\ phase \in GatedPhases => AllSucceeded
  /\ suspendedFrom \in GatedPhases => AllSucceeded
  /\ seen \in GatedPhases => AllSucceeded

\* A branch is there until the tick of a finalizing run drops it, and that
\* tick works on a fully merged integration branch.
MergeInv ==
  /\ \A t \in Tasks : work[t] \in {"provisioning", "running"} => t \in branches
  /\ Dropped # {} => seen = "finalizing"
  /\ pc = "accept" => AllMerged
  /\ phase \in {"finalizing", "succeeded"} \/ seen = "finalizing" => AllMerged

\* A completed integration is past its rebuilding.
HeadInv ==
  /\ completed => head = "tip" /\ pc \notin {"discard", "provision", "merge", "attach", "announce"}
  /\ pc = "announce" => head = "tip"

PipelineInv == TypeOK /\ GateInv /\ PlaceInv /\ MergeInv /\ HeadInv

-----------------------------------------------------------------------------
(* The phase machine *)

\* A transition leads from phase to phase, and only into and out of a
\* suspended phase does the origin matter.
LEMMA TransitionRunStep ==
  ASSUME NEW to \in Phases, TransitionRun(to),
         phase \in Phases, suspendedFrom \in Phases \cup {NoPhase}
  PROVE  \/ UNCHANGED <<phase, suspendedFrom>>
         \/ /\ CanMove(phase, suspendedFrom, to)
            /\ phase' = to
            /\ suspendedFrom' \in {phase, NoPhase}
BY DEF TransitionRun, OriginAfter, runVars

\* Nothing leaves a terminal phase, and finalizing only leads to one.
LEMMA TerminalEdges ==
  ASSUME NEW from, NEW origin, NEW to, CanMove(from, origin, to)
  PROVE  /\ from \notin TerminalPhases
         /\ from = "finalizing" => to \in TerminalPhases
         /\ from \in SuspendedPhases => to = origin \/ to \in {"failed", "canceled"}
         /\ to # "created" \/ from \in SuspendedPhases
         /\ to = "planning" => from \in {"created"} \cup GatedPhases \cup SuspendedPhases
         /\ to = "succeeded" => from \in {"finalizing"} \cup SuspendedPhases
         /\ to = "awaiting_approval" => from \in {"planning", "executing"} \cup SuspendedPhases
BY DEF CanMove, RunEdges, TerminalPhases, SuspendedPhases, NoPhase, GatedPhases

-----------------------------------------------------------------------------
(* Type correctness *)

LEMMA TypeStep == TypeOK /\ [Next]_vars => TypeOK'
<1> SUFFICES ASSUME TypeOK, [Next]_vars PROVE TypeOK'
  OBVIOUS
<1> USE DEF runVars, taskVars, intVars, tickVars, Goto, TypeOK, Pcs, WorkStages
<1>1. CASE TickStart
  BY <1>1 DEF TickStart
<1>2. CASE VisitNothing
  BY <1>2 DEF VisitNothing
<1>3. CASE VisitExecuting
  BY <1>3 DEF VisitExecuting
<1>4. CASE Gate
  BY <1>4, TransitionRunStep
     DEF Gate, Phases, ActivePhases, SuspendedPhases, TerminalPhases
<1>5. CASE VisitIntegrating
  BY <1>5 DEF VisitIntegrating
<1>6. CASE Discard
  BY <1>6 DEF Discard
<1>7. CASE Provision
  BY <1>7 DEF Provision, Refs
<1>8. CASE Merge
  BY <1>8 DEF Merge
<1>9. CASE Merged
  BY <1>9 DEF Merged
<1>10. CASE IntegrationFails
  BY <1>10 DEF IntegrationFails
<1>11. CASE Attach
  BY <1>11 DEF Attach
<1>12. CASE Announce
  BY <1>12 DEF Announce
<1>13. CASE Advance
  BY <1>13, TransitionRunStep
     DEF Advance, Phases, ActivePhases, SuspendedPhases, TerminalPhases
<1>14. CASE VisitValidating
  BY <1>14 DEF VisitValidating
<1>15. CASE Verify
  BY <1>15 DEF Verify
<1>16. CASE Accept
  BY <1>16, TransitionRunStep
     DEF Accept, Phases, ActivePhases, SuspendedPhases, TerminalPhases
<1>17. CASE ReportFailure
  BY <1>17 DEF ReportFailure
<1>18. CASE Block
  BY <1>18, TransitionRunStep
     DEF Block, Phases, ActivePhases, SuspendedPhases, TerminalPhases
<1>19. CASE VisitFinalizing
  BY <1>19 DEF VisitFinalizing
<1>20. CASE RemoveBranch
  BY <1>20 DEF RemoveBranch
<1>21. CASE BranchesDone
  BY <1>21 DEF BranchesDone
<1>22. CASE Dismantle
  BY <1>22 DEF Dismantle
<1>23. CASE Conclude
  BY <1>23, TransitionRunStep
     DEF Conclude, Phases, ActivePhases, SuspendedPhases, TerminalPhases
<1>24. CASE TickThrows
  BY <1>24 DEF TickThrows
<1>25. CASE OperatorTransition
  BY <1>25, TransitionRunStep, RunCompletionAssumptions DEF OperatorTransition
<1>26. CASE ResolveApproval
  BY <1>26 DEF ResolveApproval
<1>27. CASE Restart
  BY <1>27, RunCompletionAssumptions DEF Restart
<1>28. ASSUME NEW t \in Tasks, ProvisionTask(t) PROVE TypeOK'
  BY <1>28 DEF ProvisionTask
<1>29. ASSUME NEW t \in Tasks, RecordIdentity(t) PROVE TypeOK'
  BY <1>29 DEF RecordIdentity
<1>30. ASSUME NEW t \in Tasks, AttemptFails(t) PROVE TypeOK'
  BY <1>30 DEF AttemptFails
<1>31. ASSUME NEW t \in Tasks, TaskSucceeds(t) PROVE TypeOK'
  BY <1>31 DEF TaskSucceeds
<1>32. ASSUME NEW t \in Tasks, RemoveTaskTree(t) PROVE TypeOK'
  BY <1>32 DEF RemoveTaskTree
<1>33. CASE UNCHANGED vars
  BY <1>33 DEF vars
<1> QED
  BY <1>1, <1>2, <1>3, <1>4, <1>5, <1>6, <1>7, <1>8, <1>9, <1>10, <1>11,
     <1>12, <1>13, <1>14, <1>15, <1>16, <1>17, <1>18, <1>19, <1>20, <1>21,
     <1>22, <1>23, <1>24, <1>25, <1>26, <1>27, <1>28, <1>29, <1>30, <1>31,
     <1>32, <1>33 DEF Next, TickStep, TaskStep

-----------------------------------------------------------------------------
(* The merge gate *)

LEMMA GateStep == TypeOK /\ PlaceInv /\ GateInv /\ [Next]_vars => GateInv'
<1> SUFFICES ASSUME TypeOK, PlaceInv, GateInv, [Next]_vars PROVE GateInv'
  OBVIOUS
<1> USE DEF runVars, taskVars, intVars, tickVars, Goto, TypeOK, GateInv,
       GatedPhases, AllSucceeded, NoPhase
<1>1. CASE TickStart
  BY <1>1 DEF TickStart
<1>2. CASE VisitNothing
  BY <1>2 DEF VisitNothing
<1>3. CASE VisitExecuting
  BY <1>3 DEF VisitExecuting
<1>4. CASE Gate
  BY <1>4, TransitionRunStep, TerminalEdges
     DEF Gate, Phases, ActivePhases, SuspendedPhases, TerminalPhases,
         PlaceInv, IntegrationPcs, CleanupPcs
<1>5. CASE VisitIntegrating
  BY <1>5 DEF VisitIntegrating
<1>6. CASE Discard
  BY <1>6 DEF Discard
<1>7. CASE Provision
  BY <1>7 DEF Provision
<1>8. CASE Merge
  BY <1>8 DEF Merge
<1>9. CASE Merged
  BY <1>9 DEF Merged
<1>10. CASE IntegrationFails
  BY <1>10 DEF IntegrationFails
<1>11. CASE Attach
  BY <1>11 DEF Attach
<1>12. CASE Announce
  BY <1>12 DEF Announce
<1>13. CASE Advance
  BY <1>13, TransitionRunStep, TerminalEdges
     DEF Advance, Phases, ActivePhases, SuspendedPhases, TerminalPhases,
         PlaceInv, IntegrationPcs, CleanupPcs
<1>14. CASE VisitValidating
  BY <1>14 DEF VisitValidating
<1>15. CASE Verify
  BY <1>15 DEF Verify
<1>16. CASE Accept
  BY <1>16, TransitionRunStep, TerminalEdges
     DEF Accept, Phases, ActivePhases, SuspendedPhases, TerminalPhases,
         PlaceInv, IntegrationPcs, CleanupPcs
<1>17. CASE ReportFailure
  BY <1>17 DEF ReportFailure
<1>18. CASE Block
  BY <1>18, TransitionRunStep, TerminalEdges
     DEF Block, Phases, ActivePhases, SuspendedPhases, TerminalPhases,
         PlaceInv, IntegrationPcs, CleanupPcs
<1>19. CASE VisitFinalizing
  BY <1>19 DEF VisitFinalizing
<1>20. CASE RemoveBranch
  BY <1>20 DEF RemoveBranch
<1>21. CASE BranchesDone
  BY <1>21 DEF BranchesDone
<1>22. CASE Dismantle
  BY <1>22 DEF Dismantle
<1>23. CASE Conclude
  BY <1>23, TransitionRunStep, TerminalEdges
     DEF Conclude, Phases, ActivePhases, SuspendedPhases, TerminalPhases,
         PlaceInv, IntegrationPcs, CleanupPcs
<1>24. CASE TickThrows
  BY <1>24 DEF TickThrows
<1>25. CASE OperatorTransition
  <2>1. PICK m \in OperatorMoves :
          /\ phase = m[1]
          /\ CanMove(phase, suspendedFrom, m[2])
          /\ TransitionRun(m[2])
          /\ work' = [t \in Tasks |->
                        IF m[2] = "canceled" /\ work[t] # "succeeded"
                        THEN "canceled" ELSE work[t]]
    BY <1>25 DEF OperatorTransition
  <2>2. m[2] \in Phases /\ m[2] # "finalizing" /\ m[2] # "succeeded"
    BY RunCompletionAssumptions
  <2>3. phase = "executing" =>
          m[2] \notin {"awaiting_approval", "integrating", "validating"}
    BY <2>1, RunCompletionAssumptions
  <2>4. AllSucceeded => AllSucceeded'
    BY <2>1
  <2>5. m[2] \in GatedPhases \cup {"created"} =>
          /\ phase \in GatedPhases \/ suspendedFrom \in GatedPhases
          /\ m[2] # "created"
    BY <2>1, <2>2, <2>3
       DEF CanMove, RunEdges, SuspendedPhases, NoPhase
  <2>6. phase' = m[2] /\ suspendedFrom' \in {phase, NoPhase}
    BY <2>1 DEF TransitionRun, OriginAfter
  <2> QED
    BY <1>25, <2>4, <2>5, <2>6 DEF OperatorTransition
<1>26. CASE ResolveApproval
  BY <1>26 DEF ResolveApproval
<1>27. CASE Restart
  BY <1>27 DEF Restart
<1>28. ASSUME NEW t \in Tasks, ProvisionTask(t) PROVE GateInv'
  BY <1>28 DEF ProvisionTask
<1>29. ASSUME NEW t \in Tasks, RecordIdentity(t) PROVE GateInv'
  BY <1>29 DEF RecordIdentity
<1>30. ASSUME NEW t \in Tasks, AttemptFails(t) PROVE GateInv'
  BY <1>30 DEF AttemptFails
<1>31. ASSUME NEW t \in Tasks, TaskSucceeds(t) PROVE GateInv'
  BY <1>31 DEF TaskSucceeds
<1>32. ASSUME NEW t \in Tasks, RemoveTaskTree(t) PROVE GateInv'
  BY <1>32 DEF RemoveTaskTree
<1>33. CASE UNCHANGED vars
  BY <1>33 DEF vars
<1> QED
  BY <1>1, <1>2, <1>3, <1>4, <1>5, <1>6, <1>7, <1>8, <1>9, <1>10, <1>11,
     <1>12, <1>13, <1>14, <1>15, <1>16, <1>17, <1>18, <1>19, <1>20, <1>21,
     <1>22, <1>23, <1>24, <1>25, <1>26, <1>27, <1>28, <1>29, <1>30, <1>31,
     <1>32, <1>33 DEF Next, TickStep, TaskStep

-----------------------------------------------------------------------------
(* Where the tick may stand *)

LEMMA PlaceStep == TypeOK /\ GateInv /\ PlaceInv /\ [Next]_vars => PlaceInv'
<1> SUFFICES ASSUME TypeOK, GateInv, PlaceInv, [Next]_vars PROVE PlaceInv'
  OBVIOUS
<1> USE DEF runVars, taskVars, intVars, tickVars, Goto, TypeOK, PlaceInv,
       IntegrationPcs, CleanupPcs, AllSucceeded, TerminalPhases
<1>1. CASE TickStart
  BY <1>1 DEF TickStart
<1>2. CASE VisitNothing
  BY <1>2 DEF VisitNothing
<1>3. CASE VisitExecuting
  BY <1>3 DEF VisitExecuting
<1>4. CASE Gate
  BY <1>4, TransitionRunStep, TerminalEdges
     DEF Gate, Phases, ActivePhases, SuspendedPhases
<1>5. CASE VisitIntegrating
  BY <1>5 DEF VisitIntegrating
<1>6. CASE Discard
  BY <1>6 DEF Discard
<1>7. CASE Provision
  BY <1>7 DEF Provision
<1>8. CASE Merge
  BY <1>8 DEF Merge
<1>9. CASE Merged
  BY <1>9 DEF Merged
<1>10. CASE IntegrationFails
  BY <1>10 DEF IntegrationFails
<1>11. CASE Attach
  BY <1>11 DEF Attach
<1>12. CASE Announce
  BY <1>12 DEF Announce
<1>13. CASE Advance
  BY <1>13, TransitionRunStep, TerminalEdges
     DEF Advance, Phases, ActivePhases, SuspendedPhases
<1>14. CASE VisitValidating
  BY <1>14 DEF VisitValidating
<1>15. CASE Verify
  BY <1>15 DEF Verify
<1>16. CASE Accept
  BY <1>16, TransitionRunStep, TerminalEdges
     DEF Accept, Phases, ActivePhases, SuspendedPhases
<1>17. CASE ReportFailure
  BY <1>17 DEF ReportFailure
<1>18. CASE Block
  BY <1>18, TransitionRunStep, TerminalEdges
     DEF Block, Phases, ActivePhases, SuspendedPhases
<1>19. CASE VisitFinalizing
  BY <1>19 DEF VisitFinalizing
<1>20. CASE RemoveBranch
  BY <1>20 DEF RemoveBranch
<1>21. CASE BranchesDone
  BY <1>21 DEF BranchesDone
<1>22. CASE Dismantle
  BY <1>22 DEF Dismantle
<1>23. CASE Conclude
  BY <1>23, TransitionRunStep, TerminalEdges
     DEF Conclude, Phases, ActivePhases, SuspendedPhases
<1>24. CASE TickThrows
  BY <1>24 DEF TickThrows
<1>25. CASE OperatorTransition
  <2>1. PICK m \in OperatorMoves :
          /\ CanMove(phase, suspendedFrom, m[2])
          /\ TransitionRun(m[2])
          /\ work' = [t \in Tasks |->
                        IF m[2] = "canceled" /\ work[t] # "succeeded"
                        THEN "canceled" ELSE work[t]]
    BY <1>25 DEF OperatorTransition
  <2>2. m[2] # "finalizing" /\ m[2] # "succeeded"
    BY RunCompletionAssumptions
  <2>3. phase \notin TerminalPhases /\ (phase = "finalizing" => m[2] \in TerminalPhases)
    BY <2>1, TerminalEdges
  <2>4. phase' = m[2]
    BY <2>1 DEF TransitionRun
  <2> QED
    BY <1>25, <2>1, <2>2, <2>3, <2>4 DEF OperatorTransition
<1>26. CASE ResolveApproval
  BY <1>26 DEF ResolveApproval
<1>27. CASE Restart
  BY <1>27 DEF Restart
<1>28. ASSUME NEW t \in Tasks, ProvisionTask(t) PROVE PlaceInv'
  BY <1>28 DEF ProvisionTask
<1>29. ASSUME NEW t \in Tasks, RecordIdentity(t) PROVE PlaceInv'
  BY <1>29 DEF RecordIdentity
<1>30. ASSUME NEW t \in Tasks, AttemptFails(t) PROVE PlaceInv'
  BY <1>30 DEF AttemptFails
<1>31. ASSUME NEW t \in Tasks, TaskSucceeds(t) PROVE PlaceInv'
  BY <1>31 DEF TaskSucceeds
<1>32. ASSUME NEW t \in Tasks, RemoveTaskTree(t) PROVE PlaceInv'
  BY <1>32 DEF RemoveTaskTree
<1>33. CASE UNCHANGED vars
  BY <1>33 DEF vars
<1> QED
  BY <1>1, <1>2, <1>3, <1>4, <1>5, <1>6, <1>7, <1>8, <1>9, <1>10, <1>11,
     <1>12, <1>13, <1>14, <1>15, <1>16, <1>17, <1>18, <1>19, <1>20, <1>21,
     <1>22, <1>23, <1>24, <1>25, <1>26, <1>27, <1>28, <1>29, <1>30, <1>31,
     <1>32, <1>33 DEF Next, TickStep, TaskStep

-----------------------------------------------------------------------------
(* Branches and merges *)

LEMMA MergeStep ==
  TypeOK /\ GateInv /\ PlaceInv /\ MergeInv /\ [Next]_vars => MergeInv'
<1> SUFFICES ASSUME TypeOK, GateInv, PlaceInv, MergeInv, [Next]_vars PROVE MergeInv'
  OBVIOUS
<1> USE DEF runVars, taskVars, intVars, tickVars, Goto, TypeOK, PlaceInv,
       GateInv, GatedPhases, MergeInv, AllMerged, Dropped, AllSucceeded,
       IntegrationPcs, CleanupPcs
<1>1. CASE TickStart
  BY <1>1 DEF TickStart
<1>2. CASE VisitNothing
  BY <1>2 DEF VisitNothing
<1>3. CASE VisitExecuting
  BY <1>3 DEF VisitExecuting
<1>4. CASE Gate
  BY <1>4, TransitionRunStep, TerminalEdges
     DEF Gate, Phases, ActivePhases, SuspendedPhases, TerminalPhases
<1>5. CASE VisitIntegrating
  BY <1>5 DEF VisitIntegrating
<1>6. CASE Discard
  BY <1>6 DEF Discard
<1>7. CASE Provision
  BY <1>7 DEF Provision
<1>8. CASE Merge
  BY <1>8 DEF Merge
<1>9. CASE Merged
  BY <1>9 DEF Merged
<1>10. CASE IntegrationFails
  BY <1>10 DEF IntegrationFails
<1>11. CASE Attach
  BY <1>11 DEF Attach
<1>12. CASE Announce
  BY <1>12 DEF Announce
<1>13. CASE Advance
  BY <1>13, TransitionRunStep, TerminalEdges
     DEF Advance, Phases, ActivePhases, SuspendedPhases, TerminalPhases
<1>14. CASE VisitValidating
  BY <1>14 DEF VisitValidating
<1>15. CASE Verify
  BY <1>15 DEF Verify, Sound
<1>16. CASE Accept
  BY <1>16, TransitionRunStep, TerminalEdges
     DEF Accept, Phases, ActivePhases, SuspendedPhases, TerminalPhases
<1>17. CASE ReportFailure
  BY <1>17 DEF ReportFailure
<1>18. CASE Block
  BY <1>18, TransitionRunStep, TerminalEdges
     DEF Block, Phases, ActivePhases, SuspendedPhases, TerminalPhases
<1>19. CASE VisitFinalizing
  BY <1>19 DEF VisitFinalizing
<1>20. CASE RemoveBranch
  BY <1>20 DEF RemoveBranch
<1>21. CASE BranchesDone
  BY <1>21 DEF BranchesDone
<1>22. CASE Dismantle
  BY <1>22 DEF Dismantle
<1>23. CASE Conclude
  BY <1>23, TransitionRunStep, TerminalEdges
     DEF Conclude, Phases, ActivePhases, SuspendedPhases, TerminalPhases
<1>24. CASE TickThrows
  BY <1>24 DEF TickThrows
<1>25. CASE OperatorTransition
  <2>1. PICK m \in OperatorMoves :
          /\ TransitionRun(m[2])
          /\ work' = [t \in Tasks |->
                        IF m[2] = "canceled" /\ work[t] # "succeeded"
                        THEN "canceled" ELSE work[t]]
    BY <1>25 DEF OperatorTransition
  <2>2. m[2] # "finalizing" /\ m[2] # "succeeded"
    BY RunCompletionAssumptions
  <2>3. phase' \in {phase, m[2]}
    BY <2>1 DEF TransitionRun
  <2> QED
    BY <1>25, <2>1, <2>2, <2>3 DEF OperatorTransition
<1>26. CASE ResolveApproval
  BY <1>26 DEF ResolveApproval
<1>27. CASE Restart
  BY <1>27 DEF Restart
<1>28. ASSUME NEW t \in Tasks, ProvisionTask(t) PROVE MergeInv'
  BY <1>28 DEF ProvisionTask
<1>29. ASSUME NEW t \in Tasks, RecordIdentity(t) PROVE MergeInv'
  BY <1>29 DEF RecordIdentity
<1>30. ASSUME NEW t \in Tasks, AttemptFails(t) PROVE MergeInv'
  BY <1>30 DEF AttemptFails
<1>31. ASSUME NEW t \in Tasks, TaskSucceeds(t) PROVE MergeInv'
  BY <1>31 DEF TaskSucceeds
<1>32. ASSUME NEW t \in Tasks, RemoveTaskTree(t) PROVE MergeInv'
  BY <1>32 DEF RemoveTaskTree
<1>33. CASE UNCHANGED vars
  BY <1>33 DEF vars
<1> QED
  BY <1>1, <1>2, <1>3, <1>4, <1>5, <1>6, <1>7, <1>8, <1>9, <1>10, <1>11,
     <1>12, <1>13, <1>14, <1>15, <1>16, <1>17, <1>18, <1>19, <1>20, <1>21,
     <1>22, <1>23, <1>24, <1>25, <1>26, <1>27, <1>28, <1>29, <1>30, <1>31,
     <1>32, <1>33 DEF Next, TickStep, TaskStep

\* The completed event is final.
LEMMA HeadStep == TypeOK /\ HeadInv /\ [Next]_vars => HeadInv'
<1> SUFFICES ASSUME TypeOK, HeadInv, [Next]_vars PROVE HeadInv'
  OBVIOUS
<1> USE DEF runVars, taskVars, intVars, tickVars, Goto, HeadInv
<1>1. CASE TickStart
  BY <1>1 DEF TickStart
<1>2. CASE VisitNothing
  BY <1>2 DEF VisitNothing
<1>3. CASE VisitExecuting
  BY <1>3 DEF VisitExecuting
<1>4. CASE Gate
  BY <1>4 DEF Gate
<1>5. CASE VisitIntegrating
  BY <1>5 DEF VisitIntegrating
<1>6. CASE Discard
  BY <1>6 DEF Discard
<1>7. CASE Provision
  BY <1>7 DEF Provision
<1>8. CASE Merge
  BY <1>8 DEF Merge
<1>9. CASE Merged
  BY <1>9 DEF Merged
<1>10. CASE IntegrationFails
  BY <1>10 DEF IntegrationFails
<1>11. CASE Attach
  BY <1>11 DEF Attach
<1>12. CASE Announce
  BY <1>12 DEF Announce
<1>13. CASE Advance
  BY <1>13 DEF Advance
<1>14. CASE VisitValidating
  BY <1>14 DEF VisitValidating
<1>15. CASE Verify
  BY <1>15 DEF Verify
<1>16. CASE Accept
  BY <1>16 DEF Accept
<1>17. CASE ReportFailure
  BY <1>17 DEF ReportFailure
<1>18. CASE Block
  BY <1>18 DEF Block
<1>19. CASE VisitFinalizing
  BY <1>19 DEF VisitFinalizing
<1>20. CASE RemoveBranch
  BY <1>20 DEF RemoveBranch
<1>21. CASE BranchesDone
  BY <1>21 DEF BranchesDone
<1>22. CASE Dismantle
  BY <1>22 DEF Dismantle
<1>23. CASE Conclude
  BY <1>23 DEF Conclude
<1>24. CASE TickThrows
  BY <1>24 DEF TickThrows
<1>25. CASE OperatorTransition
  BY <1>25 DEF OperatorTransition
<1>26. CASE ResolveApproval
  BY <1>26 DEF ResolveApproval
<1>27. CASE Restart
  BY <1>27 DEF Restart
<1>28. ASSUME NEW t \in Tasks, ProvisionTask(t) PROVE HeadInv'
  BY <1>28 DEF ProvisionTask
<1>29. ASSUME NEW t \in Tasks, RecordIdentity(t) PROVE HeadInv'
  BY <1>29 DEF RecordIdentity
<1>30. ASSUME NEW t \in Tasks, AttemptFails(t) PROVE HeadInv'
  BY <1>30 DEF AttemptFails
<1>31. ASSUME NEW t \in Tasks, TaskSucceeds(t) PROVE HeadInv'
  BY <1>31 DEF TaskSucceeds
<1>32. ASSUME NEW t \in Tasks, RemoveTaskTree(t) PROVE HeadInv'
  BY <1>32 DEF RemoveTaskTree
<1>33. CASE UNCHANGED vars
  BY <1>33 DEF vars
<1> QED
  BY <1>1, <1>2, <1>3, <1>4, <1>5, <1>6, <1>7, <1>8, <1>9, <1>10, <1>11,
     <1>12, <1>13, <1>14, <1>15, <1>16, <1>17, <1>18, <1>19, <1>20, <1>21,
     <1>22, <1>23, <1>24, <1>25, <1>26, <1>27, <1>28, <1>29, <1>30, <1>31,
     <1>32, <1>33 DEF Next, TickStep, TaskStep

-----------------------------------------------------------------------------
(* Safety *)

LEMMA PipelineInit == Init => PipelineInv
<1> SUFFICES ASSUME Init PROVE PipelineInv
  OBVIOUS
<1>1. TypeOK
  <2>1. 0 \in 0..MaxRestarts
    BY RunCompletionAssumptions
  <2>2. "executing" \in Phases
    BY DEF Phases, ActivePhases
  <2> QED
    BY <2>1, <2>2 DEF Init, TypeOK, Pcs, WorkStages
<1>2. GateInv /\ PlaceInv /\ HeadInv
  BY
     DEF Init, GateInv, PlaceInv, HeadInv, GatedPhases, NoPhase,
         IntegrationPcs,
         CleanupPcs
<1>3. MergeInv
  BY DEF Init, MergeInv, Dropped, NoPhase
<1> QED
  BY <1>1, <1>2, <1>3 DEF PipelineInv

\* PipelineInv holds in every reachable state.
THEOREM PipelineInvariant == Spec => []PipelineInv
<1>1. PipelineInv /\ [Next]_vars => PipelineInv'
  BY TypeStep, GateStep, PlaceStep, MergeStep, HeadStep DEF PipelineInv
<1> QED
  BY PipelineInit, <1>1, PTL DEF Spec

\* Every variable has its type, in every reachable state.
THEOREM TypeCorrect == Spec => []TypeOK
<1>1. PipelineInv => TypeOK
  BY DEF PipelineInv
<1> QED
  BY PipelineInvariant, <1>1, PTL

\* The work of a succeeded task is on its branch or on the integration branch.
THEOREM WorkKeptHolds == Spec => []WorkKept
<1>1. PipelineInv => WorkKept
  BY DEF PipelineInv, MergeInv, WorkKept, Dropped, AllMerged
<1> QED
  BY PipelineInvariant, <1>1, PTL

\* A run that succeeded has the work of all its tasks.
THEOREM SucceededIsIntegratedHolds == Spec => []SucceededIsIntegrated
<1>1. PipelineInv => SucceededIsIntegrated
  BY DEF PipelineInv, GateInv, GatedPhases, MergeInv, AllMerged,
         SucceededIsIntegrated
<1> QED
  BY PipelineInvariant, <1>1, PTL

\* The recorded head is the tip once the integration is completed.
THEOREM HeadIsTipHolds == Spec => []HeadIsTip
<1>1. PipelineInv => HeadIsTip
  BY DEF PipelineInv, HeadInv, HeadIsTip
<1> QED
  BY PipelineInvariant, <1>1, PTL

\* A completed integration is not merged again.
THEOREM MergedOnceHolds == Spec => MergedOnce
<1>1. PipelineInv /\ [Next]_vars
        => [completed => UNCHANGED <<merged, intBranch>>]_vars
  <2> SUFFICES ASSUME PipelineInv, [Next]_vars, completed
               PROVE  UNCHANGED <<merged, intBranch>>
    OBVIOUS
  <2> USE DEF PipelineInv, HeadInv, intVars
  <2>1. ASSUME NEW t \in Tasks, TaskStep(t) PROVE UNCHANGED <<merged, intBranch>>
    BY <2>1 DEF TaskStep, ProvisionTask, RecordIdentity, AttemptFails,
                TaskSucceeds, RemoveTaskTree
  <2>2. CASE TickStep
    BY <2>2 DEF TickStep, TickStart, VisitNothing, VisitExecuting, Gate,
                VisitIntegrating, Discard, Provision, Merge, Merged,
                IntegrationFails, Attach, Announce, Advance, VisitValidating,
                Verify, Accept, ReportFailure, Block, VisitFinalizing,
                RemoveBranch, BranchesDone, Dismantle, Conclude, TickThrows
  <2>3. CASE OperatorTransition \/ ResolveApproval \/ Restart \/ UNCHANGED vars
    BY <2>3 DEF OperatorTransition, ResolveApproval, Restart, vars
  <2> QED
    BY <2>1, <2>2, <2>3 DEF Next
<1> QED
  BY PipelineInvariant, <1>1, PTL DEF Spec, MergedOnce

-----------------------------------------------------------------------------
(* The promise *)

\* The refinement mapping of Promise, by name.
AbstractOutcome == IF phase \in TerminalPhases THEN phase ELSE "open"

AbstractMerged == IF intBranch THEN merged \ Empty ELSE {}

AbstractUnchanged == UNCHANGED <<AbstractOutcome, AbstractMerged, Dropped>>

\* A step that leaves the branches and the statuses of succeeded tasks alone
\* drops nothing.
LEMMA NothingDropped ==
  ASSUME branches' = branches,
         \A t \in Tasks : (work[t] = "succeeded") <=> (work'[t] = "succeeded")
  PROVE  Dropped' = Dropped
BY DEF Dropped

\* A transition of the tick decides the run at most once, and lets it succeed
\* only fully merged.
LEMMA TransitionDecides ==
  ASSUME PipelineInv, NEW to \in Phases, TransitionRun(to),
         UNCHANGED <<merged, intBranch>>, Dropped' = Dropped,
         to = "succeeded" => AllMerged
  PROVE  Promise!Decide \/ AbstractUnchanged
<1>1. CASE UNCHANGED phase
  BY <1>1 DEF AbstractUnchanged, AbstractOutcome, AbstractMerged
<1>2. CASE phase' # phase
  <2>1. phase' = to /\ CanMove(phase, suspendedFrom, to)
    BY <1>2, TransitionRunStep DEF PipelineInv, TypeOK
  <2>2. phase \notin TerminalPhases
    BY <2>1, TerminalEdges
  <2>3. to = "succeeded" => AbstractMerged = Tasks \ Empty
    BY DEF AllMerged, AbstractMerged, PipelineInv, TypeOK
  <2>4. CASE to \in TerminalPhases
    BY <2>1, <2>2, <2>3, <2>4
       DEF Promise!Decide, Dropped, AbstractMerged, TerminalPhases
  <2>5. CASE to \notin TerminalPhases
    BY <2>1, <2>2, <2>5 DEF AbstractUnchanged, AbstractOutcome, AbstractMerged
  <2> QED
    BY <2>4, <2>5
<1> QED
  BY <1>1, <1>2

\* Every step of the pipeline is a step of the promise, or none.
LEMMA PromiseStep ==
  PipelineInv /\ [Next]_vars => [Promise!Next]_<<AbstractOutcome, AbstractMerged, Dropped>>
<1> SUFFICES ASSUME PipelineInv, [Next]_vars
             PROVE  Promise!Next \/ AbstractUnchanged
  BY DEF AbstractUnchanged
<1> USE DEF runVars, taskVars, intVars, tickVars, Goto
<1>1. ASSUME UNCHANGED <<phase, intVars>>, Dropped' = Dropped PROVE AbstractUnchanged
  BY <1>1 DEF AbstractUnchanged, AbstractOutcome, AbstractMerged
<1>2. CASE UNCHANGED vars
  BY <1>1, <1>2, NothingDropped DEF vars
<1>3. ASSUME NEW t \in Tasks, TaskStep(t) PROVE AbstractUnchanged
  <2>1. UNCHANGED <<phase, intVars>>
    BY <1>3 DEF TaskStep, ProvisionTask, RecordIdentity, AttemptFails,
                TaskSucceeds, RemoveTaskTree
  <2>2. CASE ProvisionTask(t)
    <3>1. branches' = branches \cup {t} /\ work' = [work EXCEPT ![t] = "provisioning"]
      BY <2>2 DEF ProvisionTask
    <3>2. work[t] # "succeeded"
      BY <2>2 DEF ProvisionTask
    <3> QED
      BY <3>1, <3>2, <2>1, <1>1 DEF Dropped, PipelineInv, TypeOK
  <2>3. CASE TaskSucceeds(t)
    <3>1. t \in branches
      BY <2>3 DEF TaskSucceeds, PipelineInv, MergeInv
    <3> QED
      BY <2>3, <3>1, <2>1, <1>1 DEF TaskSucceeds, Dropped, PipelineInv, TypeOK
  <2>4. CASE RecordIdentity(t) \/ AttemptFails(t) \/ RemoveTaskTree(t)
    BY <2>4, <2>1, <1>1, NothingDropped
       DEF RecordIdentity, AttemptFails, RemoveTaskTree, PipelineInv, TypeOK
  <2> QED
    BY <1>3, <2>2, <2>3, <2>4 DEF TaskStep
<1>4. CASE Discard \/ Provision \/ Merge
  <2>1. Dropped = {} /\ Dropped' = {} /\ UNCHANGED phase
    BY <1>4, NothingDropped
       DEF Discard, Provision, Merge, PipelineInv, MergeInv, PlaceInv, IntegrationPcs
  <2>2. AbstractMerged' \in SUBSET (Tasks \ Empty)
    <3>1. merged \subseteq Tasks /\ todo \subseteq Tasks
      BY DEF PipelineInv, TypeOK
    <3>2. merged' \subseteq Tasks
      <4>1. CASE Discard
        BY <4>1, <3>1 DEF Discard
      <4>2. CASE Provision
        BY <4>2, <3>1 DEF Provision
      <4>3. CASE Merge
        BY <4>3, <3>1 DEF Merge
      <4> QED
        BY <1>4, <4>1, <4>2, <4>3
    <3> QED
      BY <3>2 DEF AbstractMerged
  <2>3. Promise!Integrate
    BY <2>1, <2>2 DEF Promise!Integrate, AbstractMerged, Dropped
  <2> QED
    BY <2>3 DEF Promise!Next
<1>5. CASE RemoveBranch
  <2>1. PICK t \in todo : branches' = branches \/ branches' = branches \ {t}
    BY <1>5 DEF RemoveBranch
  <2>2. UNCHANGED <<phase, intVars, work>>
    BY <1>5 DEF RemoveBranch
  <2>3. CASE Dropped' = Dropped
    BY <2>2, <2>3, <1>1
  <2>4. CASE Dropped' # Dropped
    <3>1. t \in Tasks \ Empty /\ Dropped' = Dropped \cup {t}
      BY <2>1, <2>2, <2>4 DEF Dropped, PipelineInv, TypeOK
    <3>2. AbstractMerged = Tasks \ Empty
      BY <1>5 DEF RemoveBranch, PipelineInv, TypeOK, PlaceInv, CleanupPcs,
                  MergeInv, AllMerged, AbstractMerged
    <3>3. Promise!Drop(t)
      BY <2>2, <3>1, <3>2 DEF Promise!Drop, Dropped, AbstractMerged
    <3> QED
      BY <3>1, <3>3 DEF Promise!Next
  <2> QED
    BY <2>3, <2>4
<1>6. CASE Gate \/ Advance \/ Accept \/ Block \/ Conclude
  <2>1. PICK to \in {"awaiting_approval", "validating", "finalizing", "blocked",
                     "succeeded"} :
          TransitionRun(to) /\ (to = "succeeded" => pc = "conclude")
    BY <1>6 DEF Gate, Advance, Accept, Block, Conclude
  <2>2. to = "succeeded" => AllMerged
    BY <2>1 DEF PipelineInv, PlaceInv, CleanupPcs, MergeInv
  <2>3. UNCHANGED <<merged, intBranch>> /\ Dropped' = Dropped
    BY <1>6, NothingDropped DEF Gate, Advance, Accept, Block, Conclude
  <2>4. to \in Phases
    BY <2>1 DEF Phases, ActivePhases, SuspendedPhases, TerminalPhases
  <2> QED
    BY <2>1, <2>2, <2>3, <2>4, TransitionDecides DEF Promise!Next
<1>7. CASE OperatorTransition
  <2>1. PICK m \in OperatorMoves :
          /\ TransitionRun(m[2])
          /\ work' = [t \in Tasks |->
                        IF m[2] = "canceled" /\ work[t] # "succeeded"
                        THEN "canceled" ELSE work[t]]
    BY <1>7 DEF OperatorTransition
  <2>2. m[2] \in Phases /\ m[2] # "succeeded"
    BY RunCompletionAssumptions
  <2>3. UNCHANGED <<merged, intBranch, branches>>
    BY <1>7 DEF OperatorTransition
  <2>4. Dropped' = Dropped
    BY <2>1, <2>3, NothingDropped
  <2> QED
    BY <2>1, <2>2, <2>3, <2>4, TransitionDecides DEF Promise!Next
<1>8. CASE Restart
  <2>1. \A t \in Tasks : (work[t] = "succeeded") <=> (work'[t] = "succeeded")
    BY <1>8 DEF Restart
  <2> QED
    BY <1>8, <2>1, <1>1, NothingDropped DEF Restart
<1>9. CASE \/ TickStart \/ VisitNothing \/ VisitExecuting \/ VisitIntegrating
           \/ Merged \/ IntegrationFails \/ Attach \/ Announce
           \/ VisitValidating \/ Verify \/ ReportFailure \/ VisitFinalizing
           \/ BranchesDone \/ Dismantle \/ TickThrows \/ ResolveApproval
  <2>1. UNCHANGED <<phase, work, branches, merged, intBranch>>
    BY <1>9
       DEF TickStart, VisitNothing, VisitExecuting, VisitIntegrating, Merged,
                IntegrationFails, Attach, Announce, VisitValidating, Verify,
                ReportFailure, VisitFinalizing, BranchesDone, Dismantle,
                TickThrows, ResolveApproval
  <2> QED
    BY <2>1, NothingDropped
       DEF AbstractUnchanged, AbstractOutcome, AbstractMerged
<1> QED
  BY <1>2, <1>3, <1>4, <1>5, <1>6, <1>7, <1>8, <1>9 DEF Next, TickStep

\* The pipeline implements CompletionPromise.
THEOREM PromiseKeptHolds == Spec => PromiseKept
<1>1. Init => Promise!Init
  BY DEF Init, Promise!Init, TerminalPhases
<1>2. PipelineInv /\ [Next]_vars => [Promise!Next]_(Promise!promiseVars)
  BY PromiseStep
     DEF Promise!promiseVars, AbstractOutcome, AbstractMerged, Dropped
<1> QED
  BY PipelineInvariant, <1>1, <1>2, PTL DEF Spec, PromiseKept, Promise!Spec


-----------------------------------------------------------------------------
(***************************************************************************)
(* The budget.  The inductive invariant says what the callers that are     *)
(* under way still owe: no two of them are at one key unnoticed, a warning *)
(* that is to be given has not been given, a check that follows a result   *)
(* that went over is going to pause the run, and a number that was read is *)
(* above all the numbers that were there.                                  *)
(***************************************************************************)

(* Types *)

Finds == [key : Keys, exceeded : BOOLEAN]
Puts == [seq : Nat, behind : Nat]
Frames == [pc : CallPcs, tokens : Nat, todo : Seq(Finds), to : Phases \cup {NoPhase},
           put : Puts, budget : Budgets \cup {<<>>}]
Origins == ActivePhases \cup {NoPhase}
Checkers == Callers \ {"operator"}

Distinct(rest) == \A i, j \in DOMAIN rest : i # j => rest[i].key # rest[j].key

\* What the place of a caller says of the rest of its frame.
FrameRight(x, f) ==
  /\ f.pc \in {"off", "add", "read", "raise"} => f.todo = <<>>
  /\ f.pc \in {"mark", "event"} => f.todo # <<>>
  /\ f.pc = "move" => f.to \in Phases
  /\ f.pc = "raise" => f.budget \in Budgets
  /\ Distinct(f.todo)
  /\ x = "operator" => f.pc \in {"off", "move", "log", "raise"} /\ f.todo = <<>>
  /\ x # "operator" => /\ f.pc # "raise"
                       /\ f.pc \in {"move", "log"} => f.todo # <<>>
                       /\ f.pc = "move" => f.to = "paused"

Typed ==
  /\ rec \in [phase : Phases, origin : Origins, usage : Nat, budget : Budgets,
              warnings : SUBSET Keys]
  /\ events \in Seq(Puts)
  /\ frame \in [Callers -> Frames]
  /\ \A x \in Callers : FrameRight(x, frame[x])
  /\ now \in Nat /\ spent \in Nat /\ over \in BOOLEAN
  /\ warned \in [once : SUBSET Keys, twice : SUBSET Keys, overlapped : SUBSET Keys]

LEMMA Numbers == {MaxResults, MaxMinutes, MaxTicks, MaxRequests, UsedBefore} \subseteq Nat
                 /\ Amounts \subseteq Nat /\ Budgets \subseteq [Keys -> Nat]
  BY BudgetAssumptions

LEMMA OffFrame == /\ Off \in Frames /\ Off.pc = "off" /\ Off.todo = <<>>
                  /\ \A x : FrameRight(x, Off)
<1>1. Off \in Frames
  BY DEF Off, Frames, CallPcs, Puts
<1>2. Off.pc = "off" /\ Off.todo = <<>>
  BY DEF Off
<1>3. Distinct(Off.todo)
  BY <1>2 DEF Distinct
<1> QED
  BY <1>1, <1>2, <1>3 DEF FrameRight

\* One caller moves.
LEMMA FrameMoves ==
  ASSUME Typed, NEW x \in Callers, NEW f \in Frames, FrameRight(x, f), Becomes(x, f)
  PROVE  /\ frame' \in [Callers -> Frames]
         /\ \A y \in Callers : FrameRight(y, frame'[y])
         /\ frame'[x] = f
         /\ \A y \in Callers : y # x => frame'[y] = frame[y]
<1>1. /\ frame' \in [Callers -> Frames]
      /\ frame'[x] = f
      /\ \A y \in Callers : y # x => frame'[y] = frame[y]
  BY DEF Typed, Becomes
<1> QED
  BY <1>1 DEF Typed

\* A caller goes on with what is left of its findings.
LEMMA CheckingFrame ==
  ASSUME NEW x \in Checkers, NEW rest \in Seq(Finds), Distinct(rest)
  PROVE  /\ Checking(rest) \in Frames /\ FrameRight(x, Checking(rest))
         /\ Checking(rest).todo = rest
         /\ Checking(rest).pc = IF rest = <<>> THEN "off" ELSE "mark"
<1>1. CASE rest = <<>>
  BY <1>1, OffFrame DEF Checking
<1>2. CASE rest # <<>>
  <2> DEFINE f == [Off EXCEPT !.pc = "mark", !.todo = rest]
  <2>1. Checking(rest) = f
    BY <1>2 DEF Checking
  <2>2. f \in Frames /\ f.pc = "mark" /\ f.todo = rest
    BY OffFrame DEF Frames, CallPcs
  <2> HIDE DEF f
  <2> QED
    BY <1>2, <2>1, <2>2 DEF FrameRight, Checkers
<1> QED
  BY <1>1, <1>2

LEMMA TailFinds ==
  ASSUME NEW rest \in Seq(Finds), rest # <<>>, Distinct(rest)
  PROVE  /\ Tail(rest) \in Seq(Finds) /\ Distinct(Tail(rest))
         /\ Head(rest) = rest[1] /\ 1 \in DOMAIN rest /\ Head(rest) \in Finds
         /\ \A i \in DOMAIN Tail(rest) : i + 1 \in DOMAIN rest \ {1} /\ Tail(rest)[i] = rest[i + 1]
         /\ \A i \in DOMAIN rest \ {1} : i - 1 \in DOMAIN Tail(rest) /\ Tail(rest)[i - 1] = rest[i]
<1>1. /\ Len(rest) \in Nat \ {0} /\ DOMAIN rest = 1..Len(rest)
      /\ Tail(rest) \in Seq(Finds)
      /\ DOMAIN Tail(rest) = 1..(Len(rest) - 1)
      /\ \A i \in 1..(Len(rest) - 1) : Tail(rest)[i] = rest[i + 1]
      /\ Head(rest) = rest[1] /\ rest[1] \in Finds
  OBVIOUS
<1> QED
  BY <1>1 DEF Distinct

\* Where a caller goes after its transition.
LEMMA AfterMoveFrame ==
  ASSUME Typed, NEW x \in Callers, frame[x].pc \in {"move", "log"}
  PROVE  AfterMove(x) \in Frames /\ FrameRight(x, AfterMove(x))
<1>1. CASE x = "operator"
  BY <1>1, OffFrame DEF AfterMove
<1>2. CASE x # "operator"
  <2>1. /\ frame[x].todo \in Seq(Finds) /\ frame[x].todo # <<>> /\ Distinct(frame[x].todo)
        /\ x \in Checkers
    BY <1>2 DEF Typed, Frames, FrameRight, Checkers
  <2>2. Tail(frame[x].todo) \in Seq(Finds) /\ Distinct(Tail(frame[x].todo))
    BY <2>1, TailFinds
  <2> QED
    BY <1>2, <2>1, <2>2, CheckingFrame DEF AfterMove
<1> QED
  BY <1>1, <1>2

-----------------------------------------------------------------------------
(* The phase machine *)

\* Whatever a run is suspended from is an active phase.
LEMMA OriginActive ==
  ASSUME NEW from \in Phases, NEW origin \in Origins, NEW to \in Phases, CanMove(from, origin, to)
  PROVE  OriginAfter(from, to) \in Origins
<1>1. CASE to \in SuspendedPhases
  <2>1. from \in ActivePhases
    <3>1. CASE from \in SuspendedPhases
      BY <1>1, <3>1 DEF CanMove, SuspendedPhases, Origins, ActivePhases, NoPhase
    <3>2. CASE from \notin SuspendedPhases
      BY <3>2 DEF CanMove, RunEdges, ActivePhases
    <3> QED
      BY <3>1, <3>2
  <2> QED
    BY <1>1, <2>1 DEF OriginAfter, Origins
<1>2. CASE to \notin SuspendedPhases
  BY <1>2 DEF OriginAfter, Origins
<1> QED
  BY <1>1, <1>2

\* A run that has been paused cannot be paused.
LEMMA PausedRests ==
  ASSUME NEW from \in Phases, NEW origin \in Origins, CanMove(from, origin, "paused")
  PROVE  ~CanMove("paused", OriginAfter(from, "paused"), "paused")
<1>1. from \in ActivePhases
  <2>1. CASE from \in SuspendedPhases
    BY <2>1 DEF CanMove, SuspendedPhases, Origins, ActivePhases, NoPhase
  <2>2. CASE from \notin SuspendedPhases
    BY <2>2 DEF CanMove, RunEdges, ActivePhases
  <2> QED
    BY <2>1, <2>2
<1>2. OriginAfter(from, "paused") = from
  BY DEF OriginAfter, SuspendedPhases
<1> QED
  BY <1>1, <1>2 DEF CanMove, SuspendedPhases, ActivePhases

-----------------------------------------------------------------------------
(* The inductive invariant *)

\* The findings a caller has not marked yet.
Owed(f) ==
  IF f.pc = "mark" THEN DOMAIN f.todo
  ELSE IF f.pc \in {"event", "move", "log"} THEN DOMAIN f.todo \ {1} ELSE {}

KeysIn(f) == {g.key : g \in Entries(f.todo)}

\* Two callers at one key have been noticed.
ChecksApart ==
  \A x, y \in Callers : x # y => KeysIn(frame[x]) \cap KeysIn(frame[y]) \subseteq warned.overlapped

\* A warning that is going to be given is about a limit and was not given yet.
NearUnwarned ==
  \A x \in Callers : \A i \in Owed(frame[x]) :
    \/ frame[x].todo[i].exceeded
    \/ frame[x].todo[i].key \in warned.overlapped
    \/ rec.budget[frame[x].todo[i].key] # Unset /\ frame[x].todo[i].key \notin warned.once

\* The record still names the keys that were warned of.
OnceStays ==
  \A k \in warned.once : k \in warned.overlapped \/ (k \in rec.warnings /\ rec.budget[k] # Unset)

Warnings == ChecksApart /\ NearUnwarned /\ OnceStays /\ WarnedOnce

\* A check follows that is going to pause the run.
Coming(f) ==
  \/ f.pc = "read"
  \/ f.pc \in {"mark", "event", "move"} /\ \E i \in DOMAIN f.todo : f.todo[i].exceeded

Rests == ~CanMove(rec.phase, rec.origin, "paused")

OverAnswered ==
  over => /\ \E k \in TokenKeys : rec.budget[k] \in 1..rec.usage
          /\ Rests \/ \E x \in Checkers : Coming(frame[x])

\* The numbers of the events have a largest one.
TopNumber ==
  events # <<>> =>
    \E i \in DOMAIN events : \A j \in DOMAIN events : events[j].seq <= events[i].seq

Ahead(put) ==
  put.behind <= Len(events) /\ \A i \in 1..put.behind : events[i].seq < put.seq

\* A number that was read is above those that were there.
NumbersAhead == \A x \in Callers : frame[x].pc \in {"event", "log"} => Ahead(frame[x].put)

\* No event was numbered after more events than there are.
Behind == \A j \in DOMAIN events : events[j].behind <= Len(events)

Numbering == TopNumber /\ NumbersAhead /\ Behind /\ EventsInOrder

BudgetIInv == Typed /\ Warnings /\ OverAnswered /\ Numbering /\ UsageCounted

-----------------------------------------------------------------------------
(* The helpers of the checks *)

LEMMA LimitNat ==
  ASSUME Typed, NEW k \in Keys
  PROVE  rec.budget[k] \in Nat
  BY Numbers DEF Typed

\* What a check found of one key.
OneFinding(k, used, rest) ==
  /\ rest \in Seq(Finds) /\ Len(rest) \in {0, 1}
  /\ \A i \in DOMAIN rest :
       /\ i = 1 /\ rest[i].key = k
       /\ rest[i].exceeded \/ (k \notin rec.warnings /\ rec.budget[k] # Unset)
  /\ rec.budget[k] \in 1..used => rest # <<>> /\ rest[1].exceeded

LEMMA FindingOf ==
  ASSUME Typed, NEW k \in Keys, NEW used \in Nat
  PROVE  OneFinding(k, used, Finding(k, used))
<1> DEFINE limit == rec.budget[k]
           e == Exceeded(limit, used)
           near == Near(limit, used) /\ k \notin rec.warnings
           g == [key |-> k, exceeded |-> e]
<1>1. Finding(k, used) = IF e \/ near THEN <<g>> ELSE <<>>
  BY DEF Finding
<1>2. /\ e \in BOOLEAN
      /\ near => k \notin rec.warnings /\ limit # Unset
      /\ limit \in 1..used => e
  BY LimitNat DEF Exceeded, Near, Unset
<1> HIDE DEF e, near, limit
<1>3. g \in Finds /\ g.key = k /\ g.exceeded = e
  BY <1>2 DEF Finds
<1> HIDE DEF g
<1>4. CASE e \/ near
  <2>1. Finding(k, used) = <<g>>
    BY <1>1, <1>4
  <2>2. <<g>> \in Seq(Finds) /\ Len(<<g>>) = 1 /\ DOMAIN <<g>> = {1} /\ <<g>>[1] = g /\ <<g>> # <<>>
    BY <1>3
  <2> QED
    BY <1>2, <1>3, <1>4, <2>1, <2>2 DEF limit, OneFinding
<1>5. CASE ~(e \/ near)
  <2>1. Finding(k, used) = <<>>
    BY <1>1, <1>5
  <2> QED
    BY <1>2, <1>5, <2>1 DEF limit, OneFinding
<1> QED
  BY <1>4, <1>5

\* What the record says of the keys that a check finds.
Justified(rest) ==
  \A i \in DOMAIN rest :
    rest[i].exceeded \/ (rest[i].key \notin rec.warnings /\ rec.budget[rest[i].key] # Unset)

LEMMA TokenFindingsOf ==
  ASSUME Typed
  PROVE  /\ TokenFindings \in Seq(Finds) /\ Distinct(TokenFindings) /\ Justified(TokenFindings)
         /\ (\E k \in TokenKeys : rec.budget[k] \in 1..rec.usage) =>
              \E i \in DOMAIN TokenFindings : TokenFindings[i].exceeded
<1> DEFINE k1 == "maxTotalTokens"
           k2 == "maxOutputTokens"
           s == Finding(k1, rec.usage)
           t == Finding(k2, rec.usage)
<1>1. k1 \in Keys /\ k2 \in Keys /\ k1 # k2 /\ TokenKeys = {k1, k2} /\ rec.usage \in Nat
  BY DEF Keys, TokenKeys, Typed
<1>2. TokenFindings = s \o t
  BY DEF TokenFindings
<1> HIDE DEF k1, k2
<1>a. OneFinding(k1, rec.usage, s) /\ OneFinding(k2, rec.usage, t)
  BY <1>1, FindingOf
<1> HIDE DEF s, t
<1>3. /\ s \in Seq(Finds) /\ Len(s) \in {0, 1}
      /\ \A i \in DOMAIN s : /\ i = 1 /\ s[i].key = k1
                             /\ s[i].exceeded \/ (k1 \notin rec.warnings /\ rec.budget[k1] # Unset)
      /\ rec.budget[k1] \in 1..rec.usage => s # <<>> /\ s[1].exceeded
  BY <1>a DEF OneFinding
<1>4. /\ t \in Seq(Finds) /\ Len(t) \in {0, 1}
      /\ \A i \in DOMAIN t : /\ i = 1 /\ t[i].key = k2
                             /\ t[i].exceeded \/ (k2 \notin rec.warnings /\ rec.budget[k2] # Unset)
      /\ rec.budget[k2] \in 1..rec.usage => t # <<>> /\ t[1].exceeded
  BY <1>a DEF OneFinding
<1>5. /\ s \o t \in Seq(Finds) /\ DOMAIN (s \o t) = 1..(Len(s) + Len(t))
      /\ DOMAIN s = 1..Len(s) /\ DOMAIN t = 1..Len(t)
      /\ \A i \in DOMAIN (s \o t) : (s \o t)[i] = IF i <= Len(s) THEN s[i] ELSE t[i - Len(s)]
  BY <1>3, <1>4
<1>6. \A i \in DOMAIN (s \o t) :
        \/ i = 1 /\ i <= Len(s) /\ (s \o t)[i] = s[1]
        \/ i = Len(s) + 1 /\ 1 \in DOMAIN t /\ (s \o t)[i] = t[1]
  BY <1>3, <1>4, <1>5
<1>7. Distinct(s \o t)
  BY <1>1, <1>3, <1>4, <1>5, <1>6 DEF Distinct
<1>8. Justified(s \o t)
  BY <1>3, <1>4, <1>5, <1>6 DEF Justified
<1>9. (\E k \in TokenKeys : rec.budget[k] \in 1..rec.usage) =>
         \E i \in DOMAIN (s \o t) : (s \o t)[i].exceeded
  <2>1. CASE rec.budget[k1] \in 1..rec.usage
    <3>1. 1 \in DOMAIN (s \o t) /\ (s \o t)[1] = s[1]
      BY <1>3, <1>4, <1>5, <2>1
    <3> QED
      BY <1>3, <2>1, <3>1
  <2>2. CASE rec.budget[k2] \in 1..rec.usage
    <3>1. Len(s) + 1 \in DOMAIN (s \o t) /\ (s \o t)[Len(s) + 1] = t[1]
      BY <1>3, <1>4, <1>5, <2>2
    <3> QED
      BY <1>4, <2>2, <3>1
  <2> QED
    BY <1>1, <2>1, <2>2
<1> QED
  BY <1>2, <1>5, <1>7, <1>8, <1>9

\* The next number is above the numbers of all events.
LEMMA NextSeqAbove ==
  ASSUME Typed, TopNumber
  PROVE  /\ Numbered \in Puts /\ Numbered.behind = Len(events) /\ Ahead(Numbered)
<1> DEFINE seqs == {e.seq : e \in Entries(events)}
           top == CHOOSE n \in seqs : \A e \in Entries(events) : e.seq <= n
<1>1. events \in Seq(Puts) /\ DOMAIN events = 1..Len(events) /\ Len(events) \in Nat
  BY DEF Typed
<1>2. CASE events = <<>>
  <2>1. NextSeq = 1
    BY <1>2 DEF NextSeq
  <2>2. Numbered = [seq |-> 1, behind |-> 0]
    BY <1>2, <2>1 DEF Numbered
  <2> QED
    BY <1>2, <2>2 DEF Puts, Ahead
<1>3. CASE events # <<>>
  <2>1. \E n \in seqs : \A e \in Entries(events) : e.seq <= n
    <3>1. PICK i \in DOMAIN events : \A j \in DOMAIN events : events[j].seq <= events[i].seq
      BY <1>3 DEF TopNumber
    <3>2. events[i].seq \in seqs /\ \A e \in Entries(events) : e.seq <= events[i].seq
      BY <3>1 DEF Entries
    <3> QED
      BY <3>2
  <2>2. top \in seqs /\ \A e \in Entries(events) : e.seq <= top
    <3> HIDE DEF seqs
    <3> QED
      BY <2>1, Zenon
  <2>3. NextSeq = 1 + top
    BY <1>3 DEF NextSeq
  <2> HIDE DEF top
  <2>4. top \in Nat /\ \A i \in DOMAIN events : events[i].seq \in Nat /\ events[i].seq <= top
    <3>1. \A i \in DOMAIN events : events[i] \in Puts /\ events[i] \in Entries(events)
      BY <1>1 DEF Entries
    <3>2. \A e \in Puts : e.seq \in Nat
      BY DEF Puts
    <3>3. \A i \in DOMAIN events : events[i].seq \in Nat /\ events[i].seq <= top
      BY <2>2, <3>1, <3>2
    <3>4. top \in Nat
      <4>1. PICK e \in Entries(events) : top = e.seq
        BY <2>2
      <4>2. PICK i \in DOMAIN events : e = events[i]
        BY <4>1 DEF Entries
      <4> QED
        BY <3>3, <4>1, <4>2
    <3> QED
      BY <3>3, <3>4
  <2>5. Numbered = [seq |-> 1 + top, behind |-> Len(events)]
    BY <2>3 DEF Numbered
  <2>6. /\ Numbered.seq = 1 + top /\ Numbered.behind = Len(events) /\ Numbered \in Puts
    BY <1>1, <2>4, <2>5 DEF Puts
  <2>7. \A i \in 1..Len(events) : events[i].seq < 1 + top
    BY <1>1, <2>4
  <2> QED
    BY <1>1, <2>6, <2>7 DEF Ahead
<1> QED
  BY <1>2, <1>3

-----------------------------------------------------------------------------
(* What most steps keep *)

\* A caller whose findings become fewer, of a record whose budget stays.
LEMMA WarningsKept ==
  ASSUME Typed, Warnings, NEW x \in Callers,
         \A y \in Callers : y # x => frame'[y] = frame[y],
         KeysIn(frame'[x]) \subseteq KeysIn(frame[x]),
         \A i \in Owed(frame'[x]) : \E j \in Owed(frame[x]) : frame'[x].todo[i] = frame[x].todo[j],
         warned' = warned, rec'.budget = rec.budget, rec'.warnings = rec.warnings
  PROVE  Warnings'
<1>1. ChecksApart'
  <2>1. \A y \in Callers : KeysIn(frame'[y]) \subseteq KeysIn(frame[y])
    OBVIOUS
  <2>2. \A y \in Callers : KeysIn(frame[y])' = KeysIn(frame'[y])
    BY DEF KeysIn, Entries
  <2> QED
    BY <2>1, <2>2 DEF Warnings, ChecksApart
<1>2. NearUnwarned'
  BY DEF Warnings, NearUnwarned, Owed
<1>3. OnceStays' /\ WarnedOnce'
  BY DEF Warnings, OnceStays, WarnedOnce
<1> QED
  BY <1>1, <1>2, <1>3 DEF Warnings

\* A caller that puts no event and reads no number.
LEMMA NumberingKept ==
  ASSUME Typed, Numbering, NEW x \in Callers,
         \A y \in Callers : y # x => frame'[y] = frame[y],
         frame'[x].pc \in {"event", "log"} => frame'[x].put = Numbered,
         events' = events
  PROVE  Numbering'
<1>1. TopNumber' /\ EventsInOrder' /\ Behind'
  BY DEF Numbering, TopNumber, EventsInOrder, Behind
<1>2. Ahead(Numbered)
  BY NextSeqAbove DEF Numbering
<1>3. NumbersAhead'
  <2> DEFINE n == Numbered
  <2> HIDE DEF n
  <2>1. frame'[x].pc \in {"event", "log"} => frame'[x].put = n
    BY DEF n
  <2>2. Ahead(n)
    BY <1>2 DEF n
  <2> QED
    BY <2>1, <2>2 DEF Numbering, NumbersAhead, Ahead
<1> QED
  BY <1>1, <1>3 DEF Numbering

\* A caller that puts its event.
LEMMA NumberingPut ==
  ASSUME Typed, Numbering, NEW x \in Callers, frame[x].pc \in {"event", "log"},
         \A y \in Callers : y # x => frame'[y] = frame[y],
         frame'[x].pc \notin {"event", "log"},
         events' = Append(events, frame[x].put)
  PROVE  Numbering' /\ events' \in Seq(Puts)
<1> DEFINE put == frame[x].put
           n == Len(events) + 1
<1>1. /\ put \in Puts /\ Ahead(put) /\ events \in Seq(Puts)
  BY DEF Typed, Frames, Numbering, NumbersAhead
<1>2. /\ Len(events) \in Nat /\ DOMAIN events = 1..Len(events) /\ DOMAIN events' = 1..n
      /\ \A i \in DOMAIN events : events'[i] = events[i] /\ events[i] \in Puts
      /\ events'[n] = put /\ Len(events') = n /\ events' # <<>> /\ events' \in Seq(Puts)
  BY <1>1
<1>3. put.behind \in Nat /\ put.seq \in Nat /\ put.behind <= Len(events)
      /\ \A i \in 1..put.behind : events[i].seq < put.seq
  BY <1>1 DEF Ahead, Puts
<1> HIDE DEF put, n
<1>4. TopNumber'
  <2>1. CASE events = <<>>
    BY <1>2, <1>3, <2>1 DEF TopNumber, n
  <2>2. CASE events # <<>>
    <3>1. PICK i \in DOMAIN events : \A j \in DOMAIN events : events[j].seq <= events[i].seq
      BY <2>2 DEF Numbering, TopNumber
    <3>2. events[i].seq \in Nat /\ i \in 1..n /\ events'[i] = events[i] /\ n \in 1..n
      BY <1>2 DEF Puts, n
    <3>3. CASE put.seq <= events[i].seq
      <4>1. \A j \in 1..n : events'[j].seq <= events'[i].seq
        BY <1>2, <3>1, <3>2, <3>3 DEF n
      <4> QED
        BY <1>2, <3>2, <4>1 DEF TopNumber
    <3>4. CASE ~(put.seq <= events[i].seq)
      <4>1. \A j \in DOMAIN events : events[j].seq \in Nat
        BY <1>2 DEF Puts
      <4>2. \A j \in 1..n : events'[j].seq <= events'[n].seq
        BY <1>2, <1>3, <3>1, <3>2, <3>4, <4>1 DEF n
      <4> QED
        BY <1>2, <3>2, <4>2 DEF TopNumber
    <3> QED
      BY <3>3, <3>4
  <2> QED
    BY <2>1, <2>2
<1>5. NumbersAhead'
  <2> SUFFICES ASSUME NEW y \in Callers, frame'[y].pc \in {"event", "log"}
               PROVE  /\ frame'[y].put.behind <= Len(events')
                      /\ \A i \in 1..frame'[y].put.behind : events'[i].seq < frame'[y].put.seq
    BY DEF NumbersAhead, Ahead
  <2>1. y # x /\ frame'[y] = frame[y] /\ frame[y].put \in Puts
    BY DEF Typed, Frames
  <2>2. /\ frame[y].put.behind <= Len(events) /\ frame[y].put.behind \in Nat
        /\ \A i \in 1..frame[y].put.behind : events[i].seq < frame[y].put.seq
    BY <2>1 DEF Numbering, NumbersAhead, Ahead, Puts
  <2> QED
    BY <1>2, <2>1, <2>2 DEF n
<1>6. EventsInOrder'
  <2> SUFFICES ASSUME NEW j \in 1..n, NEW i \in 1..events'[j].behind
               PROVE  events'[i].seq < events'[j].seq
    BY <1>2 DEF EventsInOrder
  <2>1. CASE j = n
    BY <1>2, <1>3, <2>1 DEF n
  <2>2. CASE j # n
    <3>1. j \in DOMAIN events /\ events'[j] = events[j]
      BY <1>2, <2>2 DEF n
    <3>2. events[i].seq < events[j].seq
      BY <3>1 DEF Numbering, EventsInOrder
    <3>3. i \in DOMAIN events
      <4>1. events[j].behind \in Nat /\ events[j].behind <= Len(events)
        BY <1>2, <3>1 DEF Puts, Numbering, Behind
      <4> QED
        BY <1>2, <3>1, <4>1
    <3> QED
      BY <1>2, <3>1, <3>2, <3>3
  <2> QED
    BY <2>1, <2>2
<1>7. Behind'
  <2> SUFFICES ASSUME NEW j \in 1..n PROVE events'[j].behind <= n
    BY <1>2 DEF Behind
  <2>1. CASE j = n
    BY <1>2, <1>3, <2>1 DEF n
  <2>2. CASE j # n
    <3>1. j \in DOMAIN events /\ events'[j] = events[j]
      BY <1>2, <2>2 DEF n
    <3>0. events[j].behind \in Nat
      <4>1. events[j] \in Puts
        BY <1>2, <3>1
      <4> QED
        BY <4>1 DEF Puts
    <3>2. events[j].behind <= Len(events)
      BY <3>1 DEF Numbering, Behind
    <3> QED
      BY <1>2, <3>0, <3>1, <3>2 DEF n
  <2> QED
    BY <2>1, <2>2
<1> QED
  BY <1>2, <1>4, <1>5, <1>6, <1>7 DEF Numbering

\* A check begins: whoever is at one of its keys has been noticed.
LEMMA WarningsBegin ==
  ASSUME Typed, Warnings, NEW x \in Callers, NEW keys \in SUBSET Keys,
         \A y \in Callers : y # x => frame'[y] = frame[y],
         Justified(frame'[x].todo), KeysIn(frame'[x]) \subseteq keys,
         Overlap(x, keys), rec' = rec
  PROVE  /\ Warnings'
         /\ warned' \in [once : SUBSET Keys, twice : SUBSET Keys, overlapped : SUBSET Keys]
<1> DEFINE met == keys \cap UNION {KeysOf(y) : y \in Callers \ {x}}
<1>1. warned' = [warned EXCEPT !.overlapped = @ \cup met]
  BY DEF Overlap
<1>2. \A y \in Callers : KeysOf(y) = KeysIn(frame[y])
  BY DEF KeysOf, KeysIn
<1>3. \A y \in Callers \ {x} : keys \cap KeysIn(frame[y]) \subseteq met
  BY <1>2
<1>4. met \in SUBSET Keys
  OBVIOUS
<1> HIDE DEF met
<1>5. /\ warned'.once = warned.once /\ warned'.twice = warned.twice
      /\ warned'.overlapped = warned.overlapped \cup met
      /\ warned' \in [once : SUBSET Keys, twice : SUBSET Keys, overlapped : SUBSET Keys]
  BY <1>1, <1>4 DEF Typed
<1>6. ChecksApart'
  <2>1. \A y \in Callers : KeysIn(frame[y])' = KeysIn(frame'[y])
    BY DEF KeysIn, Entries
  <2>2. \A y \in Callers \ {x} : KeysIn(frame'[y]) = KeysIn(frame[y])
    OBVIOUS
  <2> QED
    BY <1>3, <1>5, <2>1, <2>2 DEF Warnings, ChecksApart
<1>7. NearUnwarned'
  <2> SUFFICES ASSUME NEW y \in Callers, NEW i \in Owed(frame'[y]), ~frame'[y].todo[i].exceeded,
                      frame'[y].todo[i].key \notin warned'.overlapped
               PROVE  /\ rec.budget[frame'[y].todo[i].key] # Unset
                      /\ frame'[y].todo[i].key \notin warned.once
    BY <1>5 DEF NearUnwarned, Owed
  <2>1. CASE y = x
    <3>1. i \in DOMAIN frame'[x].todo
      BY <2>1 DEF Owed
    <3>2. /\ rec.budget[frame'[x].todo[i].key] # Unset
          /\ frame'[x].todo[i].key \notin rec.warnings
      BY <2>1, <3>1 DEF Justified
    <3> QED
      BY <1>5, <2>1, <3>2 DEF Warnings, OnceStays
  <2>2. CASE y # x
    BY <1>5, <2>2 DEF Warnings, NearUnwarned
  <2> QED
    BY <2>1, <2>2
<1>8. OnceStays' /\ WarnedOnce'
  BY <1>5 DEF Warnings, OnceStays, WarnedOnce
<1> QED
  BY <1>5, <1>6, <1>7, <1>8 DEF Warnings

\* A step that takes no coming check away.
LEMMA OverKept ==
  ASSUME Typed, OverAnswered, NEW x \in Callers,
         \A y \in Callers : y # x => frame'[y] = frame[y],
         x # "operator" /\ Coming(frame[x]) => Coming(frame'[x]) \/ Rests,
         over' => over, rec'.phase = rec.phase, rec'.origin = rec.origin,
         rec'.budget = rec.budget, rec'.usage = rec.usage
  PROVE  OverAnswered'
<1> SUFFICES ASSUME over', ~Rests, over
             PROVE  /\ \E k \in TokenKeys : rec.budget[k] \in 1..rec.usage
                    /\ \E y \in Checkers : Coming(frame'[y])
  BY DEF OverAnswered, Rests, Coming
<1>1. PICK y \in Checkers : Coming(frame[y])
  BY DEF OverAnswered
<1>2. Coming(frame'[y])
  BY <1>1 DEF Checkers
<1> QED
  BY <1>2 DEF OverAnswered

-----------------------------------------------------------------------------
(* The steps *)

LEMMA SettleKeeps ==
  ASSUME BudgetIInv, NEW x \in Settlements, Settle(x)
  PROVE  BudgetIInv'
<1>1. PICK n \in Amounts : Becomes(x, [Off EXCEPT !.pc = "add", !.tokens = n])
  BY DEF Settle
<1> DEFINE f == [Off EXCEPT !.pc = "add", !.tokens = n]
<1>2. /\ Typed /\ x \in Callers /\ x # "operator" /\ frame[x].pc = "off"
      /\ UNCHANGED <<rec, events, now, spent, over, warned>>
  BY BudgetAssumptions DEF BudgetIInv, Settle, Callers
<1>3. f \in Frames /\ f.pc = "add" /\ f.todo = <<>>
  BY Numbers, OffFrame DEF Frames, CallPcs, Off
<1> HIDE DEF f
<1>4. FrameRight(x, f)
  BY <1>2, <1>3 DEF FrameRight, Distinct
<1>5. /\ frame' \in [Callers -> Frames]
      /\ \A y \in Callers : FrameRight(y, frame'[y])
      /\ frame'[x] = f
      /\ \A y \in Callers : y # x => frame'[y] = frame[y]
  BY <1>1, <1>2, <1>3, <1>4, FrameMoves DEF f
<1>6. Typed'
  BY <1>2, <1>5 DEF Typed, FrameRight, Distinct
<1>7. KeysIn(f) = {} /\ Owed(f) = {} /\ ~Coming(frame[x])
  BY <1>2, <1>3 DEF KeysIn, Entries, Owed, Coming
<1>8. Warnings' /\ Numbering' /\ OverAnswered'
  BY <1>2, <1>3, <1>5, <1>7, WarningsKept, NumberingKept, OverKept DEF BudgetIInv
<1> QED
  BY <1>2, <1>6, <1>8 DEF BudgetIInv, UsageCounted

LEMMA AddUsageKeeps ==
  ASSUME BudgetIInv, NEW x \in Callers, AddUsage(x)
  PROVE  BudgetIInv'
<1> DEFINE used == rec.usage + frame[x].tokens
           f == [frame[x] EXCEPT !.pc = "read", !.tokens = 0]
<1>1. /\ Typed /\ frame[x] \in Frames /\ frame[x].pc = "add" /\ x # "operator"
      /\ FrameRight(x, frame[x]) /\ used \in Nat /\ rec.usage = spent
  BY DEF BudgetIInv, Typed, Frames, FrameRight, AddUsage, UsageCounted
<1>2. /\ rec' = [rec EXCEPT !.usage = used] /\ Becomes(x, f)
      /\ UNCHANGED <<events, now, bounds, warned>>
      /\ spent' = used /\ over' = \E k \in TokenKeys : rec.budget[k] \in 1..used
  BY <1>1 DEF AddUsage
<1> HIDE DEF used
<1>3. f \in Frames /\ f.pc = "read" /\ f.todo = <<>>
  BY <1>1 DEF Frames, CallPcs, FrameRight
<1> HIDE DEF f
<1>4. FrameRight(x, f)
  BY <1>1, <1>3 DEF FrameRight, Distinct
<1>5. /\ frame' \in [Callers -> Frames]
      /\ \A y \in Callers : FrameRight(y, frame'[y])
      /\ frame'[x] = f
      /\ \A y \in Callers : y # x => frame'[y] = frame[y]
  BY <1>1, <1>2, <1>3, <1>4, FrameMoves
<1>6. /\ rec'.usage = used /\ rec'.budget = rec.budget /\ rec'.warnings = rec.warnings
      /\ rec' \in [phase : Phases, origin : Origins, usage : Nat, budget : Budgets,
                   warnings : SUBSET Keys]
  BY <1>1, <1>2 DEF Typed
<1>7. Typed'
  BY <1>1, <1>2, <1>5, <1>6 DEF Typed, FrameRight, Distinct
<1>8. KeysIn(f) = {} /\ Owed(f) = {}
  BY <1>3 DEF KeysIn, Entries, Owed
<1>9. Warnings' /\ Numbering'
  BY <1>1, <1>2, <1>3, <1>5, <1>6, <1>8, WarningsKept, NumberingKept DEF BudgetIInv
<1>10. OverAnswered'
  <2>1. Coming(frame'[x]) /\ x \in Checkers
    BY <1>1, <1>3, <1>5 DEF Coming, Checkers
  <2> QED
    BY <1>2, <1>6, <2>1 DEF OverAnswered, Coming
<1> QED
  BY <1>2, <1>6, <1>7, <1>9, <1>10 DEF BudgetIInv, UsageCounted

\* A check that begins with `rest`, of the keys `keys`.
LEMMA CheckKeeps ==
  ASSUME BudgetIInv, NEW x \in Checkers, NEW rest \in Seq(Finds), NEW keys \in SUBSET Keys,
         Distinct(rest), Justified(rest), {g.key : g \in Entries(rest)} \subseteq keys,
         Becomes(x, Checking(rest)), Overlap(x, keys),
         UNCHANGED <<rec, events, now, spent, over>>,
         over /\ Coming(frame[x]) => \E i \in DOMAIN rest : rest[i].exceeded
  PROVE  BudgetIInv'
<1> DEFINE f == Checking(rest)
<1>1. /\ f \in Frames /\ FrameRight(x, f) /\ f.todo = rest
      /\ f.pc = IF rest = <<>> THEN "off" ELSE "mark"
      /\ Typed /\ x \in Callers /\ x # "operator"
  BY CheckingFrame DEF BudgetIInv, Checkers
<1> HIDE DEF f
<1>2. /\ frame' \in [Callers -> Frames]
      /\ \A y \in Callers : FrameRight(y, frame'[y])
      /\ frame'[x] = f
      /\ \A y \in Callers : y # x => frame'[y] = frame[y]
  BY <1>1, FrameMoves DEF f
<1>3. /\ Warnings'
      /\ warned' \in [once : SUBSET Keys, twice : SUBSET Keys, overlapped : SUBSET Keys]
  <2>1. Justified(frame'[x].todo) /\ KeysIn(frame'[x]) \subseteq keys
    BY <1>1, <1>2 DEF KeysIn
  <2> QED
    BY <1>1, <1>2, <2>1, WarningsBegin DEF BudgetIInv
<1>4. Typed'
  BY <1>1, <1>2, <1>3 DEF Typed, FrameRight, Distinct
<1>5. Numbering'
  BY <1>1, <1>2, NumberingKept DEF BudgetIInv
<1>6. OverAnswered'
  <2>1. CASE over
    <3>1. Coming(frame[x]) => Coming(frame'[x])
      BY <1>1, <1>2, <2>1 DEF Coming
    <3> QED
      BY <1>1, <1>2, <3>1, OverKept DEF BudgetIInv
  <2>2. CASE ~over
    BY <2>2 DEF OverAnswered
  <2> QED
    BY <2>1, <2>2
<1> QED
  BY <1>3, <1>4, <1>5, <1>6 DEF BudgetIInv, UsageCounted

LEMMA CheckTokensKeeps ==
  ASSUME BudgetIInv, NEW x \in Callers, CheckTokens(x)
  PROVE  BudgetIInv'
<1> DEFINE rest == TokenFindings
           keys == {g.key : g \in Entries(rest)}
<1>1. /\ rest \in Seq(Finds) /\ Distinct(rest) /\ Justified(rest)
      /\ (\E k \in TokenKeys : rec.budget[k] \in 1..rec.usage)
            => \E i \in DOMAIN rest : rest[i].exceeded
  BY TokenFindingsOf DEF BudgetIInv
<1>2. /\ frame[x].pc = "read" /\ Becomes(x, Checking(rest)) /\ Overlap(x, keys)
      /\ UNCHANGED <<rec, events, now, bounds, spent, over>>
  BY DEF CheckTokens
<1> HIDE DEF rest
<1>3. x \in Checkers
  BY <1>2 DEF BudgetIInv, Typed, FrameRight, Checkers
<1>4. keys \in SUBSET Keys
  <2>1. \A i \in DOMAIN rest : rest[i] \in Finds
    BY <1>1
  <2>2. \A g \in Finds : g.key \in Keys
    BY DEF Finds
  <2> QED
    BY <2>1, <2>2 DEF Entries
<1>5. over => \E i \in DOMAIN rest : rest[i].exceeded
  BY <1>1 DEF BudgetIInv, OverAnswered
<1> QED
  BY <1>1, <1>2, <1>3, <1>4, <1>5, CheckKeeps

LEMMA CheckTimeKeeps ==
  ASSUME BudgetIInv, CheckTime
  PROVE  BudgetIInv'
<1> DEFINE rest == Finding(TimeKey, now)
<1>1. TimeKey \in Keys /\ now \in Nat /\ Typed
  BY DEF Keys, BudgetIInv, Typed
<1>2. OneFinding(TimeKey, now, rest)
  BY <1>1, FindingOf
<1>3. /\ frame["tick"].pc = "off" /\ Becomes("tick", Checking(rest)) /\ Overlap("tick", {TimeKey})
      /\ UNCHANGED <<rec, events, now, spent, over>>
  BY DEF CheckTime
<1> HIDE DEF rest
<1>4. rest \in Seq(Finds) /\ Distinct(rest) /\ Justified(rest)
  BY <1>2 DEF OneFinding, Distinct, Justified
<1>5. {g.key : g \in Entries(rest)} \subseteq {TimeKey}
  BY <1>2 DEF OneFinding, Entries
<1>6. "tick" \in Checkers
  BY DEF Checkers, Callers
<1>7. ~Coming(frame["tick"])
  BY <1>3 DEF Coming
<1> QED
  BY <1>1, <1>3, <1>4, <1>5, <1>6, <1>7, CheckKeeps

LEMMA MarkKeeps ==
  ASSUME BudgetIInv, NEW x \in Callers, Mark(x)
  PROVE  BudgetIInv'
<1> DEFINE rest == frame[x].todo
           g == Head(rest)
           n == Numbered
           f == [frame[x] EXCEPT !.pc = "event", !.put = n]
           once == IF g.exceeded THEN warned.once ELSE warned.once \cup {g.key}
           twice == IF ~g.exceeded /\ g.key \in warned.once
                    THEN warned.twice \cup {g.key} ELSE warned.twice
<1>1. /\ Typed /\ frame[x] \in Frames /\ FrameRight(x, frame[x]) /\ frame[x].pc = "mark"
      /\ x # "operator" /\ rest \in Seq(Finds) /\ rest # <<>> /\ Distinct(rest)
  BY DEF BudgetIInv, Typed, FrameRight, Frames, Mark
<1>2. /\ g = rest[1] /\ 1 \in DOMAIN rest /\ g \in Finds /\ g.key \in Keys
  BY <1>1, TailFinds DEF Finds
<1>3. n \in Puts
  BY NextSeqAbove DEF BudgetIInv, Numbering
<1>4. /\ rec' = [rec EXCEPT !.warnings = @ \cup {g.key}]
      /\ warned' = [warned EXCEPT !.once = once, !.twice = twice]
      /\ Becomes(x, f)
      /\ UNCHANGED <<events, now, bounds, spent, over>>
  BY <1>1 DEF Mark, Typed
<1> HIDE DEF n, once, twice, g
<1>5. f \in Frames /\ f.pc = "event" /\ f.todo = rest /\ f.put = n
  BY <1>1, <1>3 DEF Frames, CallPcs
<1> HIDE DEF f, rest
<1>6. FrameRight(x, f)
  BY <1>1, <1>5 DEF FrameRight
<1>7. /\ frame' \in [Callers -> Frames]
      /\ \A y \in Callers : FrameRight(y, frame'[y])
      /\ frame'[x] = f
      /\ \A y \in Callers : y # x => frame'[y] = frame[y]
  BY <1>1, <1>4, <1>5, <1>6, FrameMoves
<1>8. /\ rec'.warnings = rec.warnings \cup {g.key} /\ rec'.budget = rec.budget
      /\ rec'.usage = rec.usage /\ rec'.phase = rec.phase /\ rec'.origin = rec.origin
      /\ rec' \in [phase : Phases, origin : Origins, usage : Nat, budget : Budgets,
                   warnings : SUBSET Keys]
  BY <1>1, <1>2, <1>4 DEF Typed
<1>9. once \in SUBSET Keys /\ twice \in SUBSET Keys
  BY <1>1, <1>2 DEF once, twice, Typed
<1>10. /\ warned'.once = once /\ warned'.twice = twice /\ warned'.overlapped = warned.overlapped
       /\ warned' \in [once : SUBSET Keys, twice : SUBSET Keys, overlapped : SUBSET Keys]
  BY <1>1, <1>4, <1>9 DEF Typed
<1>11. Typed'
  BY <1>1, <1>4, <1>7, <1>8, <1>10 DEF Typed, FrameRight, Distinct
<1>12. Numbering'
  BY <1>1, <1>4, <1>5, <1>7, NumberingKept DEF BudgetIInv, n
<1>13. OverAnswered'
  <2>1. Coming(frame[x]) => Coming(frame'[x])
    BY <1>1, <1>5, <1>7 DEF Coming, rest
  <2> QED
    BY <1>1, <1>4, <1>7, <1>8, <2>1, OverKept DEF BudgetIInv
<1>14. KeysIn(f) = KeysIn(frame[x]) /\ g.key \in KeysIn(f)
  BY <1>2, <1>5 DEF KeysIn, Entries, rest
<1>15. ChecksApart'
  <2>1. \A y \in Callers : KeysIn(frame[y])' = KeysIn(frame'[y])
    BY DEF KeysIn, Entries
  <2>2. \A y \in Callers : KeysIn(frame'[y]) = KeysIn(frame[y])
    BY <1>7, <1>14
  <2> QED
    BY <1>10, <2>1, <2>2 DEF BudgetIInv, Warnings, ChecksApart
<1>16. g.exceeded \/ g.key \in warned.overlapped
         \/ (rec.budget[g.key] # Unset /\ g.key \notin warned.once)
  BY <1>1, <1>2 DEF BudgetIInv, Warnings, NearUnwarned, Owed, rest
<1>17. NearUnwarned'
  <2> SUFFICES ASSUME NEW y \in Callers, NEW i \in Owed(frame'[y]), ~frame'[y].todo[i].exceeded,
                      frame'[y].todo[i].key \notin warned.overlapped
               PROVE  /\ rec.budget[frame'[y].todo[i].key] # Unset
                      /\ frame'[y].todo[i].key \notin once
    BY <1>8, <1>10 DEF NearUnwarned, Owed
  <2>1. CASE y = x
    <3>1. i \in DOMAIN rest /\ i # 1 /\ frame'[x].todo = rest
      BY <1>5, <1>7, <2>1 DEF Owed
    <3>2. rest[i].key # g.key
      BY <1>1, <1>2, <3>1 DEF Distinct
    <3>3. i \in Owed(frame[x])
      BY <1>1, <3>1 DEF Owed, rest
    <3>4. rec.budget[rest[i].key] # Unset /\ rest[i].key \notin warned.once
      BY <2>1, <3>1, <3>3 DEF BudgetIInv, Warnings, NearUnwarned, rest
    <3> QED
      BY <2>1, <3>1, <3>2, <3>4 DEF once
  <2>2. CASE y # x
    <3>1. frame'[y] = frame[y]
      BY <1>7, <2>2
    <3>2. frame[y].todo[i].key \in KeysIn(frame[y])
      BY <3>1 DEF KeysIn, Entries, Owed
    <3>3. frame[y].todo[i].key # g.key
      BY <1>14, <2>2, <3>1, <3>2 DEF BudgetIInv, Warnings, ChecksApart
    <3> QED
      BY <3>1, <3>3 DEF BudgetIInv, Warnings, NearUnwarned, once
  <2> QED
    BY <2>1, <2>2
<1>18. OnceStays'
  BY <1>8, <1>10, <1>16 DEF BudgetIInv, Warnings, OnceStays, once
<1>19. WarnedOnce'
  BY <1>10, <1>16 DEF BudgetIInv, Warnings, WarnedOnce, twice
<1> QED
  BY <1>4, <1>8, <1>11, <1>12, <1>13, <1>15, <1>17, <1>18, <1>19
  DEF BudgetIInv, Warnings, UsageCounted

LEMMA PutFindingKeeps ==
  ASSUME BudgetIInv, NEW x \in Callers, PutFinding(x)
  PROVE  BudgetIInv'
<1> DEFINE rest == frame[x].todo
           f == IF Head(rest).exceeded
                THEN [Off EXCEPT !.pc = "move", !.todo = rest, !.to = "paused"]
                ELSE Checking(Tail(rest))
<1>1. /\ Typed /\ frame[x] \in Frames /\ FrameRight(x, frame[x]) /\ frame[x].pc = "event"
      /\ x \in Checkers /\ x # "operator" /\ rest \in Seq(Finds) /\ rest # <<>> /\ Distinct(rest)
      /\ Becomes(x, f) /\ events' = Append(events, frame[x].put)
      /\ UNCHANGED <<rec, now, bounds, spent, over, warned>>
  BY DEF BudgetIInv, Typed, FrameRight, Frames, PutFinding, Checkers
<1>2. /\ Tail(rest) \in Seq(Finds) /\ Distinct(Tail(rest))
      /\ Head(rest) = rest[1] /\ 1 \in DOMAIN rest
      /\ \A i \in DOMAIN Tail(rest) : i + 1 \in DOMAIN rest \ {1} /\ Tail(rest)[i] = rest[i + 1]
      /\ \A i \in DOMAIN rest \ {1} : i - 1 \in DOMAIN Tail(rest) /\ Tail(rest)[i - 1] = rest[i]
  BY <1>1, TailFinds
<1>3. /\ f \in Frames /\ FrameRight(x, f) /\ f.pc \in {"off", "mark", "move"}
      /\ \A i \in Owed(f) : \E j \in Owed(frame[x]) : f.todo[i] = rest[j]
      /\ KeysIn(f) \subseteq KeysIn(frame[x])
      /\ Coming(frame[x]) => Coming(f)
  <2>1. CASE Head(rest).exceeded
    <3>1. f = [Off EXCEPT !.pc = "move", !.todo = rest, !.to = "paused"]
      BY <2>1
    <3> HIDE DEF f
    <3>2. f \in Frames /\ f.pc = "move" /\ f.todo = rest /\ f.to = "paused"
      BY <1>1, <3>1, OffFrame DEF Frames, CallPcs, Phases, SuspendedPhases
    <3>3. FrameRight(x, f)
      BY <1>1, <3>2 DEF FrameRight, Phases, SuspendedPhases
    <3> QED
      BY <1>1, <3>2, <3>3 DEF Owed, KeysIn, Coming
  <2>2. CASE ~Head(rest).exceeded
    <3>1. f = Checking(Tail(rest))
      BY <2>2
    <3> HIDE DEF f
    <3>2. f \in Frames /\ FrameRight(x, f) /\ f.todo = Tail(rest) /\ f.pc \in {"off", "mark"}
          /\ f.pc = IF Tail(rest) = <<>> THEN "off" ELSE "mark"
      BY <1>1, <1>2, <3>1, CheckingFrame
    <3>3. \A i \in Owed(f) : \E j \in Owed(frame[x]) : f.todo[i] = rest[j]
      BY <1>1, <1>2, <3>2 DEF Owed
    <3>4. KeysIn(f) \subseteq KeysIn(frame[x])
      BY <1>2, <3>2 DEF KeysIn, Entries
    <3>5. Coming(frame[x]) => Coming(f)
      <4> SUFFICES ASSUME Coming(frame[x]) PROVE Coming(f)
        OBVIOUS
      <4>1. PICK i \in DOMAIN rest : rest[i].exceeded
        BY <1>1 DEF Coming
      <4>2. i # 1
        BY <1>2, <2>2, <4>1
      <4>3. i - 1 \in DOMAIN Tail(rest) /\ Tail(rest)[i - 1].exceeded
        BY <1>2, <4>1, <4>2
      <4>4. Tail(rest) # <<>>
        BY <4>3
      <4> QED
        BY <3>2, <4>3, <4>4 DEF Coming
    <3> QED
      BY <3>2, <3>3, <3>4, <3>5
  <2> QED
    BY <2>1, <2>2
<1> HIDE DEF f
<1>4. /\ frame' \in [Callers -> Frames]
      /\ \A y \in Callers : FrameRight(y, frame'[y])
      /\ frame'[x] = f
      /\ \A y \in Callers : y # x => frame'[y] = frame[y]
  BY <1>1, <1>3, FrameMoves
<1>5. Numbering' /\ events' \in Seq(Puts)
  BY <1>1, <1>3, <1>4, NumberingPut DEF BudgetIInv
<1>6. Typed'
  BY <1>1, <1>4, <1>5 DEF Typed, FrameRight, Distinct
<1>7. Warnings' /\ OverAnswered'
  BY <1>1, <1>3, <1>4, WarningsKept, OverKept DEF BudgetIInv
<1> QED
  BY <1>1, <1>5, <1>6, <1>7 DEF BudgetIInv, UsageCounted

LEMMA MoveKeeps ==
  ASSUME BudgetIInv, NEW x \in Callers, Move(x)
  PROVE  BudgetIInv'
<1> DEFINE to == frame[x].to
           n == Numbered
           f == [Off EXCEPT !.pc = "log", !.todo = frame[x].todo, !.put = n]
<1>1. /\ Typed /\ frame[x] \in Frames /\ FrameRight(x, frame[x]) /\ frame[x].pc = "move"
      /\ to \in Phases /\ CanMove(rec.phase, rec.origin, to)
      /\ rec' = Moved(rec, to) /\ over' = (over /\ x # "operator") /\ Becomes(x, f)
      /\ UNCHANGED <<events, now, bounds, spent, warned>>
  BY DEF BudgetIInv, Typed, FrameRight, Frames, Move
<1>2. n \in Puts
  BY NextSeqAbove DEF BudgetIInv, Numbering
<1> HIDE DEF n
<1>3. f \in Frames /\ f.pc = "log" /\ f.todo = frame[x].todo /\ f.put = n
  BY <1>1, <1>2, OffFrame DEF Frames, CallPcs
<1> HIDE DEF f
<1>4. FrameRight(x, f)
  BY <1>1, <1>3 DEF FrameRight
<1>5. /\ frame' \in [Callers -> Frames]
      /\ \A y \in Callers : FrameRight(y, frame'[y])
      /\ frame'[x] = f
      /\ \A y \in Callers : y # x => frame'[y] = frame[y]
  BY <1>1, <1>3, <1>4, FrameMoves
<1>6. OriginAfter(rec.phase, to) \in Origins
  BY <1>1, OriginActive DEF Typed
<1>7. /\ rec'.phase = to /\ rec'.origin = OriginAfter(rec.phase, to)
      /\ rec'.usage = rec.usage /\ rec'.budget = rec.budget /\ rec'.warnings = rec.warnings
      /\ rec' \in [phase : Phases, origin : Origins, usage : Nat, budget : Budgets,
                   warnings : SUBSET Keys]
  BY <1>1, <1>6 DEF Moved, Typed
<1>8. over' \in BOOLEAN
  BY <1>1 DEF Typed
<1>9. Typed'
  BY <1>1, <1>5, <1>7, <1>8 DEF Typed, FrameRight, Distinct
<1>10. KeysIn(f) = KeysIn(frame[x]) /\ Owed(f) = Owed(frame[x])
  BY <1>1, <1>3 DEF KeysIn, Owed
<1>11. Warnings'
  BY <1>1, <1>3, <1>5, <1>7, <1>10, WarningsKept DEF BudgetIInv
<1>12. Numbering'
  BY <1>1, <1>3, <1>5, NumberingKept DEF BudgetIInv, n
<1>13. OverAnswered'
  <2> SUFFICES ASSUME over'
               PROVE  /\ \E k \in TokenKeys : rec'.budget[k] \in 1..rec'.usage
                      /\ ~CanMove(rec'.phase, rec'.origin, "paused")
    BY DEF OverAnswered, Rests
  <2>1. over /\ x # "operator"
    BY <1>1
  <2>2. to = "paused"
    BY <1>1, <2>1 DEF FrameRight
  <2>3. ~CanMove("paused", OriginAfter(rec.phase, "paused"), "paused")
    BY <1>1, <2>2, PausedRests DEF Typed
  <2> QED
    BY <1>7, <2>1, <2>2, <2>3 DEF BudgetIInv, OverAnswered
<1> QED
  BY <1>1, <1>7, <1>9, <1>11, <1>12, <1>13 DEF BudgetIInv, UsageCounted

\* What is left when the transition of a caller is over.
LEMMA AfterMoveSheds ==
  ASSUME Typed, NEW x \in Callers, frame[x].pc \in {"move", "log"}
  PROVE  /\ AfterMove(x).pc \in {"off", "mark"}
         /\ KeysIn(AfterMove(x)) \subseteq KeysIn(frame[x])
         /\ \A i \in Owed(AfterMove(x)) : \E j \in Owed(frame[x]) :
              AfterMove(x).todo[i] = frame[x].todo[j]
<1>1. CASE x = "operator"
  <2>1. AfterMove(x) = Off
    BY <1>1 DEF AfterMove
  <2> QED
    BY <2>1, OffFrame DEF KeysIn, Entries, Owed
<1>2. CASE x # "operator"
  <2> DEFINE rest == frame[x].todo
             f == AfterMove(x)
  <2>1. rest \in Seq(Finds) /\ rest # <<>> /\ Distinct(rest) /\ x \in Checkers
    BY <1>2 DEF Typed, Frames, FrameRight, Checkers
  <2>2. /\ Tail(rest) \in Seq(Finds) /\ Distinct(Tail(rest))
        /\ \A i \in DOMAIN Tail(rest) : i + 1 \in DOMAIN rest \ {1} /\ Tail(rest)[i] = rest[i + 1]
    BY <2>1, TailFinds
  <2>3. f.todo = Tail(rest) /\ f.pc \in {"off", "mark"}
    BY <1>2, <2>1, <2>2, CheckingFrame DEF AfterMove
  <2> HIDE DEF f
  <2>4. \A i \in Owed(f) : \E j \in Owed(frame[x]) : f.todo[i] = rest[j]
    BY <2>2, <2>3 DEF Owed
  <2>5. KeysIn(f) \subseteq KeysIn(frame[x])
    BY <2>2, <2>3 DEF KeysIn, Entries
  <2> QED
    BY <2>3, <2>4, <2>5 DEF f
<1> QED
  BY <1>1, <1>2

LEMMA AfterMoveKeeps ==
  ASSUME BudgetIInv, NEW x \in Callers, MoveRefused(x) \/ PutMoved(x)
  PROVE  BudgetIInv'
<1> DEFINE f == AfterMove(x)
<1>1. /\ Typed /\ frame[x].pc \in {"move", "log"} /\ Becomes(x, f)
      /\ UNCHANGED <<rec, now, bounds, spent, over, warned>>
      /\ x # "operator" /\ frame[x].pc = "move" => frame[x].to = "paused"
  BY DEF BudgetIInv, Typed, FrameRight, MoveRefused, PutMoved
<1>2. /\ f \in Frames /\ FrameRight(x, f) /\ f.pc \in {"off", "mark"}
      /\ KeysIn(f) \subseteq KeysIn(frame[x])
      /\ \A i \in Owed(f) : \E j \in Owed(frame[x]) : f.todo[i] = frame[x].todo[j]
  BY <1>1, AfterMoveFrame, AfterMoveSheds
<1> HIDE DEF f
<1>3. /\ frame' \in [Callers -> Frames]
      /\ \A y \in Callers : FrameRight(y, frame'[y])
      /\ frame'[x] = f
      /\ \A y \in Callers : y # x => frame'[y] = frame[y]
  BY <1>1, <1>2, FrameMoves
<1>4. Numbering' /\ events' \in Seq(Puts)
  <2>1. CASE MoveRefused(x)
    BY <1>1, <1>2, <1>3, <2>1, NumberingKept DEF BudgetIInv, Typed, MoveRefused
  <2>2. CASE PutMoved(x)
    BY <1>1, <1>2, <1>3, <2>2, NumberingPut DEF BudgetIInv, PutMoved
  <2> QED
    BY <2>1, <2>2
<1>5. Typed'
  BY <1>1, <1>3, <1>4 DEF Typed, FrameRight, Distinct
<1>6. Warnings'
  BY <1>1, <1>2, <1>3, WarningsKept DEF BudgetIInv
<1>7. x # "operator" /\ Coming(frame[x]) => Rests
  BY <1>1 DEF Coming, Rests, MoveRefused, PutMoved
<1>8. OverAnswered'
  BY <1>1, <1>3, <1>7, OverKept DEF BudgetIInv
<1> QED
  BY <1>1, <1>4, <1>5, <1>6, <1>8 DEF BudgetIInv, UsageCounted

LEMMA RequestKeeps ==
  ASSUME BudgetIInv, RequestMove \/ RequestBudget
  PROVE  BudgetIInv'
<1> DEFINE x == "operator"
<1>0. x \in Callers
  BY DEF Callers
<1>1. /\ Typed /\ frame[x].pc = "off"
      /\ UNCHANGED <<rec, events, now, spent, over, warned>>
  BY DEF BudgetIInv, RequestMove, RequestBudget
<1>2. PICK f : /\ f \in Frames /\ FrameRight(x, f) /\ f.pc \in {"move", "raise"} /\ f.todo = <<>>
               /\ Becomes(x, f)
  <2>1. CASE RequestMove
    <3>1. PICK to \in Asks : Becomes(x, [Off EXCEPT !.pc = "move", !.to = to])
      BY <2>1 DEF RequestMove
    <3> DEFINE f == [Off EXCEPT !.pc = "move", !.to = to]
    <3>2. f \in Frames /\ f.pc = "move" /\ f.todo = <<>> /\ f.to = to /\ to \in Phases
      BY BudgetAssumptions, OffFrame DEF Frames, CallPcs
    <3> HIDE DEF f
    <3>3. FrameRight(x, f)
      BY <3>2 DEF FrameRight, Distinct
    <3> QED
      BY <3>1, <3>2, <3>3 DEF f
  <2>2. CASE RequestBudget
    <3>1. PICK b \in Budgets : Becomes(x, [Off EXCEPT !.pc = "raise", !.budget = b])
      BY <2>2 DEF RequestBudget
    <3> DEFINE f == [Off EXCEPT !.pc = "raise", !.budget = b]
    <3>2. f \in Frames /\ f.pc = "raise" /\ f.todo = <<>> /\ f.budget = b
      BY OffFrame DEF Frames, CallPcs
    <3> HIDE DEF f
    <3>3. FrameRight(x, f)
      BY <3>2 DEF FrameRight, Distinct
    <3> QED
      BY <3>1, <3>2, <3>3 DEF f
  <2> QED
    BY <2>1, <2>2
<1> HIDE DEF x
<1>3. /\ frame' \in [Callers -> Frames]
      /\ \A y \in Callers : FrameRight(y, frame'[y])
      /\ frame'[x] = f
      /\ \A y \in Callers : y # x => frame'[y] = frame[y]
  BY <1>0, <1>1, <1>2, FrameMoves
<1>4. Typed'
  BY <1>1, <1>3 DEF Typed, FrameRight, Distinct
<1>5. KeysIn(f) = {} /\ Owed(f) = {} /\ ~Coming(frame[x])
  BY <1>1, <1>2 DEF KeysIn, Entries, Owed, Coming
<1>6. Warnings' /\ Numbering' /\ OverAnswered'
  BY <1>0, <1>1, <1>2, <1>3, <1>5, WarningsKept, NumberingKept, OverKept DEF BudgetIInv
<1> QED
  BY <1>1, <1>4, <1>6 DEF BudgetIInv, UsageCounted

LEMMA SetBudgetKeeps ==
  ASSUME BudgetIInv, SetBudget
  PROVE  BudgetIInv'
<1> DEFINE x == "operator"
           new == frame[x].budget
           changed == {k \in Keys : rec.budget[k] # new[k]}
           met == changed \cap UNION {KeysOf(y) : y \in Callers}
           kept == {k \in rec.warnings : Kept(k, rec.budget, new)}
<1>0. x \in Callers
  BY DEF Callers
<1>1. /\ Typed /\ frame[x].pc = "raise" /\ new \in Budgets /\ frame[x].todo = <<>>
      /\ UNCHANGED <<events, now, bounds, spent>> /\ over' = FALSE
      /\ Becomes(x, Off)
      /\ rec' = [rec EXCEPT !.budget = new, !.warnings = kept]
      /\ warned' = [warned EXCEPT !.once = @ \ changed, !.twice = @ \ changed,
                      !.overlapped = @ \cup met]
  BY <1>0 DEF BudgetIInv, Typed, FrameRight, SetBudget
<1>2. /\ \A y \in Callers : changed \cap KeysIn(frame[y]) \subseteq met
      /\ met \subseteq Keys /\ changed \subseteq Keys /\ kept \subseteq Keys
      /\ \A k \in Keys \ changed : new[k] = rec.budget[k]
      /\ \A k \in rec.warnings : rec.budget[k] # Unset /\ new[k] = rec.budget[k] => k \in kept
  BY <1>1 DEF KeysOf, KeysIn, Typed, Kept
<1> HIDE DEF new, changed, met, kept
<1>3. /\ frame' \in [Callers -> Frames]
      /\ \A y \in Callers : FrameRight(y, frame'[y])
      /\ frame'[x] = Off
      /\ \A y \in Callers : y # x => frame'[y] = frame[y]
  BY <1>0, <1>1, OffFrame, FrameMoves
<1> HIDE DEF x
<1>4. /\ rec'.budget = new /\ rec'.warnings = kept /\ rec'.usage = rec.usage
      /\ rec' \in [phase : Phases, origin : Origins, usage : Nat, budget : Budgets,
                   warnings : SUBSET Keys]
  BY <1>1, <1>2 DEF Typed
<1>5. /\ warned'.once = warned.once \ changed /\ warned'.twice = warned.twice \ changed
      /\ warned'.overlapped = warned.overlapped \cup met
      /\ warned' \in [once : SUBSET Keys, twice : SUBSET Keys, overlapped : SUBSET Keys]
  BY <1>1, <1>2 DEF Typed
<1>6. Typed'
  BY <1>1, <1>3, <1>4, <1>5 DEF Typed, FrameRight, Distinct
<1>7. Numbering'
  BY <1>0, <1>1, <1>3, OffFrame, NumberingKept DEF BudgetIInv
<1>8. OverAnswered'
  BY <1>1 DEF OverAnswered
<1>9. KeysIn(Off) = {} /\ Owed(Off) = {}
  BY OffFrame DEF KeysIn, Entries, Owed
<1>10. ChecksApart'
  <2>1. \A y \in Callers : KeysIn(frame[y])' = KeysIn(frame'[y])
    BY DEF KeysIn, Entries
  <2>2. \A y \in Callers : KeysIn(frame'[y]) \subseteq KeysIn(frame[y])
    BY <1>3, <1>9
  <2> QED
    BY <1>5, <2>1, <2>2 DEF BudgetIInv, Warnings, ChecksApart
<1>11. NearUnwarned'
  <2> SUFFICES ASSUME NEW y \in Callers, NEW i \in Owed(frame'[y]), ~frame'[y].todo[i].exceeded,
                      frame'[y].todo[i].key \notin warned'.overlapped
               PROVE  /\ rec'.budget[frame'[y].todo[i].key] # Unset
                      /\ frame'[y].todo[i].key \notin warned'.once
    BY DEF NearUnwarned, Owed
  <2>1. y # x /\ frame'[y] = frame[y]
    BY <1>3, <1>9
  <2> DEFINE k == frame[y].todo[i].key
  <2>2. k \in KeysIn(frame[y]) /\ k \in Keys
    <3>1. i \in DOMAIN frame[y].todo /\ frame[y].todo \in Seq(Finds)
      BY <1>1, <2>1 DEF Owed, Typed, Frames
    <3>2. frame[y].todo[i] \in Finds
      BY <3>1
    <3> QED
      BY <3>1, <3>2 DEF KeysIn, Entries, Finds
  <2>3. k \notin changed /\ k \notin warned.overlapped
    BY <1>2, <1>5, <2>1, <2>2
  <2>4. rec.budget[k] # Unset /\ k \notin warned.once
    BY <2>1, <2>3 DEF BudgetIInv, Warnings, NearUnwarned
  <2> QED
    BY <1>2, <1>4, <1>5, <2>1, <2>2, <2>3, <2>4
<1>12. OnceStays'
  <2> SUFFICES ASSUME NEW k \in warned.once \ changed, k \notin warned.overlapped
               PROVE  k \in kept /\ new[k] # Unset
    BY <1>4, <1>5 DEF OnceStays
  <2>1. k \in Keys /\ k \in rec.warnings /\ rec.budget[k] # Unset
    BY <1>1 DEF BudgetIInv, Warnings, OnceStays, Typed
  <2> QED
    BY <1>2, <2>1
<1>13. WarnedOnce'
  BY <1>5 DEF BudgetIInv, Warnings, WarnedOnce
<1> QED
  BY <1>1, <1>4, <1>6, <1>7, <1>8, <1>10, <1>11, <1>12, <1>13
  DEF BudgetIInv, Warnings, UsageCounted

-----------------------------------------------------------------------------
(* Theorems *)

LEMMA BudgetInitial == BudgetInit => BudgetIInv
<1> SUFFICES ASSUME BudgetInit PROVE BudgetIInv
  OBVIOUS
<1>1. /\ events = <<>> /\ now = 0 /\ spent = UsedBefore /\ over = FALSE
      /\ warned = [once |-> {}, twice |-> {}, overlapped |-> {}]
      /\ frame \in [Callers -> Frames] /\ \A x \in Callers : frame[x] = Off
  BY OffFrame DEF BudgetInit
<1>2. PICK b \in Budgets : rec = [phase |-> "executing", origin |-> NoPhase,
                                  usage |-> UsedBefore, budget |-> b, warnings |-> {}]
  BY DEF BudgetInit
<1>3. Typed
  <2>1. UsedBefore \in Nat /\ "executing" \in Phases /\ NoPhase \in Origins
    BY Numbers DEF Phases, ActivePhases, Origins
  <2>2. rec \in [phase : Phases, origin : Origins, usage : Nat, budget : Budgets,
                warnings : SUBSET Keys]
    BY <1>2, <2>1
  <2>3. warned \in [once : SUBSET Keys, twice : SUBSET Keys, overlapped : SUBSET Keys]
    BY <1>1
  <2>4. \A x \in Callers : FrameRight(x, frame[x])
    BY <1>1, OffFrame
  <2>5. events \in Seq(Puts)
    BY <1>1
  <2>6. now \in Nat /\ spent \in Nat
    BY <1>1, <2>1
  <2>7. frame \in [Callers -> Frames]
    BY <1>1
  <2>8. over \in BOOLEAN
    BY <1>1
  <2> QED
    BY <2>2, <2>3, <2>4, <2>5, <2>6, <2>7, <2>8 DEF Typed
<1>4. KeysIn(Off) = {} /\ Owed(Off) = {} /\ Off.pc = "off"
  BY OffFrame DEF KeysIn, Entries, Owed
<1>5. Warnings
  BY <1>1, <1>4 DEF Warnings, ChecksApart, NearUnwarned, OnceStays, WarnedOnce
<1>6. Numbering
  BY <1>1, <1>4 DEF Numbering, TopNumber, NumbersAhead, Behind, EventsInOrder
<1> QED
  BY <1>1, <1>2, <1>3, <1>5, <1>6 DEF BudgetIInv, OverAnswered, UsageCounted

LEMMA StillKeeps ==
  ASSUME BudgetIInv, UNCHANGED <<rec, events, frame, spent, over, warned>>, now' \in Nat
  PROVE  BudgetIInv'
<1>1. Typed'
  BY DEF BudgetIInv, Typed, FrameRight, Distinct
<1>2. Warnings'
  BY DEF BudgetIInv, Warnings, ChecksApart, NearUnwarned, OnceStays, WarnedOnce, KeysIn, Entries,
         Owed
<1>3. OverAnswered' /\ Numbering' /\ UsageCounted'
  BY DEF BudgetIInv, OverAnswered, Rests, Coming, Numbering, TopNumber, NumbersAhead, Ahead,
         Behind, EventsInOrder, UsageCounted
<1> QED
  BY <1>1, <1>2, <1>3 DEF BudgetIInv

LEMMA BudgetStep == BudgetIInv /\ [BudgetNext]_budgetVars => BudgetIInv'
<1> SUFFICES ASSUME BudgetIInv, [BudgetNext]_budgetVars PROVE BudgetIInv'
  OBVIOUS
<1>1. ASSUME NEW x \in Callers, CheckStep(x) PROVE BudgetIInv'
  BY <1>1, AddUsageKeeps, CheckTokensKeeps, MarkKeeps, PutFindingKeeps, MoveKeeps, AfterMoveKeeps
  DEF CheckStep
<1>2. CASE Minute
  <2>1. now' \in Nat
    BY <1>2 DEF Minute, BudgetIInv, Typed
  <2> QED
    BY <1>2, <2>1, StillKeeps DEF Minute
<1>3. CASE UNCHANGED budgetVars
  <2>1. now' \in Nat
    BY <1>3 DEF budgetVars, BudgetIInv, Typed
  <2> QED
    BY <1>3, <2>1, StillKeeps DEF budgetVars
<1> QED
  BY <1>1, <1>2, <1>3, SettleKeeps, CheckTimeKeeps, RequestKeeps, SetBudgetKeeps DEF BudgetNext

LEMMA BudgetSettled == BudgetIInv => BudgetsInv
<1> SUFFICES ASSUME BudgetIInv PROVE BudgetsInv
  OBVIOUS
<1>1. BudgetTypeOK
  BY DEF BudgetIInv, Typed, BudgetTypeOK, Frames, Origins, Phases
<1>2. OverBudgetRests
  BY DEF BudgetIInv, OverAnswered, Rests, Coming, OverBudgetRests, Checkers
<1> QED
  BY <1>1, <1>2 DEF BudgetIInv, Warnings, Numbering, BudgetsInv

\* No result is lost of the usage, a run whose result went over a limit comes to
\* rest when the checks of it are over, a key is warned of once unless two
\* checks of it overlapped, and the numbers of the events follow their order,
\* for any number of results that settle at once (task-service.ts,
\* run-service.ts).
THEOREM BudgetsInvHolds == BudgetSpec => []BudgetsInv
  BY BudgetInitial, BudgetStep, BudgetSettled, PTL DEF BudgetSpec
=============================================================================
