----------------------- MODULE IssueOrchestrator_proofs -----------------------
(***************************************************************************)
(* Proofs about IssueOrchestrator: for any issues, any order of them, any  *)
(* limits and any number of disturbances.                                  *)
(*                                                                         *)
(* The inductive invariant says what the poll, the executions and the maps *)
(* tell each other: who waits for a retry has no agent, a directory whose  *)
(* hook has still to run belongs to the execution that runs it, and what   *)
(* anyone holds for finished was finished since its last launch.           *)
(*                                                                         *)
(* After it, what goes on beside the desk (OrchestratorSides), each with   *)
(* an invariant of its own: the sessions, the lists of the trackers, the   *)
(* history of an issue and the policy.                                     *)
(***************************************************************************)
EXTENDS OrchestratorSides, FiniteSetTheorems, SequenceTheorems, WellFoundedInduction, TLAPS

-----------------------------------------------------------------------------
(* Dispatch *)

LEMMA RanksApart ==
  /\ \A i \in Issues : Rank[i] \in Nat
  /\ \A i, j \in Issues : Before(i, j) \/ Before(j, i) \/ i = j
  /\ \A i, j \in Issues : Before(i, j) => ~Before(j, i)
  /\ \A i, j, k \in Issues : Before(i, j) /\ Before(j, k) => Before(i, k)
  /\ \A i \in Issues : ~Before(i, i)
<1>1. Rank \in [Issues -> Nat] /\ \A i, j \in Issues : Rank[i] = Rank[j] => i = j
  BY OrchestratorAssumptions
<1> QED
  BY <1>1 DEF Before

LEMMA SubsetsFinite ==
  /\ FiniteSubsetsOf(Issues) = SUBSET Issues
  /\ \A S \in SUBSET Issues : IsFiniteSet(S) /\ Cardinality(S) \in Nat
<1>1. IsFiniteSet(Issues)
  BY OrchestratorAssumptions
<1>2. \A S \in SUBSET Issues : IsFiniteSet(S) /\ Cardinality(S) \in Nat
  BY <1>1, FS_Subset, FS_CardinalityType
<1> QED
  BY <1>2 DEF FiniteSubsetsOf

\* Of any sets of issues one has no strict subset among them.
LEMMA SmallestSet ==
  ASSUME NEW Sets \in SUBSET (SUBSET Issues), Sets # {}
  PROVE  \E T \in Sets : \A U \in Sets : U \subseteq T => U = T
<1>1. IsWellFoundedOn(StrictSubsetOrdering(Issues), FiniteSubsetsOf(Issues))
  BY FS_StrictSubsetOrderingWellFounded
<1>2. Sets \subseteq FiniteSubsetsOf(Issues)
  BY SubsetsFinite
<1>3. PICK T \in Sets : \A U \in Sets : ~(<<U, T>> \in StrictSubsetOrdering(Issues))
  BY <1>1, <1>2, WFMin
<1>4. \A U \in Sets : U \subseteq T => U = T
  BY <1>3 DEF StrictSubsetOrdering
<1> QED
  BY <1>4

\* A set of issues that is not empty has a last one.
LEMMA LastRanked ==
  ASSUME NEW S \in SUBSET Issues, S # {}
  PROVE  \E m \in S : \A j \in S : j # m => Before(j, m)
<1> DEFINE HasLast(T) == \E m \in T : \A j \in T : j # m => Before(j, m)
           Bad == {T \in SUBSET Issues : T # {} /\ ~HasLast(T)}
<1>1. SUFFICES ASSUME Bad # {} PROVE FALSE
  OBVIOUS
<1>2. PICK T \in Bad : \A U \in Bad : U \subseteq T => U = T
  <2>1. Bad \in SUBSET (SUBSET Issues)
    OBVIOUS
  <2> HIDE DEF Bad
  <2> QED
    BY <1>1, <2>1, SmallestSet
<1>3. T \in SUBSET Issues /\ T # {} /\ ~HasLast(T)
  OBVIOUS
<1>4. PICK x \in T : TRUE
  BY <1>3
<1> DEFINE U == T \ {x}
<1>5. U # T /\ U \subseteq T /\ U \in SUBSET Issues /\ x \in Issues
  BY <1>3, <1>4
<1>6. CASE U = {}
  <2>1. HasLast(T)
    BY <1>4, <1>6
  <2> QED
    BY <1>3, <2>1
<1>7. CASE U # {}
  <2>1. HasLast(U)
    BY <1>2, <1>5, <1>7
  <2>2. PICK m \in U : \A j \in U : j # m => Before(j, m)
    BY <2>1
  <2>3. m \in Issues /\ m # x
    BY <1>5, <2>2
  <2>4. CASE Before(x, m)
    <3>1. \A j \in T : j # m => Before(j, m)
      BY <2>2, <2>4
    <3> QED
      BY <1>3, <2>2, <3>1
  <2>5. CASE Before(m, x)
    <3>1. \A j \in T : j # x => Before(j, x)
      BY <1>3, <1>5, <2>2, <2>3, <2>5, RanksApart
    <3> QED
      BY <1>3, <1>4, <3>1
  <2> QED
    BY <1>5, <2>3, <2>4, <2>5, RanksApart
<1> QED
  BY <1>6, <1>7

Fits(L, C, runs) == \A i \in C : i \in L <=> Admits(i, {j \in L : Before(j, i)}, runs)

\* The loop of dispatch has an outcome, whatever the candidates.
LEMMA DispatchDefined ==
  ASSUME NEW C \in SUBSET Issues, NEW runs
  PROVE  \E L \in SUBSET C : Fits(L, C, runs)
<1> DEFINE Bad == {T \in SUBSET Issues : \A L \in SUBSET T : ~Fits(L, T, runs)}
<1>1. SUFFICES ASSUME Bad # {} PROVE FALSE
  OBVIOUS
<1>2. PICK T \in Bad : \A U \in Bad : U \subseteq T => U = T
  <2>1. Bad \in SUBSET (SUBSET Issues)
    OBVIOUS
  <2> HIDE DEF Bad
  <2> QED
    BY <1>1, <2>1, SmallestSet
<1>3. T \in SUBSET Issues /\ \A L \in SUBSET T : ~Fits(L, T, runs)
  OBVIOUS
<1>4. T # {}
  <2>1. SUFFICES ASSUME T = {} PROVE FALSE
    OBVIOUS
  <2>2. Fits({}, T, runs)
    BY <2>1 DEF Fits
  <2> QED
    BY <1>3, <2>2
<1>5. PICK m \in T : \A j \in T : j # m => Before(j, m)
  BY <1>3, <1>4, LastRanked
<1> DEFINE U == T \ {m}
<1>6. PICK K \in SUBSET U : Fits(K, U, runs)
  <2>1. U \in SUBSET Issues /\ U \subseteq T /\ U # T
    BY <1>3, <1>5
  <2>2. U \notin Bad
    BY <1>2, <2>1
  <2> QED
    BY <2>1, <2>2
<1> DEFINE L == IF Admits(m, K, runs) THEN K \cup {m} ELSE K
<1>7. L \in SUBSET T /\ K \subseteq L /\ L \subseteq K \cup {m} /\ (m \in L <=> Admits(m, K, runs))
  BY <1>5, <1>6
<1> HIDE DEF L, Bad
<1>8. ASSUME NEW i \in T PROVE i \in L <=> Admits(i, {j \in L : Before(j, i)}, runs)
  <2>1. CASE i = m
    <3>1. \A j \in K : j \in T /\ j # m
      BY <1>6
    <3>2. m \in Issues /\ ~Before(m, m)
      BY <1>3, <1>5, RanksApart
    <3>3. {j \in L : Before(j, i)} = K
      BY <1>5, <1>7, <2>1, <3>1, <3>2
    <3> QED
      BY <1>7, <2>1, <3>3
  <2>2. CASE i # m
    <3>1. ~Before(m, i)
      BY <1>3, <1>5, <2>2, RanksApart
    <3>2. {j \in L : Before(j, i)} = {j \in K : Before(j, i)}
      BY <1>7, <3>1
    <3>3. i \in K <=> Admits(i, {j \in K : Before(j, i)}, runs)
      BY <1>6, <2>2 DEF Fits
    <3> QED
      BY <1>7, <2>2, <3>2, <3>3
  <2> QED
    BY <2>1, <2>2
<1>9. Fits(L, T, runs)
  BY <1>8 DEF Fits
<1> QED
  BY <1>3, <1>7, <1>9

\* What dispatch launches: candidates, each of which is admitted after those before it.
LEMMA DispatchedFits ==
  ASSUME NEW kept, NEW runs
  PROVE  /\ Dispatched(kept, runs) \subseteq Candidates(kept)
         /\ Fits(Dispatched(kept, runs), Candidates(kept), runs)
<1> DEFINE C == Candidates(kept)
<1>1. C \in SUBSET Issues
  BY DEF Candidates
<1>2. \E L \in SUBSET C : Fits(L, C, runs)
  BY <1>1, DispatchDefined
<1>3. Dispatched(kept, runs) = CHOOSE L \in SUBSET C : Fits(L, C, runs)
  BY DEF Dispatched, Fits
<1> HIDE DEF C
<1>4. Dispatched(kept, runs) \in SUBSET C /\ Fits(Dispatched(kept, runs), C, runs)
  BY <1>2, <1>3
<1> QED
  BY <1>4 DEF C

\* A set to whose last element there was room for it is not too large.
LEMMA RoomForLast ==
  ASSUME NEW S \in SUBSET Issues, NEW E \in SUBSET Issues, NEW m \in Issues, NEW limit \in Nat,
         S \subseteq E \cup {m}, Cardinality(E) < limit
  PROVE  Cardinality(S) <= limit
<1>1. IsFiniteSet(E) /\ Cardinality(E) \in Nat /\ IsFiniteSet(E \cup {m}) /\ Cardinality(S) \in Nat
      /\ Cardinality(E \cup {m}) \in Nat
  BY SubsetsFinite
<1>2. Cardinality(E \cup {m}) <= Cardinality(E) + 1
  BY <1>1, FS_AddElement
<1>3. Cardinality(S) <= Cardinality(E \cup {m})
  BY <1>1, FS_Subset
<1> QED
  BY <1>1, <1>2, <1>3

\* A dispatch stays within the capacity and within the limits of the states.
LEMMA DispatchWithinCapacity ==
  ASSUME TypeOK, NEW kept, NEW runs, NEW i \in Dispatched(kept, runs)
  PROVE  LET L == Dispatched(kept, runs)
         IN  /\ Cardinality(Running \cup L) <= MaxConcurrent
             /\ Cardinality(CountedIn(fetched[i], runs) \cup {j \in L : fetched[j] = fetched[i]})
                  <= StateLimit[fetched[i]]
<1> DEFINE L == Dispatched(kept, runs)
           M == {j \in L : fetched[j] = fetched[i]}
           counted == CountedIn(fetched[i], runs)
<1>1. /\ L \subseteq Issues
      /\ \A j \in L : Dispatchable(fetched[j]) /\ Admits(j, {k \in L : Before(k, j)}, runs)
  BY DispatchedFits DEF Candidates, Fits
<1>2. MaxConcurrent \in Nat /\ StateLimit[fetched[i]] \in Nat
  BY <1>1, OrchestratorAssumptions DEF Dispatchable, ActiveStates
<1>3. Running \in SUBSET Issues /\ counted \in SUBSET Issues
  BY DEF Running, CountedIn
<1> HIDE DEF L, counted
<1>4. Cardinality(Running \cup L) <= MaxConcurrent
  <2>1. PICK m \in L : \A j \in L : j # m => Before(j, m)
    BY <1>1, LastRanked DEF L
  <2>2. Cardinality(Running \cup {k \in L : Before(k, m)}) < MaxConcurrent
    BY <1>1, <2>1 DEF Admits
  <2> DEFINE E == Running \cup {k \in L : Before(k, m)}
  <2>3. Running \cup L \subseteq E \cup {m} /\ E \in SUBSET Issues /\ Running \cup L \in SUBSET Issues
        /\ m \in Issues
    BY <1>1, <1>3, <2>1
  <2> HIDE DEF E
  <2> QED
    BY <1>2, <2>2, <2>3, RoomForLast DEF E
<1>5. Cardinality(counted \cup M) <= StateLimit[fetched[i]]
  <2>1. M \in SUBSET Issues /\ i \in M
    BY <1>1 DEF L
  <2>2. PICK m \in M : \A j \in M : j # m => Before(j, m)
    BY <2>1, LastRanked
  <2> DEFINE E == counted \cup {j \in {k \in L : Before(k, m)} : fetched[j] = fetched[m]}
  <2>3. m \in L /\ fetched[m] = fetched[i]
    BY <2>2
  <2>4. Cardinality(E) < StateLimit[fetched[i]]
    BY <1>1, <2>3 DEF Admits, LimitOf, counted
  <2>5. counted \cup M \subseteq E \cup {m} /\ E \in SUBSET Issues /\ counted \cup M \in SUBSET Issues
        /\ m \in Issues
    BY <1>1, <1>3, <2>1, <2>2, <2>3
  <2> HIDE DEF E, M
  <2> QED
    BY <1>2, <2>4, <2>5, RoomForLast
<1> QED
  BY <1>4, <1>5 DEF L, counted

-----------------------------------------------------------------------------
(* The inductive invariant *)

\* Who waits for a retry has no agent; the last after_run of the attempt may still run.
RetriesRest == \A i \in retries : run[i].pc \in {"idle", "afterFinal"}

\* A directory whose hook has still to run belongs to the execution that runs it.
HookOwed == {"checkNew", "init", "undo"}
FreshGuarded == \A i \in Issues : dir[i] = "fresh" => run[i].pc \in HookOwed

\* The execution is about to remove the workspace of a finished issue.
Finishing(r) == \/ r.pc \in {"afterTerminal", "beforeRemove"}
                \/ r.pc = "closing" /\ r.outcome = "terminal"

\* What anyone holds for finished was finished since its last launch.
FinishedIsOver ==
  /\ \A i \in Issues : tracker[i] = "done" \/ fetched[i] = "done" => i \in over
  /\ terminalStops \subseteq over
  /\ \A i \in Issues : Finishing(run[i]) => i \in over
  /\ removing # NoIssue => removing \in over

\* A poll that a mutation waits for has read the source after it.
MutationRead ==
  mutation = "refreshing" =>
    /\ pollPc = "fetched" => shown # "no"
    /\ pollPc = "removing" => shown = "board"

DisposedRests == disposed => ~active

DeskIInv ==
  /\ TypeOK /\ MarksOwned /\ PollingArmed /\ WorkspaceExclusive
  /\ RetriesRest /\ FreshGuarded /\ FinishedIsOver /\ MutationRead /\ DisposedRests

\* The invariant implies the one that is model-checked: an agent's directory is not fresh.
LEMMA DeskIInvSuffices == DeskIInv => DeskInv
  BY DEF DeskIInv, DeskInv, FreshGuarded, InitializedBeforeUse, HookOwed

LEMMA DeskStarts == Init => DeskIInv
<1> SUFFICES ASSUME Init PROVE DeskIInv
  OBVIOUS
<1> USE DEF Init
<1>1. TypeOK
  <2>1. Idle \in RunRecords
    BY DEF Idle, RunRecords, RunPcs, TrackerStates, ActiveStates, Outcomes
  <2>2. MaxEvents \in Nat /\ 0 \in 0..MaxEvents
    BY OrchestratorAssumptions
  <2> QED
    BY <2>1, <2>2 DEF TypeOK, WorkspaceTypeOK, WorkspaceInit, DirStates, TrackerStates, ActiveStates, NothingRead
<1>2. \A i \in Issues : run[i].pc = "idle" /\ dir[i] = "absent" /\ tracker[i] = "todo" /\ fetched[i] = "gone"
  BY DEF Idle, WorkspaceInit, NothingRead
<1>3. MarksOwned /\ PollingArmed /\ WorkspaceExclusive
  BY DEF MarksOwned, PollingArmed, WorkspaceExclusive
<1>4. RetriesRest /\ FreshGuarded /\ FinishedIsOver /\ MutationRead /\ DisposedRests
  BY <1>2 DEF RetriesRest, FreshGuarded, FinishedIsOver, Finishing, MutationRead, DisposedRests
<1> QED
  BY <1>1, <1>3, <1>4 DEF DeskIInv

-----------------------------------------------------------------------------
(* One execution *)

\* What a step of the execution of i may do, but for the directory.
RunMoves(i) ==
  /\ run' \in [Issues -> RunRecords] /\ \A j \in Issues : j # i => run'[j] = run[j]
  /\ manualStops' \subseteq manualStops /\ terminalStops' \subseteq terminalStops
  /\ run'[i].pc = "idle" => i \notin manualStops' \cup terminalStops'
  /\ timer' \in BOOLEAN /\ (timer => timer')
  /\ \/ run'[i].pc \in {"idle", "afterFinal"}
        /\ retries' = retries \cup {i} /\ due' = due \ {i} /\ visited' = visited \ {i}
     \/ (run[i].pc = "afterFinal" => run'[i].pc = "idle")
        /\ UNCHANGED <<retries, due, visited>>

LEMMA RunRecordAt ==
  ASSUME TypeOK, NEW i \in Issues, NEW r \in RunRecords, run' = [run EXCEPT ![i] = r]
  PROVE  /\ run' \in [Issues -> RunRecords] /\ run'[i] = r
         /\ \A j \in Issues : j # i => run'[j] = run[j]
  BY DEF TypeOK

LEMMA RunRecordParts ==
  ASSUME NEW r \in RunRecords, NEW pc \in RunPcs
  PROVE  /\ [r EXCEPT !.pc = pc] \in RunRecords
         /\ [r EXCEPT !.pc = pc].pc = pc /\ [r EXCEPT !.pc = pc].outcome = r.outcome
  BY DEF RunRecords

LEMMA IdleRecord == Idle \in RunRecords /\ Idle.pc = "idle"
  BY DEF Idle, RunRecords, RunPcs, TrackerStates, ActiveStates, Outcomes

LEMMA GotoMoves ==
  ASSUME TypeOK, NEW i \in Issues, NEW pc \in RunPcs, Goto(i, pc)
  PROVE  /\ run' \in [Issues -> RunRecords] /\ \A j \in Issues : j # i => run'[j] = run[j]
         /\ run'[i].pc = pc /\ run'[i].outcome = run[i].outcome
<1>1. run[i] \in RunRecords
  BY DEF TypeOK
<1> DEFINE r == [run[i] EXCEPT !.pc = pc]
<1>2. r \in RunRecords /\ r.pc = pc /\ r.outcome = run[i].outcome
  BY <1>1, RunRecordParts
<1>3. run' = [run EXCEPT ![i] = r]
  BY DEF Goto
<1> HIDE DEF r
<1> QED
  BY <1>2, <1>3, RunRecordAt

LEMMA ProceedMoves ==
  ASSUME TypeOK, NEW i \in Issues, NEW pc \in RunPcs \ {"idle"}, Proceed(i, pc), run[i].pc # "afterFinal"
  PROVE  RunMoves(i) /\ run'[i].pc = pc /\ run'[i].outcome = run[i].outcome
<1>1. Goto(i, pc) /\ UNCHANGED <<manualStops, terminalStops, retries, due, visited, timer>>
  BY DEF Proceed, NoMarks, NoRetry
<1>2. timer \in BOOLEAN
  BY DEF TypeOK
<1> QED
  BY <1>1, <1>2, GotoMoves DEF RunMoves

\* The running entry is deleted: with a retry, or without.
LEMMA FinishMoves ==
  ASSUME TypeOK, NEW i \in Issues, Finish(i), NoRetry \/ ScheduleRetry(i)
  PROVE  RunMoves(i) /\ run'[i].pc = "idle"
<1>1. /\ run' \in [Issues -> RunRecords] /\ run'[i].pc = "idle"
      /\ \A j \in Issues : j # i => run'[j] = run[j]
  BY IdleRecord, RunRecordAt DEF Finish
<1>2. timer' \in BOOLEAN /\ (timer => timer')
  BY DEF Finish, TypeOK
<1>3. /\ manualStops' = manualStops \ {i} /\ terminalStops' = terminalStops \ {i}
  BY DEF Finish, DropMarks
<1> QED
  BY <1>1, <1>2, <1>3 DEF RunMoves, NoRetry, ScheduleRetry

\* The catch block.
LEMMA CatchMoves ==
  ASSUME TypeOK, NEW i \in Issues, NEW owed \in BOOLEAN, Catch(i, owed), run[i].pc # "afterFinal"
  PROVE  /\ RunMoves(i)
         /\ run'[i].pc \in {"afterTerminal", "beforeRemove"} => i \in terminalStops
         /\ run'[i].pc \in {"idle", "afterFinal", "afterTerminal", "beforeRemove"}
<1>0. timer \in BOOLEAN /\ run[i] \in RunRecords
  BY DEF TypeOK
<1>1. CASE i \in terminalStops
  <2> DEFINE pc == IF owed THEN "afterTerminal" ELSE "beforeRemove"
             r == [run[i] EXCEPT !.outcome = "error", !.pc = pc]
  <2>1. pc \in RunPcs /\ pc \in {"afterTerminal", "beforeRemove"} /\ "error" \in Outcomes
    BY DEF RunPcs, Outcomes
  <2>2. run' = [run EXCEPT ![i] = r] /\ DropMarks(i) /\ NoRetry /\ UNCHANGED timer
    BY <1>1 DEF Catch
  <2> HIDE DEF pc
  <2>3. r \in RunRecords /\ r.pc = pc
    BY <1>0, <2>1 DEF RunRecords
  <2> HIDE DEF r
  <2>4. /\ run' \in [Issues -> RunRecords] /\ run'[i].pc = pc
        /\ \A j \in Issues : j # i => run'[j] = run[j]
    BY <2>2, <2>3, RunRecordAt
  <2> QED
    BY <1>0, <1>1, <2>1, <2>2, <2>4 DEF RunMoves, DropMarks, NoRetry
<1>2. CASE i \notin terminalStops
  <2>1. NoRetry \/ ScheduleRetry(i)
    BY <1>2 DEF Catch
  <2>2. CASE owed
    <3>1. Goto(i, "afterFinal") /\ DropMarks(i) /\ UNCHANGED timer
      BY <1>2, <2>2 DEF Catch
    <3>2. "afterFinal" \in RunPcs
      BY DEF RunPcs
    <3>3. /\ run' \in [Issues -> RunRecords] /\ run'[i].pc = "afterFinal"
          /\ \A j \in Issues : j # i => run'[j] = run[j]
      BY <3>1, <3>2, GotoMoves
    <3> QED
      BY <1>0, <2>1, <3>1, <3>3 DEF RunMoves, DropMarks, NoRetry, ScheduleRetry
  <2>3. CASE ~owed
    <3>1. Finish(i)
      BY <1>2, <2>3 DEF Catch
    <3> QED
      BY <2>1, <3>1, FinishMoves
  <2> QED
    BY <2>2, <2>3
<1> QED
  BY <1>1, <1>2

\* What a step of the execution of i may do.
Executes(i) ==
  /\ RunMoves(i) /\ run[i].pc # "idle"
  /\ dir' \in [Issues -> DirStates] /\ \A j \in Issues : j # i => dir'[j] = dir[j]
  /\ dir'[i] = "fresh" => run'[i].pc \in HookOwed
  /\ dir[i] # "absent" /\ dir'[i] = "absent" => run[i].pc \in {"undo", "beforeRemove"}
  /\ Finishing(run'[i]) => i \in terminalStops \/ tracker[i] = "done" \/ Finishing(run[i])
  /\ events' \in 0..MaxEvents
  /\ ExecFrame

LEMMA EventBounded ==
  ASSUME TypeOK, Event \/ Calm
  PROVE  events' \in 0..MaxEvents
<1>1. events \in 0..MaxEvents /\ MaxEvents \in Nat
  BY OrchestratorAssumptions DEF TypeOK
<1> QED
  BY <1>1 DEF Event, Calm

LEMMA SetDirRight ==
  ASSUME TypeOK, NEW i \in Issues, NEW d \in DirStates, SetDir(i, d)
  PROVE  /\ dir' \in [Issues -> DirStates] /\ dir'[i] = d
         /\ \A j \in Issues : j # i => dir'[j] = dir[j]
  BY DEF TypeOK, WorkspaceTypeOK, SetDir

\* An initialization that is cut leaves a directory, and none that is fresh.
LEMMA CutRight ==
  ASSUME TypeOK, NEW i \in Issues, CutInitialization(i)
  PROVE  /\ dir' \in [Issues -> DirStates] /\ dir'[i] \notin {"absent", "fresh"}
         /\ \A j \in Issues : j # i => dir'[j] = dir[j]
<1> DEFINE d == IF dir[i] \in {"absent", "fresh"} THEN "cut" ELSE dir[i]
<1>1. d \in DirStates /\ d \notin {"absent", "fresh"} /\ SetDir(i, d)
  BY DEF TypeOK, WorkspaceTypeOK, DirStates, CutInitialization
<1> HIDE DEF d
<1> QED
  BY <1>1, SetDirRight

LEMMA SameDir ==
  ASSUME TypeOK, UNCHANGED dir
  PROVE  dir' \in [Issues -> DirStates] /\ \A j \in Issues : dir'[j] = dir[j]
  BY DEF TypeOK, WorkspaceTypeOK

\* The pcs by name.
LEMMA Pcs == {"check", "checkNew", "init", "undo", "before", "agent", "closing", "afterTerminal",
              "beforeRemove", "afterFinal"} \subseteq RunPcs \ {"idle"}
  BY DEF RunPcs

LEMMA EnsureExecutes ==
  ASSUME TypeOK, FreshGuarded, NEW i \in Issues, ExecEnsure(i)
  PROVE  Executes(i)
<1>1. run[i].pc = "prepare" /\ ExecFrame /\ dir[i] # "fresh" /\ dir[i] \in DirStates
  BY DEF ExecEnsure, FreshGuarded, HookOwed, TypeOK, WorkspaceTypeOK
<1>2. CASE EnsureDirectory(i) /\ Proceed(i, IF dir[i] = "absent" THEN "checkNew" ELSE "check") /\ Calm
  <2> DEFINE d == IF dir[i] = "absent" THEN "fresh" ELSE dir[i]
             pc == IF dir[i] = "absent" THEN "checkNew" ELSE "check"
  <2>1. d \in DirStates /\ SetDir(i, d) /\ pc \in RunPcs \ {"idle"} /\ Proceed(i, pc)
        /\ pc \in {"checkNew", "check"}
    BY <1>1, <1>2 DEF EnsureDirectory, RunPcs, DirStates
  <2>2. d # "absent" /\ (d = "fresh" => pc = "checkNew")
    BY <1>1
  <2> HIDE DEF d, pc
  <2>3. RunMoves(i) /\ run'[i].pc = pc
    BY <1>1, <2>1, ProceedMoves
  <2>4. dir' \in [Issues -> DirStates] /\ dir'[i] = d /\ \A j \in Issues : j # i => dir'[j] = dir[j]
    BY <2>1, SetDirRight
  <2>5. events' \in 0..MaxEvents
    BY <1>2, EventBounded
  <2> QED
    BY <1>1, <2>1, <2>2, <2>3, <2>4, <2>5 DEF Executes, Finishing, HookOwed
<1>3. CASE Fails(i) /\ (UNCHANGED dir \/ CutInitialization(i)) /\ Catch(i, FALSE)
  <2>1. /\ RunMoves(i)
        /\ run'[i].pc \in {"afterTerminal", "beforeRemove"} => i \in terminalStops
        /\ run'[i].pc \in {"idle", "afterFinal", "afterTerminal", "beforeRemove"}
    BY <1>1, <1>3, CatchMoves
  <2>2. /\ dir' \in [Issues -> DirStates] /\ \A j \in Issues : j # i => dir'[j] = dir[j]
        /\ dir'[i] # "fresh" /\ (dir[i] # "absent" => dir'[i] # "absent")
    BY <1>1, <1>3, SameDir, CutRight
  <2>3. events' \in 0..MaxEvents
    BY <1>3, EventBounded DEF Fails
  <2> QED
    BY <1>1, <2>1, <2>2, <2>3 DEF Executes, Finishing
<1> QED
  BY <1>2, <1>3 DEF ExecEnsure

LEMMA CheckExecutes ==
  ASSUME TypeOK, FreshGuarded, NEW i \in Issues, ExecCheck(i)
  PROVE  Executes(i)
<1>1. run[i].pc \in {"check", "checkNew"} /\ ExecFrame /\ (dir[i] = "fresh" => run[i].pc = "checkNew")
  BY DEF ExecCheck, FreshGuarded, HookOwed
<1>2. CASE Proceed(i, IF run[i].pc = "checkNew" THEN "init" ELSE "before") /\ Calm /\ UNCHANGED dir
  <2> DEFINE pc == IF run[i].pc = "checkNew" THEN "init" ELSE "before"
  <2>1. pc \in RunPcs \ {"idle"} /\ Proceed(i, pc) /\ pc \in {"init", "before"}
    BY <1>2 DEF RunPcs
  <2>2. dir[i] = "fresh" => pc = "init"
    BY <1>1
  <2> HIDE DEF pc
  <2>3. RunMoves(i) /\ run'[i].pc = pc
    BY <1>1, <2>1, ProceedMoves
  <2>4. dir' \in [Issues -> DirStates] /\ \A j \in Issues : dir'[j] = dir[j]
    BY <1>2, SameDir
  <2>5. events' \in 0..MaxEvents
    BY <1>2, EventBounded
  <2> QED
    BY <1>1, <2>1, <2>2, <2>3, <2>4, <2>5 DEF Executes, Finishing, HookOwed
<1>3. CASE /\ Fails(i) /\ Catch(i, FALSE)
           /\ IF run[i].pc = "checkNew" THEN CutInitialization(i) ELSE UNCHANGED dir
  <2>1. /\ RunMoves(i)
        /\ run'[i].pc \in {"afterTerminal", "beforeRemove"} => i \in terminalStops
        /\ run'[i].pc \in {"idle", "afterFinal", "afterTerminal", "beforeRemove"}
    BY <1>1, <1>3, CatchMoves
  <2>2. /\ dir' \in [Issues -> DirStates] /\ \A j \in Issues : j # i => dir'[j] = dir[j]
        /\ dir'[i] # "fresh" /\ (dir[i] # "absent" => dir'[i] # "absent")
    BY <1>1, <1>3, SameDir, CutRight
  <2>3. events' \in 0..MaxEvents
    BY <1>3, EventBounded DEF Fails
  <2> QED
    BY <1>1, <2>1, <2>2, <2>3 DEF Executes, Finishing
<1> QED
  BY <1>2, <1>3 DEF ExecCheck

LEMMA InitExecutes ==
  ASSUME TypeOK, FreshGuarded, NEW i \in Issues, ExecInit(i)
  PROVE  Executes(i)
<1>1. run[i].pc = "init" /\ ExecFrame
  BY DEF ExecInit
<1>2. events' \in 0..MaxEvents
  BY EventBounded DEF ExecInit, Fails
<1>3. CASE Initialize(i) /\ Proceed(i, "before")
  <2>1. RunMoves(i) /\ run'[i].pc = "before"
    BY <1>1, <1>3, ProceedMoves, Pcs
  <2>2. dir' \in [Issues -> DirStates] /\ dir'[i] = "ready" /\ \A j \in Issues : j # i => dir'[j] = dir[j]
    BY <1>3, SetDirRight DEF Initialize, DirStates
  <2> QED
    BY <1>1, <1>2, <2>1, <2>2 DEF Executes, Finishing
<1>4. CASE UNCHANGED dir /\ Proceed(i, "undo")
  <2>1. RunMoves(i) /\ run'[i].pc = "undo"
    BY <1>1, <1>4, ProceedMoves, Pcs
  <2>2. dir' \in [Issues -> DirStates] /\ \A j \in Issues : dir'[j] = dir[j]
    BY <1>4, SameDir
  <2> QED
    BY <1>1, <1>2, <2>1, <2>2 DEF Executes, Finishing, HookOwed
<1> QED
  BY <1>3, <1>4 DEF ExecInit

LEMMA UndoExecutes ==
  ASSUME TypeOK, FreshGuarded, NEW i \in Issues, ExecUndo(i)
  PROVE  Executes(i)
<1>1. run[i].pc = "undo" /\ ExecFrame
  BY DEF ExecUndo
<1>2. events' \in 0..MaxEvents
  BY EventBounded DEF ExecUndo
<1>3. /\ RunMoves(i)
      /\ run'[i].pc \in {"afterTerminal", "beforeRemove"} => i \in terminalStops
      /\ run'[i].pc \in {"idle", "afterFinal", "afterTerminal", "beforeRemove"}
  BY <1>1, CatchMoves DEF ExecUndo
<1>4. CASE RemoveFailedInitialization(i)
  <2>1. dir' \in [Issues -> DirStates] /\ dir'[i] = "absent" /\ \A j \in Issues : j # i => dir'[j] = dir[j]
    BY <1>4, SetDirRight DEF RemoveFailedInitialization, DirStates
  <2> QED
    BY <1>1, <1>2, <1>3, <2>1 DEF Executes, Finishing
<1>5. CASE CutInitialization(i)
  BY <1>1, <1>2, <1>3, <1>5, CutRight DEF Executes, Finishing
<1> QED
  BY <1>4, <1>5 DEF ExecUndo

LEMMA BeforeExecutes ==
  ASSUME TypeOK, FreshGuarded, NEW i \in Issues, ExecBefore(i)
  PROVE  Executes(i)
<1>1. run[i].pc = "before" /\ ExecFrame /\ dir[i] # "fresh" /\ UNCHANGED dir
  BY DEF ExecBefore, FreshGuarded, HookOwed
<1>2. events' \in 0..MaxEvents
  BY EventBounded DEF ExecBefore, Fails
<1>3. /\ RunMoves(i) /\ run'[i].pc # "closing"
      /\ run'[i].pc \in {"afterTerminal", "beforeRemove"} => i \in terminalStops
  <2>1. CASE Proceed(i, "agent")
    BY <1>1, <2>1, ProceedMoves, Pcs
  <2>2. CASE Catch(i, TRUE)
    BY <1>1, <2>2, CatchMoves
  <2> QED
    BY <2>1, <2>2 DEF ExecBefore
<1>4. dir' \in [Issues -> DirStates] /\ \A j \in Issues : dir'[j] = dir[j]
  BY <1>1, SameDir
<1> QED
  BY <1>1, <1>2, <1>3, <1>4 DEF Executes, Finishing

LEMMA AgentEndsExecutes ==
  ASSUME TypeOK, FreshGuarded, NEW i \in Issues, AgentEnds(i)
  PROVE  Executes(i)
<1>1. run[i].pc = "agent" /\ ExecFrame /\ dir[i] # "fresh" /\ UNCHANGED dir /\ run[i] \in RunRecords
      /\ NoMarks /\ NoRetry /\ UNCHANGED timer /\ timer \in BOOLEAN
  BY DEF AgentEnds, FreshGuarded, HookOwed, TypeOK
<1>2. PICK o \in {OutcomeOf(tracker[i]), "error"} :
         /\ run' = [run EXCEPT ![i].pc = "closing", ![i].outcome = o]
         /\ Event \/ Calm
  BY DEF AgentEnds, Fails
<1>3. events' \in 0..MaxEvents
  BY <1>2, EventBounded
<1>4. o \in Outcomes /\ (o = "terminal" => tracker[i] = "done")
  BY <1>2 DEF OutcomeOf, Outcomes
<1> DEFINE r == [run[i] EXCEPT !.pc = "closing", !.outcome = o]
<1>5. r \in RunRecords /\ r.pc = "closing" /\ r.outcome = o
  BY <1>1, <1>4, Pcs DEF RunRecords
<1>6. run' = [run EXCEPT ![i] = r]
  BY <1>2
<1> HIDE DEF r
<1>7. /\ run' \in [Issues -> RunRecords] /\ run'[i].pc = "closing" /\ run'[i].outcome = o
      /\ \A j \in Issues : j # i => run'[j] = run[j]
  BY <1>5, <1>6, RunRecordAt
<1>8. RunMoves(i)
  BY <1>1, <1>7 DEF RunMoves, NoMarks, NoRetry
<1>9. dir' \in [Issues -> DirStates] /\ \A j \in Issues : dir'[j] = dir[j]
  BY <1>1, SameDir
<1> QED
  BY <1>1, <1>3, <1>4, <1>7, <1>8, <1>9 DEF Executes, Finishing

LEMMA AgentClosesExecutes ==
  ASSUME TypeOK, FreshGuarded, NEW i \in Issues, AgentCloses(i)
  PROVE  Executes(i)
<1>1. run[i].pc = "closing" /\ ExecFrame /\ dir[i] # "fresh" /\ UNCHANGED dir /\ timer \in BOOLEAN
  BY DEF AgentCloses, FreshGuarded, HookOwed, TypeOK
<1>2. events' \in 0..MaxEvents
  BY EventBounded DEF AgentCloses
<1>3. dir' \in [Issues -> DirStates] /\ \A j \in Issues : dir'[j] = dir[j]
  BY <1>1, SameDir
<1>4. /\ RunMoves(i) /\ run'[i].pc # "closing"
      /\ run'[i].pc \in {"afterTerminal", "beforeRemove"} => i \in terminalStops \/ Finishing(run[i])
  <2>1. CASE run[i].outcome = "terminal"
    <3>1. Proceed(i, "afterTerminal")
      BY <2>1 DEF AgentCloses
    <3> QED
      BY <1>1, <2>1, <3>1, ProceedMoves, Pcs DEF Finishing
  <2>2. CASE run[i].outcome = "inactive"
    <3>1. Proceed(i, "afterFinal")
      BY <2>2 DEF AgentCloses
    <3> QED
      BY <1>1, <3>1, ProceedMoves, Pcs
  <2>3. CASE run[i].outcome = "active"
    <3>1. ScheduleRetry(i) /\ Goto(i, "afterFinal") /\ NoMarks /\ UNCHANGED timer
      BY <2>3 DEF AgentCloses
    <3>2. /\ run' \in [Issues -> RunRecords] /\ run'[i].pc = "afterFinal"
          /\ \A j \in Issues : j # i => run'[j] = run[j]
      BY <3>1, GotoMoves, Pcs
    <3> QED
      BY <1>1, <3>1, <3>2 DEF RunMoves, NoMarks, ScheduleRetry
  <2>4. CASE run[i].outcome \notin {"terminal", "inactive", "active"}
    <3>1. Catch(i, TRUE)
      BY <2>4 DEF AgentCloses
    <3> QED
      BY <1>1, <3>1, CatchMoves
  <2> QED
    BY <2>1, <2>2, <2>3, <2>4
<1> QED
  BY <1>1, <1>2, <1>3, <1>4 DEF Executes, Finishing

LEMMA RemovalExecutes ==
  ASSUME TypeOK, FreshGuarded, NEW i \in Issues, AfterRunTerminal(i) \/ RemoveFinished(i) \/ AfterRunFinal(i)
  PROVE  Executes(i)
<1>1. ExecFrame /\ dir[i] # "fresh" /\ events' \in 0..MaxEvents
  BY EventBounded DEF AfterRunTerminal, RemoveFinished, AfterRunFinal, FreshGuarded, HookOwed
<1>2. CASE AfterRunTerminal(i)
  <2>1. run[i].pc = "afterTerminal" /\ Proceed(i, "beforeRemove") /\ UNCHANGED dir
    BY <1>2 DEF AfterRunTerminal
  <2>2. RunMoves(i) /\ run'[i].pc = "beforeRemove"
    BY <2>1, ProceedMoves, Pcs
  <2> QED
    BY <1>1, <2>1, <2>2, SameDir DEF Executes, Finishing
<1>3. CASE RemoveFinished(i)
  <2>1. run[i].pc = "beforeRemove" /\ Finishing(run[i])
    BY <1>3 DEF RemoveFinished, Finishing
  <2>2. RunMoves(i)
    <3>1. CASE Finish(i) /\ NoRetry
      BY <3>1, FinishMoves
    <3>2. CASE Catch(i, FALSE)
      BY <2>1, <3>2, CatchMoves
    <3> QED
      BY <1>3, <3>1, <3>2 DEF RemoveFinished
  <2>3. /\ dir' \in [Issues -> DirStates] /\ dir'[i] # "fresh"
        /\ \A j \in Issues : j # i => dir'[j] = dir[j]
    <3>1. CASE RemoveTarget(i)
      BY <3>1, SetDirRight DEF RemoveTarget, DirStates
    <3>2. CASE UNCHANGED dir
      BY <1>1, <3>2, SameDir
    <3> QED
      BY <1>3, <3>1, <3>2 DEF RemoveFinished
  <2> QED
    BY <1>1, <2>1, <2>2, <2>3 DEF Executes
<1>4. CASE AfterRunFinal(i)
  <2>1. run[i].pc = "afterFinal" /\ Finish(i) /\ NoRetry /\ UNCHANGED dir
    BY <1>4 DEF AfterRunFinal
  <2>2. RunMoves(i) /\ run'[i].pc = "idle"
    BY <2>1, FinishMoves
  <2> QED
    BY <1>1, <2>1, <2>2, SameDir DEF Executes, Finishing
<1> QED
  BY <1>2, <1>3, <1>4

LEMMA ExecutionExecutes ==
  ASSUME TypeOK, FreshGuarded, NEW i \in Issues, Execution(i)
  PROVE  Executes(i)
  BY EnsureExecutes, CheckExecutes, InitExecutes, UndoExecutes, BeforeExecutes, AgentEndsExecutes,
     AgentClosesExecutes, RemovalExecutes DEF Execution

-----------------------------------------------------------------------------
(* The rest of a poll *)

\* The poll removes the workspace of a retry whose issue is finished ...
RemovesNext(left, seen, runs) ==
  \E i \in left :
    /\ fetched[i] = "done" /\ pollPc' = "removing" /\ removing' = i /\ visited' = seen \cup {i}
    /\ retries' \subseteq left /\ due' \subseteq retries' /\ run' = runs
    /\ UNCHANGED <<over, dispatchEnabled, fetched, timer, joined, mutation>>

\* ... or launches a set of issues, and ends.
Launched(L, left, runs) ==
  /\ L \subseteq Issues \ Running /\ (L # {} => MayDispatch)
  /\ \A i \in L :
       /\ Dispatchable(fetched[i])
       /\ Cardinality(Running \cup L) <= MaxConcurrent
       /\ Cardinality(CountedIn(fetched[i], runs) \cup {j \in L : fetched[j] = fetched[i]})
            <= StateLimit[fetched[i]]
  /\ retries' \subseteq left \ L /\ due' \subseteq retries'
  /\ run' = [i \in Issues |-> IF i \in L THEN Launch(i) ELSE runs[i]]
  /\ over' = over \ {i \in L : tracker[i] # "done"}
  /\ PollEnds

LEMMA ContinueShape ==
  ASSUME TypeOK, NEW left, NEW seen, NEW runs, ContinuePoll(left, seen, runs)
  PROVE  RemovesNext(left, seen, runs) \/ \E L : Launched(L, left, runs)
<1> DEFINE kept == KeptRetries(left)
           finished == {i \in kept \ seen : fetched[i] = "done"}
           L == IF MayDispatch THEN Dispatched(kept, runs) ELSE {}
<1>1. kept \subseteq left
  BY DEF KeptRetries
<1>2. CASE finished # {}
  <2>1. PICK i \in finished :
             /\ pollPc' = "removing" /\ removing' = i
             /\ visited' = seen \cup {i}
             /\ retries' = kept /\ due' = due \cap kept
             /\ run' = runs
             /\ UNCHANGED <<over, dispatchEnabled, fetched, timer, joined, mutation>>
    BY <1>2 DEF ContinuePoll
  <2> QED
    BY <1>1, <2>1 DEF RemovesNext
<1>3. CASE finished = {}
  <2>1. /\ retries' = RetriesAfter(kept, L)
        /\ due' = due \cap RetriesAfter(kept, L)
        /\ run' = [i \in Issues |-> IF i \in L THEN Launch(i) ELSE runs[i]]
        /\ over' = over \ {i \in L : tracker[i] # "done"}
        /\ PollEnds
    BY <1>3 DEF ContinuePoll
  <2>2. /\ L \subseteq Issues \ Running /\ (L # {} => MayDispatch)
        /\ \A i \in L : Dispatchable(fetched[i])
    BY DispatchedFits DEF Candidates
  <2>3. ASSUME NEW i \in L
        PROVE  /\ Cardinality(Running \cup L) <= MaxConcurrent
               /\ Cardinality(CountedIn(fetched[i], runs) \cup {j \in L : fetched[j] = fetched[i]})
                    <= StateLimit[fetched[i]]
    <3>1. L = Dispatched(kept, runs) /\ i \in Dispatched(kept, runs)
      OBVIOUS
    <3> HIDE DEF L, kept
    <3> QED
      BY <3>1, DispatchWithinCapacity
  <2> HIDE DEF L
  <2>4. retries' \subseteq left \ L /\ due' \subseteq retries'
    BY <1>1, <2>1 DEF RetriesAfter
  <2> HIDE DEF kept
  <2>5. Launched(L, left, runs)
    BY <2>1, <2>2, <2>3, <2>4 DEF Launched
  <2> QED
    BY <2>5
<1> QED
  BY <1>2, <1>3

LEMMA PollEndsRight ==
  ASSUME TypeOK, PollEnds
  PROVE  /\ dispatchEnabled' \in BOOLEAN /\ timer' \in BOOLEAN /\ joined' \in BOOLEAN
         /\ pollPc' \in {"idle", "listing"} /\ removing' = NoIssue /\ fetched' = NothingRead /\ visited' = {}
         /\ mutation' \in {"none", "draining"}
         /\ PollingArmed /\ pollPc # "idle" /\ UNCHANGED <<active, disposed>> => PollingArmed'
<1>1. /\ dispatchEnabled \in BOOLEAN /\ timer \in BOOLEAN /\ joined \in BOOLEAN
      /\ active \in BOOLEAN /\ disposed \in BOOLEAN
      /\ mutation \in {"none", "draining", "refreshing"}
  BY DEF TypeOK
<1> QED
  BY <1>1 DEF PollEnds, StartPoll, PollingArmed

LEMMA LaunchRight ==
  ASSUME TypeOK, NEW i \in Issues
  PROVE  Launch(i) \in RunRecords /\ Launch(i).pc = "prepare" /\ Launch(i).seen = fetched[i]
<1>1. fetched[i] \in TrackerStates
  BY DEF TypeOK
<1>2. Idle \in RunRecords
  BY IdleRecord
<1> QED
  BY <1>1, <1>2, Pcs DEF Launch, RunRecords, RunPcs

LEMMA NothingIsRead == NothingRead \in [Issues -> TrackerStates] /\ \A i \in Issues : NothingRead[i] # "done"
  BY DEF NothingRead, TrackerStates, ActiveStates

\* The records that a poll goes on with are those of the same executions.
SameRuns(runs) ==
  /\ runs \in [Issues -> RunRecords]
  /\ \A i \in Issues : runs[i].pc = run[i].pc /\ runs[i].outcome = run[i].outcome

LEMMA SyncedRight ==
  ASSUME TypeOK
  PROVE  SameRuns(Synced)
<1>1. ASSUME NEW i \in Issues
      PROVE  Synced[i] \in RunRecords /\ Synced[i].pc = run[i].pc /\ Synced[i].outcome = run[i].outcome
  <2>1. run[i] \in RunRecords /\ fetched[i] \in TrackerStates
    BY DEF TypeOK
  <2>2. Synced[i] \in {run[i], [run[i] EXCEPT !.seen = fetched[i]], [run[i] EXCEPT !.aborted = TRUE]}
    BY DEF Synced
  <2> QED
    BY <2>1, <2>2 DEF RunRecords
<1>2. Synced = [i \in Issues |-> Synced[i]]
  BY DEF Synced
<1>3. Synced \in [Issues -> RunRecords]
  BY <1>1, <1>2
<1> QED
  BY <1>1, <1>3 DEF SameRuns

\* A poll goes on, after its awaits and with what it has marked.
LEMMA PollContinues ==
  ASSUME DeskIInv, pollPc \in {"fetched", "removing"},
         NEW left \in SUBSET retries, NEW seen \in SUBSET Issues, NEW runs, SameRuns(runs),
         ContinuePoll(left, seen, runs),
         UNCHANGED <<tracker, active, paused, disposed>>,
         manualStops' \subseteq Running, terminalStops' \subseteq Running \cap over,
         dir' \in [Issues -> DirStates], \A i \in Issues : dir'[i] = "fresh" => dir[i] = "fresh",
         events' \in 0..MaxEvents,
         shown' \in {"no", "fetched", "board"}, mutation = "refreshing" => shown' = "board"
  PROVE  DeskIInv'
<1>1. /\ TypeOK /\ retries \subseteq Issues /\ left \subseteq Issues
      /\ \A i \in Issues : runs[i].pc = run[i].pc /\ runs[i].outcome = run[i].outcome
      /\ runs \in [Issues -> RunRecords] /\ NoIssue \notin Issues
  BY OrchestratorAssumptions DEF DeskIInv, TypeOK, SameRuns
<1>2. CASE RemovesNext(left, seen, runs)
  <2>1. PICK i \in left :
         /\ fetched[i] = "done" /\ pollPc' = "removing" /\ removing' = i /\ visited' = seen \cup {i}
         /\ retries' \subseteq left /\ due' \subseteq retries' /\ run' = runs
         /\ UNCHANGED <<over, dispatchEnabled, fetched, timer, joined, mutation>>
    BY <1>2 DEF RemovesNext
  <2>2. Running' = Running /\ i \in Issues /\ i # NoIssue
    BY <1>1, <2>1 DEF Running
  <2>3. TypeOK'
    BY <1>1, <2>1, <2>2 DEF TypeOK, WorkspaceTypeOK, Running
  <2>4. MarksOwned'
    BY <2>2 DEF MarksOwned
  <2>5. PollingArmed'
    BY <2>1 DEF DeskIInv, PollingArmed
  <2>6. RetriesRest' /\ WorkspaceExclusive'
    BY <1>1, <2>1, <2>2 DEF DeskIInv, RetriesRest, WorkspaceExclusive
  <2>7. FreshGuarded'
    BY <1>1, <2>1 DEF DeskIInv, FreshGuarded
  <2>8. FinishedIsOver'
    BY <1>1, <2>1, <2>2 DEF DeskIInv, FinishedIsOver, Finishing
  <2>9. MutationRead' /\ DisposedRests'
    BY <2>1 DEF DeskIInv, MutationRead, DisposedRests
  <2> QED
    BY <2>3, <2>4, <2>5, <2>6, <2>7, <2>8, <2>9 DEF DeskIInv
<1>3. ASSUME NEW L, Launched(L, left, runs) PROVE DeskIInv'
  <2>1. /\ L \subseteq Issues \ Running /\ L \subseteq Issues
        /\ retries' \subseteq left \ L /\ due' \subseteq retries'
        /\ run' = [i \in Issues |-> IF i \in L THEN Launch(i) ELSE runs[i]]
        /\ over' = over \ {i \in L : tracker[i] # "done"}
        /\ PollEnds
    BY <1>3 DEF Launched
  <2>2. /\ dispatchEnabled' \in BOOLEAN /\ timer' \in BOOLEAN /\ joined' \in BOOLEAN
        /\ pollPc' \in {"idle", "listing"} /\ removing' = NoIssue /\ fetched' = NothingRead /\ visited' = {}
        /\ mutation' \in {"none", "draining"} /\ PollingArmed'
    BY <1>1, <2>1, PollEndsRight DEF DeskIInv
  <2>3. /\ run' \in [Issues -> RunRecords]
        /\ \A i \in L : run'[i].pc = "prepare" /\ i \notin Running /\ run[i].pc = "idle"
        /\ \A i \in Issues : i \notin L => run'[i].pc = run[i].pc /\ run'[i].outcome = run[i].outcome
    <3>1. \A i \in Issues : run'[i] \in RunRecords
      BY <1>1, <2>1, LaunchRight
    <3>2. \A i \in L : run'[i].pc = "prepare"
      BY <1>1, <2>1, LaunchRight
    <3> QED
      BY <1>1, <2>1, <3>1, <3>2 DEF Running
  <2>4. TypeOK'
    <3>1. over' \subseteq Issues /\ retries' \subseteq Issues /\ manualStops' \subseteq Issues
          /\ terminalStops' \subseteq Issues /\ tracker' \in [Issues -> TrackerStates]
      BY <1>1, <2>1 DEF TypeOK, Running
    <3>2. {active', paused', disposed'} \subseteq BOOLEAN
      BY <1>1 DEF TypeOK
    <3> QED
      BY <2>1, <2>2, <2>3, <3>1, <3>2, NothingIsRead DEF TypeOK, WorkspaceTypeOK
  <2>5. MarksOwned'
    <3>1. Running \subseteq Running'
      BY <2>1, <2>3 DEF Running
    <3> QED
      BY <3>1 DEF MarksOwned
  <2>6. RetriesRest' /\ WorkspaceExclusive'
    BY <1>1, <2>1, <2>2, <2>3 DEF DeskIInv, RetriesRest, WorkspaceExclusive
  <2>7. FreshGuarded'
    <3>1. \A i \in L : dir[i] # "fresh"
      BY <2>1, <2>3 DEF DeskIInv, FreshGuarded, HookOwed
    <3> QED
      BY <2>3, <3>1 DEF DeskIInv, FreshGuarded
  <2>8. FinishedIsOver'
    <3>1. \A i \in Issues : i \in over /\ (i \notin L \/ tracker[i] = "done") => i \in over'
      BY <2>1
    <3>2. \A i \in Issues : Finishing(run'[i]) => i \notin L /\ Finishing(run[i])
      BY <2>3 DEF Finishing
    <3>3. \A i \in terminalStops' : i \notin L /\ i \in Issues
      BY <2>1 DEF Running
    <3> QED
      BY <2>2, <3>1, <3>2, <3>3, NothingIsRead DEF DeskIInv, FinishedIsOver
  <2>9. MutationRead' /\ DisposedRests'
    BY <2>2 DEF DeskIInv, MutationRead, DisposedRests
  <2> QED
    BY <2>2, <2>4, <2>5, <2>6, <2>7, <2>8, <2>9 DEF DeskIInv
<1> QED
  BY <1>1, <1>2, <1>3, ContinueShape

-----------------------------------------------------------------------------
(* Every step keeps the invariant *)

LEMMA ExecutionKeeps ==
  ASSUME DeskIInv, NEW i \in Issues, Execution(i)
  PROVE  DeskIInv'
<1>1. Executes(i)
  BY ExecutionExecutes DEF DeskIInv
<1>2. /\ RunMoves(i) /\ run[i].pc # "idle" /\ i \in Running
      /\ dir' \in [Issues -> DirStates] /\ \A j \in Issues : j # i => dir'[j] = dir[j]
      /\ run' \in [Issues -> RunRecords] /\ \A j \in Issues : j # i => run'[j] = run[j]
      /\ UNCHANGED <<pollPc, dispatchEnabled, fetched, removing, joined, tracker, over, mutation, shown,
                     active, paused, disposed>>
  BY <1>1 DEF Executes, RunMoves, ExecFrame, sourceVars, mutationVars, switchVars, Running
<1>3. TypeOK'
  <2>1. retries' \subseteq Issues /\ due' \subseteq retries' /\ visited' \subseteq Issues
    BY <1>2 DEF DeskIInv, TypeOK, RunMoves
  <2>2. manualStops' \subseteq Issues /\ terminalStops' \subseteq Issues /\ timer' \in BOOLEAN
        /\ events' \in 0..MaxEvents
    BY <1>1, <1>2 DEF DeskIInv, TypeOK, RunMoves, Executes
  <2>3. TypeOK
    BY DEF DeskIInv
  <2> QED
    BY <1>2, <2>1, <2>2, <2>3 DEF TypeOK, WorkspaceTypeOK
<1>4. MarksOwned'
  <2>1. \A j \in Running : j # i => j \in Running'
    BY <1>2 DEF Running
  <2>2. i \in manualStops' \cup terminalStops' => i \in Running'
    BY <1>2 DEF RunMoves, Running
  <2> QED
    BY <1>2, <2>1, <2>2 DEF DeskIInv, MarksOwned, RunMoves
<1>5. PollingArmed'
  BY <1>2 DEF DeskIInv, PollingArmed, RunMoves
<1>6. RetriesRest'
  <2>1. RetriesRest /\ retries \subseteq Issues
    BY DEF DeskIInv, TypeOK
  <2>2. CASE retries' = retries \cup {i} /\ run'[i].pc \in {"idle", "afterFinal"}
    BY <1>2, <2>1, <2>2 DEF RetriesRest
  <2>3. CASE retries' = retries /\ (run[i].pc = "afterFinal" => run'[i].pc = "idle")
    BY <1>2, <2>1, <2>3 DEF RetriesRest
  <2> QED
    BY <1>2, <2>2, <2>3 DEF RunMoves
<1>7. WorkspaceExclusive'
  <2>1. run[i].pc = "afterFinal" => run'[i].pc \in {"idle", "afterFinal"}
    BY <1>2 DEF RunMoves
  <2>2. removing # NoIssue => removing \in Issues
    BY DEF DeskIInv, TypeOK
  <2> QED
    BY <1>2, <2>1, <2>2 DEF DeskIInv, WorkspaceExclusive
<1>8. FreshGuarded'
  BY <1>1, <1>2 DEF DeskIInv, FreshGuarded, Executes
<1>9. FinishedIsOver'
  <2>1. terminalStops' \subseteq terminalStops
    BY <1>2 DEF RunMoves
  <2>2. Finishing(run'[i]) => i \in over
    BY <1>1 DEF DeskIInv, FinishedIsOver, Executes
  <2> QED
    BY <1>2, <2>1, <2>2 DEF DeskIInv, FinishedIsOver
<1>10. MutationRead' /\ DisposedRests'
  BY <1>2 DEF DeskIInv, MutationRead, DisposedRests
<1> QED
  BY <1>3, <1>4, <1>5, <1>6, <1>7, <1>8, <1>9, <1>10 DEF DeskIInv

\* What says nothing of the poll and the commands: they leave the workspaces and the executions alone.
StillExecuting == /\ UNCHANGED <<dir, run, retries, due, manualStops, terminalStops>>

\* The conjuncts about the executions, when none of them moves and the source is as it was.
LEMMA ExecutionsStay ==
  ASSUME DeskIInv, StillExecuting
  PROVE  /\ MarksOwned' /\ RetriesRest' /\ FreshGuarded'
         /\ UNCHANGED <<tracker, over, fetched, removing>> => FinishedIsOver'
         /\ UNCHANGED removing => WorkspaceExclusive'
<1> USE DEF StillExecuting
<1>1. Running' = Running
  BY DEF Running
<1> QED
  BY <1>1 DEF DeskIInv, MarksOwned, RetriesRest, FreshGuarded, FinishedIsOver, WorkspaceExclusive

\* A poll is started, or one that is running is to be followed by another.
LEMMA RefreshKeeps ==
  ASSUME DeskIInv, TimerFires \/ ClientRefreshes \/ RefreshOverview \/ RefreshAfterMutation
  PROVE  DeskIInv'
<1>1. /\ StillExecuting
      /\ UNCHANGED <<tracker, over, fetched, visited, removing, shown, active, paused, disposed>>
      /\ Event \/ Calm
  BY DEF TimerFires, ClientRefreshes, RefreshOverview, RefreshAfterMutation, StillExecuting,
         sourceVars, execVars, mutationVars, switchVars
<1>2. TypeOK /\ {dispatchEnabled, timer, joined, active, paused, disposed} \subseteq BOOLEAN
  BY DEF DeskIInv, TypeOK
<1>3. /\ dispatchEnabled' \in BOOLEAN /\ timer' \in BOOLEAN /\ joined' \in BOOLEAN
      /\ pollPc' = pollPc \/ (pollPc = "idle" /\ pollPc' = "listing")
      /\ mutation' \in {"none", "draining", "refreshing"}
      /\ mutation' = "refreshing" => mutation = "refreshing" \/ pollPc' = "listing"
      /\ PollingArmed'
  <2>1. PollingArmed /\ mutation \in {"none", "draining", "refreshing"}
    BY DEF DeskIInv, TypeOK
  <2>2. CASE TimerFires
    BY <1>2, <2>1, <2>2 DEF TimerFires, RefreshCall, StartPoll, PollingArmed, mutationVars, switchVars
  <2>3. CASE ClientRefreshes
    BY <1>2, <2>1, <2>3 DEF ClientRefreshes, RefreshCall, StartPoll, PollingArmed, mutationVars, switchVars
  <2>4. CASE RefreshOverview
    BY <1>2, <2>1, <2>4 DEF RefreshOverview, StartPoll, PollingArmed, mutationVars, switchVars
  <2>5. CASE RefreshAfterMutation
    BY <1>2, <2>1, <2>5 DEF RefreshAfterMutation, StartPoll, PollingArmed, switchVars
  <2> QED
    BY <2>2, <2>3, <2>4, <2>5
<1>4. events' \in 0..MaxEvents
  BY <1>1, <1>2, EventBounded
<1>5. TypeOK'
  BY <1>1, <1>2, <1>3, <1>4 DEF TypeOK, WorkspaceTypeOK, StillExecuting
<1>6. MarksOwned' /\ RetriesRest' /\ FreshGuarded' /\ FinishedIsOver' /\ WorkspaceExclusive'
  BY <1>1, ExecutionsStay
<1>7. MutationRead'
  BY <1>1, <1>3 DEF DeskIInv, MutationRead
<1>8. DisposedRests'
  BY <1>1 DEF DeskIInv, DisposedRests
<1> QED
  BY <1>3, <1>5, <1>6, <1>7, <1>8 DEF DeskIInv

LEMMA PollReadKeeps ==
  ASSUME DeskIInv, PollRead
  PROVE  DeskIInv'
<1>1. /\ StillExecuting /\ pollPc = "listing" /\ pollPc' = "fetched" /\ fetched' = tracker
      /\ shown' = IF shown = "no" THEN "fetched" ELSE shown
      /\ UNCHANGED <<tracker, over, dispatchEnabled, visited, removing, timer, joined, mutation,
                     active, paused, disposed>>
      /\ Calm
  BY DEF PollRead, StillExecuting, sourceVars, execVars, switchVars
<1>2. TypeOK'
  <2>1. events' \in 0..MaxEvents
    BY <1>1, EventBounded DEF DeskIInv
  <2> QED
    BY <1>1, <2>1 DEF DeskIInv, TypeOK, WorkspaceTypeOK, StillExecuting
<1>3. MarksOwned' /\ RetriesRest' /\ FreshGuarded' /\ WorkspaceExclusive'
  BY <1>1, ExecutionsStay
<1>4. PollingArmed' /\ MutationRead' /\ DisposedRests'
  BY <1>1 DEF DeskIInv, PollingArmed, MutationRead, DisposedRests
<1>5. FinishedIsOver'
  BY <1>1 DEF DeskIInv, FinishedIsOver, StillExecuting
<1> QED
  BY <1>2, <1>3, <1>4, <1>5 DEF DeskIInv

LEMMA PollFailsKeeps ==
  ASSUME DeskIInv, PollFails
  PROVE  DeskIInv'
<1>1. /\ StillExecuting /\ pollPc = "listing" /\ PollEnds /\ Event /\ TypeOK
      /\ UNCHANGED <<tracker, over, shown, active, paused, disposed>>
  BY DEF PollFails, StillExecuting, sourceVars, execVars, switchVars, DeskIInv
<1>2. /\ dispatchEnabled' \in BOOLEAN /\ timer' \in BOOLEAN /\ joined' \in BOOLEAN
      /\ pollPc' \in {"idle", "listing"} /\ removing' = NoIssue /\ fetched' = NothingRead /\ visited' = {}
      /\ mutation' \in {"none", "draining"} /\ PollingArmed'
  BY <1>1, PollEndsRight DEF DeskIInv
<1>3. TypeOK'
  <2>1. events' \in 0..MaxEvents
    BY <1>1, EventBounded
  <2> QED
    BY <1>1, <1>2, <2>1, NothingIsRead DEF TypeOK, WorkspaceTypeOK, StillExecuting
<1>4. MarksOwned' /\ RetriesRest' /\ FreshGuarded'
  BY <1>1, ExecutionsStay
<1>5. WorkspaceExclusive' /\ MutationRead' /\ DisposedRests'
  BY <1>1, <1>2 DEF DeskIInv, WorkspaceExclusive, MutationRead, DisposedRests
<1>6. FinishedIsOver'
  BY <1>1, <1>2, NothingIsRead DEF DeskIInv, FinishedIsOver, StillExecuting
<1> QED
  BY <1>2, <1>3, <1>4, <1>5, <1>6 DEF DeskIInv

LEMMA PollReconcileKeeps ==
  ASSUME DeskIInv, PollReconcile
  PROVE  DeskIInv'
<1>1. /\ pollPc = "fetched" /\ ContinuePoll(retries, {}, Synced) /\ MarkSynced /\ Calm /\ TypeOK
      /\ shown' = IF shown = "fetched" THEN "board" ELSE shown
      /\ UNCHANGED <<dir, tracker, active, paused, disposed>>
  BY DEF PollReconcile, switchVars, DeskIInv
<1>2. manualStops' \subseteq Running /\ terminalStops' \subseteq Running \cap over
  <2>1. \A i \in Issues : SyncVerdict(i) = "terminal" => i \in over
    BY DEF DeskIInv, FinishedIsOver, SyncVerdict
  <2>2. manualStops \cup terminalStops \subseteq Running /\ terminalStops \subseteq over /\ Running \subseteq Issues
    BY DEF DeskIInv, MarksOwned, FinishedIsOver, Running
  <2> QED
    BY <1>1, <2>1, <2>2 DEF MarkSynced
<1>3. SameRuns(Synced) /\ {} \in SUBSET Issues /\ retries \in SUBSET retries
  BY <1>1, SyncedRight
<1>4. shown' \in {"no", "fetched", "board"} /\ (mutation = "refreshing" => shown' = "board")
  BY <1>1 DEF DeskIInv, TypeOK, MutationRead
<1>5. events' \in 0..MaxEvents
  BY <1>1, EventBounded
<1>6. dir' \in [Issues -> DirStates] /\ \A i \in Issues : dir'[i] = "fresh" => dir[i] = "fresh"
  BY <1>1, SameDir
<1> QED
  BY <1>1, <1>2, <1>3, <1>4, <1>5, <1>6, PollContinues

LEMMA PollRemovedKeeps ==
  ASSUME DeskIInv, PollRemoved
  PROVE  DeskIInv'
<1>1. /\ pollPc = "removing" /\ TypeOK /\ removing \in Issues
      /\ UNCHANGED <<tracker, active, paused, disposed, manualStops, terminalStops, shown>>
      /\ Event \/ Calm
  BY DEF PollRemoved, switchVars, DeskIInv, TypeOK
<1>2. manualStops' \subseteq Running /\ terminalStops' \subseteq Running \cap over
  BY <1>1 DEF DeskIInv, MarksOwned, FinishedIsOver
<1>3. SameRuns(run) /\ visited \in SUBSET Issues
  BY <1>1 DEF SameRuns, TypeOK
<1>4. shown' \in {"no", "fetched", "board"} /\ (mutation = "refreshing" => shown' = "board")
  BY <1>1 DEF DeskIInv, TypeOK, MutationRead
<1>5. events' \in 0..MaxEvents
  BY <1>1, EventBounded
<1>6. dir' \in [Issues -> DirStates] /\ \A i \in Issues : dir'[i] = "fresh" => dir[i] = "fresh"
  <2>1. CASE RemoveTarget(removing)
    BY <1>1, <2>1, SetDirRight DEF RemoveTarget, DirStates
  <2>2. CASE UNCHANGED dir
    BY <1>1, <2>2, SameDir
  <2> QED
    BY <2>1, <2>2 DEF PollRemoved
<1>7. \E left \in SUBSET retries : ContinuePoll(left, visited, run)
  <2>1. retries \ {removing} \in SUBSET retries /\ retries \in SUBSET retries
    OBVIOUS
  <2> QED
    BY <2>1 DEF PollRemoved
<1>8. PICK left \in SUBSET retries : ContinuePoll(left, visited, run)
  BY <1>7
<1> QED
  BY <1>1, <1>2, <1>3, <1>4, <1>5, <1>6, <1>8, PollContinues

LEMMA RetryDueKeeps ==
  ASSUME DeskIInv, NEW i \in Issues, RetryDue(i)
  PROVE  DeskIInv'
<1>1. /\ i \in retries /\ due' = due \cup {i} /\ Calm /\ TypeOK
      /\ UNCHANGED <<dir, tracker, over, run, retries, manualStops, terminalStops, pollPc, dispatchEnabled, fetched,
                     visited, removing, timer, joined, mutation, shown, active, paused, disposed>>
  BY DEF RetryDue, sourceVars, pollVars, mutationVars, switchVars, DeskIInv
<1>2. TypeOK'
  BY <1>1, EventBounded DEF TypeOK, WorkspaceTypeOK
<1> QED
  BY <1>1, <1>2 DEF DeskIInv, MarksOwned, PollingArmed, WorkspaceExclusive, RetriesRest, FreshGuarded,
                    FinishedIsOver, MutationRead, DisposedRests, Running

\* An issue moves, and a mutation may begin with it.
LEMMA MovesKeep ==
  ASSUME DeskIInv, NEW i \in Issues, NEW s \in TrackerStates, TrackerMoves(i, s) \/ MutateTask(i, s)
  PROVE  DeskIInv'
<1>1. /\ StillExecuting /\ Moves(i, s) /\ TypeOK
      /\ UNCHANGED <<pollPc, dispatchEnabled, fetched, visited, removing, timer, joined, active, paused, disposed>>
      /\ \/ UNCHANGED <<mutation, shown>>
         \/ mutation' = "draining" /\ shown' = "no"
  BY DEF TrackerMoves, MutateTask, StillExecuting, execVars, pollVars, mutationVars, switchVars, DeskIInv
<1>2. /\ tracker' = [tracker EXCEPT ![i] = s] /\ Event
      /\ over' = IF s = "done" THEN over \cup {i} ELSE over
  BY <1>1 DEF Moves
<1>3. TypeOK'
  <2>1. events' \in 0..MaxEvents
    BY <1>1, <1>2, EventBounded
  <2>2. tracker' \in [Issues -> TrackerStates] /\ over' \subseteq Issues
    BY <1>1, <1>2 DEF TypeOK
  <2>3. mutation' \in {"none", "draining", "refreshing"} /\ shown' \in {"no", "fetched", "board"}
    BY <1>1 DEF TypeOK
  <2> QED
    BY <1>1, <2>1, <2>2, <2>3 DEF TypeOK, WorkspaceTypeOK, StillExecuting
<1>4. MarksOwned' /\ RetriesRest' /\ FreshGuarded' /\ WorkspaceExclusive'
  BY <1>1, ExecutionsStay
<1>5. FinishedIsOver'
  <2>1. over \subseteq over' /\ \A j \in Issues : tracker'[j] = "done" => tracker[j] = "done" \/ j \in over'
    BY <1>1, <1>2 DEF TypeOK
  <2> QED
    BY <1>1, <2>1 DEF DeskIInv, FinishedIsOver, StillExecuting
<1>6. PollingArmed' /\ MutationRead' /\ DisposedRests'
  BY <1>1 DEF DeskIInv, PollingArmed, MutationRead, DisposedRests
<1> QED
  BY <1>3, <1>4, <1>5, <1>6 DEF DeskIInv

\* Signals to abort go to executions; they stay where they are.
LEMMA AbortsKeep ==
  ASSUME DeskIInv, NEW ended \in SUBSET Issues,
         run' \in [Issues -> RunRecords],
         \A i \in Issues : run'[i].pc = run[i].pc /\ run'[i].outcome = run[i].outcome,
         ended \subseteq Running, manualStops' = manualStops \cup ended, Event,
         UNCHANGED <<dir, tracker, over, retries, due, terminalStops, pollPc, dispatchEnabled, fetched, visited,
                     removing, joined, mutation, shown, paused>>,
         UNCHANGED <<timer, active, disposed>> \/ (~active' /\ ~timer' /\ active' \in BOOLEAN /\ timer' \in BOOLEAN
                                                  /\ disposed' \in BOOLEAN)
  PROVE  DeskIInv'
<1>1. Running' = Running
  BY DEF Running
<1>2. TypeOK'
  <2>1. events' \in 0..MaxEvents
    BY EventBounded DEF DeskIInv
  <2>2. {timer', active', disposed'} \subseteq BOOLEAN
    BY DEF DeskIInv, TypeOK
  <2> QED
    BY <2>1, <2>2 DEF DeskIInv, TypeOK, WorkspaceTypeOK
<1>3. MarksOwned'
  BY <1>1 DEF DeskIInv, MarksOwned
<1>4. RetriesRest' /\ FreshGuarded'
  BY DEF DeskIInv, TypeOK, RetriesRest, FreshGuarded
<1>5. WorkspaceExclusive'
  BY DEF DeskIInv, TypeOK, WorkspaceExclusive
<1>6. FinishedIsOver'
  BY DEF DeskIInv, FinishedIsOver, Finishing
<1>7. PollingArmed' /\ MutationRead' /\ DisposedRests'
  BY DEF DeskIInv, PollingArmed, MutationRead, DisposedRests
<1> QED
  BY <1>2, <1>3, <1>4, <1>5, <1>6, <1>7 DEF DeskIInv

LEMMA StopsKeep ==
  ASSUME DeskIInv, Dispose \/ \E i \in Issues : StopIssue(i)
  PROVE  DeskIInv'
<1>1. run \in [Issues -> RunRecords] /\ Running \subseteq Issues
  BY DEF DeskIInv, TypeOK, Running
<1>2. CASE Dispose
  <2>1. /\ run' = [i \in Issues |-> [run[i] EXCEPT !.aborted = (i \in Running)]] /\ Event
        /\ disposed' = TRUE /\ active' = FALSE /\ timer' = FALSE
        /\ UNCHANGED <<dir, tracker, over, retries, due, manualStops, terminalStops, pollPc, dispatchEnabled, fetched,
                       visited, removing, joined, mutation, shown, paused>>
    BY <1>2 DEF Dispose, sourceVars, mutationVars
  <2>2. ASSUME NEW i \in Issues
        PROVE  run'[i] \in RunRecords /\ run'[i].pc = run[i].pc /\ run'[i].outcome = run[i].outcome
    <3> DEFINE b == i \in Running
    <3>1. b \in BOOLEAN /\ run[i] \in RunRecords /\ run'[i] = [run[i] EXCEPT !.aborted = b]
      BY <1>1, <2>1
    <3> HIDE DEF b
    <3> QED
      BY <3>1 DEF RunRecords
  <2>3. run' \in [Issues -> RunRecords]
    BY <2>1, <2>2
  <2>4. manualStops' = manualStops \cup {} /\ {} \in SUBSET Issues /\ {} \subseteq Running
    BY <2>1
  <2> QED
    BY <2>1, <2>2, <2>3, <2>4, AbortsKeep
<1>3. ASSUME NEW i \in Issues, StopIssue(i) PROVE DeskIInv'
  <2>1. /\ run' = [run EXCEPT ![i].aborted = TRUE] /\ Event
        /\ manualStops' = manualStops \cup {i} /\ i \in Running
        /\ UNCHANGED <<dir, tracker, over, retries, due, terminalStops, pollPc, dispatchEnabled, fetched, visited,
                       removing, joined, mutation, shown, paused, timer, active, disposed>>
    BY <1>3 DEF StopIssue, sourceVars, pollVars, mutationVars, switchVars
  <2> DEFINE r == [run[i] EXCEPT !.aborted = TRUE]
  <2>2. r \in RunRecords /\ r.pc = run[i].pc /\ r.outcome = run[i].outcome
    BY <1>1 DEF RunRecords
  <2>3. run' = [run EXCEPT ![i] = r]
    BY <2>1
  <2> HIDE DEF r
  <2>4. run' \in [Issues -> RunRecords]
        /\ \A j \in Issues : run'[j].pc = run[j].pc /\ run'[j].outcome = run[j].outcome
    BY <1>1, <2>2, <2>3
  <2>5. {i} \in SUBSET Issues /\ {i} \subseteq Running
    BY <2>1
  <2> QED
    BY <2>1, <2>4, <2>5, AbortsKeep
<1> QED
  BY <1>2, <1>3

LEMMA SwitchesKeep ==
  ASSUME DeskIInv, NEW b \in BOOLEAN, SetPaused(b) \/ SetActive(b)
  PROVE  DeskIInv'
<1>1. /\ StillExecuting /\ TypeOK /\ Event
      /\ UNCHANGED <<tracker, over, pollPc, dispatchEnabled, fetched, visited, removing, joined, mutation, shown,
                     disposed>>
  BY DEF SetPaused, SetActive, StillExecuting, sourceVars, execVars, mutationVars, DeskIInv
<1>2. {timer, active, paused, disposed} \subseteq BOOLEAN
  BY <1>1 DEF TypeOK
<1>3. /\ timer' \in BOOLEAN /\ active' \in BOOLEAN /\ paused' \in BOOLEAN
      /\ PollingArmed' /\ DisposedRests'
  <2>1. CASE SetPaused(b)
    BY <1>1, <1>2, <2>1 DEF SetPaused, DeskIInv, PollingArmed, DisposedRests
  <2>2. CASE SetActive(b)
    BY <1>1, <1>2, <2>2 DEF SetActive, DeskIInv, PollingArmed, DisposedRests
  <2> QED
    BY <2>1, <2>2
<1>4. TypeOK'
  <2>1. events' \in 0..MaxEvents
    BY <1>1, EventBounded
  <2> QED
    BY <1>1, <1>3, <2>1 DEF TypeOK, WorkspaceTypeOK, StillExecuting
<1>5. MarksOwned' /\ RetriesRest' /\ FreshGuarded' /\ WorkspaceExclusive' /\ FinishedIsOver'
  BY <1>1, ExecutionsStay
<1>6. MutationRead'
  BY <1>1 DEF DeskIInv, MutationRead
<1> QED
  BY <1>3, <1>4, <1>5, <1>6 DEF DeskIInv

LEMMA RestartKeeps ==
  ASSUME DeskIInv, Restart
  PROVE  DeskIInv'
<1>1. /\ dir' = [i \in Issues |-> IF dir[i] = "fresh" THEN "cut" ELSE dir[i]]
      /\ run' = [i \in Issues |-> Idle] /\ Event
      /\ retries' = {} /\ due' = {} /\ manualStops' = {} /\ terminalStops' = {}
      /\ pollPc' = "idle" /\ dispatchEnabled' = FALSE /\ fetched' = NothingRead
      /\ visited' = {} /\ removing' = NoIssue
      /\ timer' = TRUE /\ joined' = FALSE
      /\ mutation' = "none" /\ shown' = "board"
      /\ active' = TRUE /\ paused' = FALSE /\ disposed' = FALSE
      /\ UNCHANGED <<tracker, over>>
  BY DEF Restart, sourceVars
<1>2. \A i \in Issues : run'[i].pc = "idle"
  BY <1>1, IdleRecord
<1>3. TypeOK'
  <2>1. events' \in 0..MaxEvents
    BY <1>1, EventBounded DEF DeskIInv
  <2>2. dir' \in [Issues -> DirStates] /\ run' \in [Issues -> RunRecords]
    BY <1>1, IdleRecord DEF DeskIInv, TypeOK, WorkspaceTypeOK, DirStates
  <2>3. tracker' \in [Issues -> TrackerStates] /\ over' \subseteq Issues
    BY <1>1 DEF DeskIInv, TypeOK
  <2> QED
    BY <1>1, <2>1, <2>2, <2>3, NothingIsRead DEF TypeOK, WorkspaceTypeOK
<1>4. MarksOwned' /\ PollingArmed' /\ WorkspaceExclusive' /\ RetriesRest' /\ MutationRead' /\ DisposedRests'
  BY <1>1 DEF MarksOwned, PollingArmed, WorkspaceExclusive, RetriesRest, MutationRead, DisposedRests
<1>5. FreshGuarded'
  BY <1>1 DEF FreshGuarded
<1>6. FinishedIsOver'
  BY <1>1, <1>2, NothingIsRead DEF DeskIInv, FinishedIsOver, Finishing
<1> QED
  BY <1>3, <1>4, <1>5, <1>6 DEF DeskIInv

LEMMA StutterKeeps ==
  ASSUME DeskIInv, UNCHANGED vars
  PROVE  DeskIInv'
<1> USE DEF vars, sourceVars, execVars, pollVars, mutationVars, switchVars
<1>1. TypeOK'
  BY DEF DeskIInv, TypeOK, WorkspaceTypeOK
<1>2. StillExecuting /\ UNCHANGED <<tracker, over, fetched, removing>>
  BY DEF StillExecuting
<1>3. MarksOwned' /\ RetriesRest' /\ FreshGuarded' /\ WorkspaceExclusive' /\ FinishedIsOver'
  BY <1>2, ExecutionsStay
<1>4. PollingArmed' /\ MutationRead' /\ DisposedRests'
  BY DEF DeskIInv, PollingArmed, MutationRead, DisposedRests
<1> QED
  BY <1>1, <1>3, <1>4 DEF DeskIInv

LEMMA DeskStep ==
  ASSUME DeskIInv, [Next]_vars
  PROVE  DeskIInv'
<1>1. CASE Next
  <2>1. CASE Poll
    <3>1. CASE TimerFires \/ RefreshAfterMutation
      BY <3>1, RefreshKeeps
    <3>2. CASE \E i \in Issues : RetryDue(i)
      BY <3>2, RetryDueKeeps
    <3> QED
      BY <2>1, <3>1, <3>2, PollReadKeeps, PollFailsKeeps, PollReconcileKeeps, PollRemovedKeeps DEF Poll
  <2>2. CASE \E i \in Issues : Execution(i)
    BY <2>2, ExecutionKeeps
  <2>3. CASE \E i \in Issues, s \in TrackerStates : TrackerMoves(i, s) \/ MutateTask(i, s)
    BY <2>3, MovesKeep
  <2>4. CASE ClientRefreshes \/ RefreshOverview
    BY <2>4, RefreshKeeps
  <2>5. CASE Dispose \/ \E i \in Issues : StopIssue(i)
    BY <2>5, StopsKeep
  <2>6. CASE \E b \in BOOLEAN : SetPaused(b) \/ SetActive(b)
    BY <2>6, SwitchesKeep
  <2> QED
    BY <1>1, <2>1, <2>2, <2>3, <2>4, <2>5, <2>6, RestartKeeps DEF Next
<1> QED
  BY <1>1, StutterKeeps

LEMMA DeskInductive == Spec => []DeskIInv
  BY DeskStarts, DeskStep, PTL DEF Spec

(* The desk in every state, for any number of issues (IssueOrchestrator's poll, execute and reconcileRuntime): *)
(* stop marks belong to a run, polling goes on, and nobody uses a workspace against another.                   *)
THEOREM DeskInvHolds == Spec => []DeskInv
  BY DeskInductive, DeskIInvSuffices, PTL

-----------------------------------------------------------------------------
(* What no step does *)

\* A step that launches nothing, removes nothing that is not over and answers no mutation from before it.
StepsRight ==
  /\ LaunchesOwned /\ LaunchesWithinCapacity /\ OnlyFinishedRemoved /\ MutationOnBoard

LaunchesNothing == \A i \in Issues : ~Launches(i)

LEMMA NothingLaunched ==
  ASSUME LaunchesNothing
  PROVE  LaunchesOwned /\ LaunchesWithinCapacity
  BY DEF LaunchesNothing, LaunchesOwned, LaunchesWithinCapacity

LEMMA ExecutionRight ==
  ASSUME DeskIInv, NEW i \in Issues, Execution(i)
  PROVE  StepsRight
<1>1. Executes(i)
  BY ExecutionExecutes DEF DeskIInv
<1>2. LaunchesNothing
  BY <1>1 DEF LaunchesNothing, Launches, Executes, RunMoves
<1>3. OnlyFinishedRemoved
  <2>1. run[i].pc = "beforeRemove" => i \in over
    BY DEF DeskIInv, FinishedIsOver, Finishing
  <2> QED
    BY <1>1, <2>1 DEF OnlyFinishedRemoved, Executes
<1>4. MutationOnBoard
  BY <1>1 DEF MutationOnBoard, Executes, ExecFrame, mutationVars
<1> QED
  BY <1>2, <1>3, <1>4, NothingLaunched DEF StepsRight

LEMMA DispatchRight ==
  ASSUME DeskIInv, PollReconcile \/ PollRemoved
  PROVE  StepsRight
<1>1. TypeOK /\ MutationRead /\ DisposedRests
  BY DEF DeskIInv
<1>2. /\ \/ /\ pollPc = "fetched" /\ UNCHANGED dir
           /\ shown' = IF shown = "fetched" THEN "board" ELSE shown
        \/ /\ pollPc = "removing" /\ UNCHANGED shown
           /\ UNCHANGED dir \/ RemoveTarget(removing)
      /\ \E left, seen, runs : SameRuns(runs) /\ ContinuePoll(left, seen, runs)
  <2>1. CASE PollReconcile
    <3>1. SameRuns(Synced)
      BY <1>1, SyncedRight
    <3> QED
      BY <2>1, <3>1 DEF PollReconcile
  <2>2. CASE PollRemoved
    <3>1. SameRuns(run)
      BY <1>1 DEF SameRuns, TypeOK
    <3>2. \E left : ContinuePoll(left, visited, run)
      BY <2>2 DEF PollRemoved
    <3>3. pollPc = "removing" /\ UNCHANGED shown /\ (UNCHANGED dir \/ RemoveTarget(removing))
      BY <2>2 DEF PollRemoved
    <3> QED
      BY <3>1, <3>2, <3>3
  <2> QED
    BY <2>1, <2>2
<1>3. PICK left, seen, runs : SameRuns(runs) /\ ContinuePoll(left, seen, runs)
  BY <1>2
<1>4. OnlyFinishedRemoved
  <2>1. CASE UNCHANGED dir
    BY <2>1 DEF OnlyFinishedRemoved
  <2>2. CASE pollPc = "removing" /\ RemoveTarget(removing)
    <3>1. removing \in Issues /\ removing \in over
      BY <1>1, <2>2 DEF TypeOK, DeskIInv, FinishedIsOver
    <3>2. \A j \in Issues : j # removing => dir'[j] = dir[j]
      BY <1>1, <2>2, <3>1, SetDirRight DEF RemoveTarget, DirStates
    <3> QED
      BY <3>1, <3>2 DEF OnlyFinishedRemoved
  <2> QED
    BY <1>2, <2>1, <2>2
<1>5. mutation = "refreshing" => shown' = "board"
  BY <1>1, <1>2 DEF TypeOK, MutationRead
<1>6. CASE RemovesNext(left, seen, runs)
  <2>1. run' = runs /\ UNCHANGED mutation
    BY <1>6 DEF RemovesNext
  <2>2. LaunchesNothing
    BY <1>3, <2>1 DEF SameRuns, LaunchesNothing, Launches
  <2> QED
    BY <1>4, <2>1, <2>2, NothingLaunched DEF StepsRight, MutationOnBoard
<1>7. ASSUME NEW L, Launched(L, left, runs) PROVE StepsRight
  <2>1. /\ L \subseteq Issues \ Running /\ (L # {} => MayDispatch) /\ PollEnds
        /\ run' = [i \in Issues |-> IF i \in L THEN Launch(i) ELSE runs[i]]
    BY <1>7 DEF Launched
  <2>2. \A i \in Issues : runs[i].pc = run[i].pc
    BY <1>3 DEF SameRuns
  <2>3. /\ \A i \in L : run'[i].pc = "prepare" /\ run'[i].seen = fetched[i]
        /\ \A i \in Issues : i \notin L => run'[i] = runs[i]
    BY <1>1, <2>1, LaunchRight
  <2>4. \A i \in Issues : Launches(i) => i \in L
    BY <2>2, <2>3 DEF Launches
  <2>5. LaunchesOwned
    BY <1>1, <2>1, <2>4 DEF LaunchesOwned, MayDispatch, DisposedRests
  <2>6. Running' = Running \cup L
    BY <2>1, <2>2, <2>3 DEF Running
  <2>7. LaunchesWithinCapacity
    <3>1. SUFFICES ASSUME NEW i \in Issues, Launches(i)
                   PROVE  /\ Cardinality(Running') <= MaxConcurrent
                          /\ Cardinality({j \in Running' : run'[j].seen = run'[i].seen})
                               <= StateLimit[run'[i].seen]
      BY DEF LaunchesWithinCapacity
    <3>2. i \in L /\ run'[i].seen = fetched[i]
      BY <2>3, <2>4, <3>1
    <3>3. /\ Cardinality(Running \cup L) <= MaxConcurrent
          /\ Cardinality(CountedIn(fetched[i], runs) \cup {j \in L : fetched[j] = fetched[i]})
               <= StateLimit[fetched[i]]
      BY <1>7, <3>2 DEF Launched
    <3>4. {j \in Running' : run'[j].seen = fetched[i]}
            = CountedIn(fetched[i], runs) \cup {j \in L : fetched[j] = fetched[i]}
      <4>1. \A j \in Running : j \in Issues /\ run'[j] = runs[j]
        BY <2>1, <2>3 DEF Running
      <4> QED
        BY <2>3, <2>6, <4>1 DEF CountedIn
    <3> QED
      BY <2>6, <3>2, <3>3, <3>4
  <2>8. MutationOnBoard
    BY <1>1, <1>5, <2>1 DEF MutationOnBoard, PollEnds, TypeOK
  <2> QED
    BY <1>4, <2>5, <2>7, <2>8 DEF StepsRight
<1> QED
  BY <1>1, <1>3, <1>6, <1>7, ContinueShape

\* Everything else launches nothing and leaves the workspaces, or loses all executions.
LEMMA OthersRight ==
  ASSUME DeskIInv,
         \/ TimerFires \/ PollRead \/ PollFails \/ RefreshAfterMutation \/ ClientRefreshes \/ RefreshOverview
         \/ Dispose \/ Restart
         \/ \E i \in Issues : RetryDue(i) \/ StopIssue(i)
         \/ \E i \in Issues, s \in TrackerStates : TrackerMoves(i, s) \/ MutateTask(i, s)
         \/ \E b \in BOOLEAN : SetPaused(b) \/ SetActive(b)
         \/ UNCHANGED vars
  PROVE  StepsRight
<1>1. TypeOK /\ run \in [Issues -> RunRecords]
  BY DEF DeskIInv, TypeOK
<1>2. LaunchesNothing
  <2>1. SUFFICES \A i \in Issues : run'[i].pc \in {run[i].pc, "idle"}
    BY DEF LaunchesNothing, Launches
  <2>2. CASE UNCHANGED run
    BY <2>2
  <2>3. CASE Dispose
    BY <1>1, <2>3 DEF Dispose, RunRecords
  <2>4. CASE Restart
    BY <2>4, IdleRecord DEF Restart
  <2>5. CASE \E i \in Issues : StopIssue(i)
    BY <1>1, <2>5 DEF StopIssue, RunRecords
  <2> QED
    BY <2>2, <2>3, <2>4, <2>5 DEF TimerFires, PollRead, PollFails, RefreshAfterMutation, ClientRefreshes,
       RefreshOverview, RetryDue, TrackerMoves, MutateTask, SetPaused, SetActive, vars, execVars
<1>3. OnlyFinishedRemoved
  <2>1. CASE UNCHANGED dir
    BY <2>1 DEF OnlyFinishedRemoved
  <2>2. CASE Restart
    BY <2>2 DEF Restart, OnlyFinishedRemoved
  <2> QED
    BY <2>1, <2>2 DEF TimerFires, PollRead, PollFails, RefreshAfterMutation, ClientRefreshes,
       RefreshOverview, RetryDue, TrackerMoves, MutateTask, SetPaused, SetActive, StopIssue, Dispose, vars
<1>4. MutationOnBoard
  <2>1. CASE UNCHANGED mutation \/ mutation' = "draining" \/ pollPc = "listing" \/ shown' = "board"
    BY <2>1 DEF MutationOnBoard
  <2>2. CASE RefreshAfterMutation
    BY <2>2 DEF RefreshAfterMutation, MutationOnBoard
  <2>3. CASE \E i \in Issues, s \in TrackerStates : TrackerMoves(i, s) \/ MutateTask(i, s)
    BY <2>1, <2>3 DEF TrackerMoves, MutateTask, mutationVars
  <2> QED
    BY <2>1, <2>2, <2>3 DEF TimerFires, PollRead, PollFails, ClientRefreshes,
       RefreshOverview, RetryDue, SetPaused, SetActive, StopIssue, Dispose, Restart, vars, mutationVars
<1> QED
  BY <1>2, <1>3, <1>4, NothingLaunched DEF StepsRight

LEMMA DeskStepRight ==
  ASSUME DeskIInv, [Next]_vars
  PROVE  StepsRight
<1>1. CASE Next
  <2>1. CASE \E i \in Issues : Execution(i)
    BY <2>1, ExecutionRight
  <2>2. CASE PollReconcile \/ PollRemoved
    BY <2>2, DispatchRight
  <2> QED
    BY <1>1, <2>1, <2>2, OthersRight DEF Next, Poll
<1>2. CASE UNCHANGED vars
  BY <1>2, OthersRight
<1> QED
  BY <1>1, <1>2

(* No step launches an agent for a desk that stopped or above its capacity, removes the workspace of an issue  *)
(* that was not over, or answers a mutation with a board from before it (dispatch, remove, refreshAfterMutation *)
(* of orchestrator.ts).                                                                                         *)
THEOREM DeskStepsHold == Spec => DeskSteps
<1>1. DeskIInv /\ [Next]_vars => [LaunchesOwned /\ LaunchesWithinCapacity /\ OnlyFinishedRemoved /\ MutationOnBoard]_vars
  BY DeskStepRight DEF StepsRight
<1> QED
  BY <1>1, DeskInductive, PTL DEF Spec, DeskSteps

-----------------------------------------------------------------------------
(* Agent sessions *)

\* What the fields of a session hold, beyond SessionTypeOK.
SessionTypes ==
  /\ kind \in SessionKinds /\ at \in SessionAwaits
  /\ session \in {"none", "live", "canceled", "disposed"}
  /\ hears \subseteq {"entry", "abort", "stop", "events", "member"}
  /\ aborted \in BOOLEAN /\ stopped \in BOOLEAN /\ turn \in 0..SessionTurns
  /\ reported \in {"none", "succeeded", "failed"}
  /\ calls \in Seq({"succeeded", "failed", "other"})
  /\ used \in [spent : Nat, counted : Nat]

\* Before its first prompt an agent of an issue has had no turn, and it waits
\* for another one only while it may have one; no other agent has a loop.
TurnsLeft ==
  /\ at \in {"called", "presets", "create", "board", "spawn", "watch", "idle", "render"} => turn = 0
  /\ at = "delay" => turn < SessionTurns
  /\ at \in {"idle", "render", "refresh", "delay"} => kind = "issue"

\* A call that has not gone on has left nothing, nor has one that is done.
CallEnds ==
  /\ at = "called" => session = "none" /\ hears = {} /\ used.spent = 0
  /\ at = "done" => ~Up /\ hears = {}

\* The worker of a task listens to its session as long as that can use tokens,
\* so that what is counted is what was used.
TokensCounted ==
  /\ used.counted <= used.spent
  /\ kind = "task" => used.counted = used.spent
  /\ kind = "task" /\ at = "turn" => "events" \in hears

\* The report the call has is the first one its agent gave.
FirstReported == reported # "none" => calls # <<>> /\ Head(calls) = reported

\* What the worker of a task answers in the end is what its fields say.
TaskAnswered ==
  at = "done" /\ kind = "task" =>
    \/ answer.kind = "rejected"
    \/ answer.kind = "aborted" /\ answer.tokens = used.spent
    \/ answer = OfWorker

SessionIInv ==
  /\ SessionTypes /\ TurnsLeft /\ CallEnds /\ TokensCounted
  /\ FirstReported /\ TaskAnswered /\ NoStrayTurn

LEMMA SessionBegins == SessionInit => SessionIInv
<1> SUFFICES ASSUME SessionInit PROVE SessionIInv
  OBVIOUS
<1> USE SessionConstants DEF SessionInit, Up
<1>1. calls \in Seq({"succeeded", "failed", "other"}) /\ used \in [spent : Nat, counted : Nat]
  OBVIOUS
<1>2. turn \in 0..SessionTurns
  OBVIOUS
<1>4. SessionTypes
  BY ONLY <1>1, <1>2, SessionInit DEF SessionInit, SessionTypes, SessionAwaits
<1>3. /\ TurnsLeft /\ CallEnds /\ TokensCounted
      /\ FirstReported /\ TaskAnswered /\ NoStrayTurn
  BY DEF TurnsLeft, CallEnds, TokensCounted, FirstReported, TaskAnswered, NoStrayTurn
<1> QED
  BY <1>3, <1>4 DEF SessionIInv

LEMMA SessionKept ==
  ASSUME SessionIInv, [SessionNext]_sessionVars
  PROVE  SessionIInv'
<1> USE SessionConstants
<1> USE DEF SessionIInv, SessionTypes, TurnsLeft, CallEnds, TokensCounted, FirstReported, TaskAnswered, NoStrayTurn,
            SessionAwaits, Up, OfWorker, Answer, Stay, Outside
<1>1. CASE Called
  BY <1>1 DEF Called
<1>2. CASE Presets
  BY <1>2 DEF Presets, Leave
<1>3. CASE Created
  BY <1>3 DEF Created, Leave, Refused, Prompt, Thrown
<1>4. CASE Idles
  BY <1>4 DEF Idles
<1>5. CASE Flushed
  BY <1>5 DEF Flushed, Leave, Thrown
<1>6. CASE Refreshed
  BY <1>6 DEF Refreshed, Leave
<1>7. CASE NextTurn
  <2>1. CASE Leave("rejected") /\ UNCHANGED <<turn, strays>>
    BY <1>7, <2>1 DEF NextTurn, Leave
  <2>2. CASE at = "idle" /\ at' = "render" /\ UNCHANGED <<hears, answer, turn, strays>>
    BY <1>7, <2>2 DEF NextTurn
  <2>3. CASE at = "delay" /\ ~aborted /\ Prompt /\ UNCHANGED <<hears, answer>>
    <3>1. at' = "turn" /\ turn' = turn + 1 /\ turn + 1 \in 0..SessionTurns /\ strays' = strays
      BY <2>3 DEF Prompt
    <3>2. SessionTypes' /\ TurnsLeft'
      BY <1>7, <2>3, <3>1 DEF NextTurn
    <3>3. CallEnds' /\ TokensCounted'
      BY <1>7, <2>3, <3>1 DEF NextTurn
    <3>4. FirstReported' /\ TaskAnswered' /\ NoStrayTurn'
      BY <1>7, <2>3, <3>1 DEF NextTurn
    <3> QED
      BY <3>2, <3>3, <3>4
  <2> QED
    BY <1>7, <2>1, <2>2, <2>3 DEF NextTurn, MayGoOn
<1>8. CASE Rendered
  <2>1. CASE Prompt /\ UNCHANGED <<hears, answer>>
    <3>1. at' = "turn" /\ turn' = turn + 1 /\ turn + 1 \in 0..SessionTurns /\ strays' \subseteq {"render"}
      BY <1>8, <2>1 DEF Rendered, Prompt
    <3>2. SessionTypes' /\ TurnsLeft'
      BY <1>8, <2>1, <3>1 DEF Rendered
    <3>3. CallEnds' /\ TokensCounted'
      BY <1>8, <2>1, <3>1 DEF Rendered
    <3>4. FirstReported' /\ TaskAnswered' /\ NoStrayTurn'
      BY <1>8, <2>1, <3>1 DEF Rendered
    <3> QED
      BY <3>2, <3>3, <3>4
  <2>2. CASE Leave("rejected") /\ UNCHANGED <<turn, strays>>
    BY <1>8, <2>2 DEF Rendered, Leave
  <2> QED
    BY <1>8, <2>1, <2>2 DEF Rendered
<1>9. CASE TeamTask
  BY <1>9 DEF TeamTask, Leave
<1>10. CASE Spawned
  BY <1>10 DEF Spawned, Leave
<1>11. CASE Watched
  BY <1>11 DEF Watched, Leave
<1>12. CASE Final
  BY <1>12 DEF Final, FinalFails
<1>13. CASE End
  BY <1>13 DEF End, Thrown
<1>14. CASE Abort
  BY <1>14 DEF Abort, Cancel
<1>15. CASE Stop
  BY <1>15 DEF Stop, Cancel
<1>16. CASE Report
  BY <1>16 DEF Report, Accepted
<1>17. CASE Uses
  BY <1>17 DEF Uses
<1>18. CASE UNCHANGED sessionVars
  BY <1>18 DEF sessionVars
<1> QED
  BY <1>1, <1>2, <1>3, <1>4, <1>5, <1>6, <1>7, <1>8, <1>9, <1>10, <1>11, <1>12, <1>13, <1>14, <1>15, <1>16, <1>17, <1>18 DEF SessionNext

LEMMA SessionsAreEnded == SessionIInv => SessionsInv
  BY DEF SessionIInv, SessionTypes, CallEnds, TokensCounted, FirstReported, TaskAnswered, OfWorker,
         SessionsInv, SessionTypeOK, NothingLeft, AbortDecides, FirstReportCounts, UsageAnswered

\* Whatever fails, is aborted, stopped or reported while a session is run, its
\* call leaves nothing, counts what was used, and answers with the first report
\* of its agent or with the abort (SessionsInv).
THEOREM SessionsInvHolds == SessionSpec => []SessionsInv
<1>1. SessionInit => SessionIInv
  BY SessionBegins
<1>2. SessionIInv /\ [SessionNext]_sessionVars => SessionIInv'
  BY SessionKept
<1>3. SessionIInv => SessionsInv
  BY SessionsAreEnded
<1> QED
  BY <1>1, <1>2, <1>3, PTL DEF SessionSpec

-----------------------------------------------------------------------------
(* Remote sources: an issue as it is read *)

ReadIssues == [state : AllColumns, dispatchable : BOOLEAN]

LEMMA TerminalIsDone == \A c : IsTerminal(c) <=> c = "done"
<1> TAKE c
<1>1. DOMAIN TerminalColumns = {1} /\ TerminalColumns[1] = "done"
  BY DEF TerminalColumns
<1> QED
  BY <1>1 DEF IsTerminal, Some

LEMMA NamedAreColumns == \A l : Named(l) \subseteq AllColumns
<1> SUFFICES ASSUME NEW l PROVE Named(l) \subseteq AllColumns
  OBVIOUS
<1>1. DOMAIN StateLabels \subseteq AllColumns
  BY DEF StateLabels, AllColumns
<1>2. DOMAIN Columns = 1..3 /\ \A k \in 1..3 : Columns[k] \in AllColumns
  BY DEF Columns, AllColumns
<1>3. ASSUME Some(Columns, LAMBDA s : s \in l)
      PROVE  First(Columns, LAMBDA s : s \in l) \in AllColumns
  <2> DEFINE P(k) == k \in 1..3 /\ Columns[k] \in l
  <2>1. \E k \in 1..3 : Columns[k] \in l
    BY <1>2, <1>3 DEF Some
  <2>2. \E k \in 1..3 : Columns[k] \in l /\ \A j \in 1..(k - 1) : ~(Columns[j] \in l)
    <3>1. CASE Columns[1] \in l
      BY <3>1
    <3>2. CASE Columns[1] \notin l /\ Columns[2] \in l
      BY <3>2
    <3>3. CASE Columns[1] \notin l /\ Columns[2] \notin l
      BY <3>3, <2>1
    <3> QED
      BY <3>1, <3>2, <3>3
  <2> QED
    BY <1>2, <2>2 DEF First
<1> QED
  BY <1>1, <1>3 DEF Named

LEMMA FallbackIsColumn ==
  /\ \A c : Fallback(c) \in AllColumns
  /\ Fallback(TRUE) = "done"
  BY DEF Fallback, TerminalColumns, ActiveColumns, AllColumns

LEMMA OneIsNamed == \A l : \A r, s \in Named(l) : r = s
  BY DEF Named, StateLabels

LEMMA LabelStateIsColumn ==
  ASSUME NEW c \in BOOLEAN, NEW l
  PROVE  /\ LabelState(c, l) \in AllColumns
         /\ c => LabelState(c, l) = "done"
<1>1. LabelState(c, l) \in AllColumns
  BY NamedAreColumns, FallbackIsColumn DEF LabelState
<1>2. ASSUME c PROVE LabelState(c, l) = "done"
  BY <1>2, TerminalIsDone, OneIsNamed, FallbackIsColumn DEF LabelState
<1> QED
  BY <1>1, <1>2

LEMMA IssuesAreRead ==
  ASSUME NEW p \in Providers, NEW raw \in RawEntries, NEW e
  PROVE  /\ IssueOf(p, raw, e) \in ReadIssues
         /\ p \in FiltersItself => IssueOf(p, raw, e).state = raw.column
         /\ p \in {"asana", "github", "gitlab"} /\ raw.closed => IssueOf(p, raw, e).state = "done"
<1>1. /\ raw.closed \in BOOLEAN /\ raw.column \in AllColumns
      /\ Assigned(raw, e) \in BOOLEAN
  BY DEF RawEntries, Assigned
<1>2. /\ LabelState(raw.closed, raw.labels) \in AllColumns
      /\ raw.closed => LabelState(raw.closed, raw.labels) = "done"
  BY <1>1, LabelStateIsColumn
<1>3. /\ Fallback(raw.closed) \in AllColumns
      /\ raw.closed => Fallback(raw.closed) = "done"
  BY <1>1, FallbackIsColumn
<1>4. CASE p = "linear"
  BY <1>1, <1>4 DEF IssueOf, LinearIssue, ReadIssues, FiltersItself
<1>5. CASE p = "jira"
  BY <1>1, <1>5 DEF IssueOf, JiraIssue, ReadIssues, FiltersItself
<1>6. CASE p = "asana"
  BY <1>1, <1>3, <1>6 DEF IssueOf, AsanaTask, ReadIssues, FiltersItself
<1>7. CASE p = "github"
  BY <1>1, <1>2, <1>7 DEF IssueOf, GitHubIssue, ReadIssues, FiltersItself
<1>8. CASE p = "gitlab"
  BY <1>1, <1>2, <1>8 DEF IssueOf, GitLabIssue, ReadIssues, FiltersItself
<1> QED
  BY <1>4, <1>5, <1>6, <1>7, <1>8 DEF Providers

LEMMA ClosedIsOverAlways == ClosedIsOver
<1>1. {"asana", "github", "gitlab"} \subseteq Providers
  BY DEF Providers
<1> QED
  BY <1>1, IssuesAreRead, TerminalIsDone DEF ClosedIsOver

-----------------------------------------------------------------------------
(* Ranks: how many elements of a finite set come before one in an order *)

\* R orders S: of two elements one is before the other, and none before itself.
Orders(R, S) ==
  /\ \A x \in S : <<x, x>> \notin R
  /\ \A x, y \in S : x # y => <<x, y>> \in R \/ <<y, x>> \in R
  /\ \A x, y, z \in S : <<x, y>> \in R /\ <<y, z>> \in R => <<x, z>> \in R

RankIn(x, S, R) == Cardinality({y \in S : <<y, x>> \in R})

LEMMA RanksFollow ==
  ASSUME NEW S, IsFiniteSet(S), NEW R, Orders(R, S)
  PROVE  /\ Cardinality(S) \in Nat
         /\ \A x \in S : RankIn(x, S, R) \in 0..(Cardinality(S) - 1)
         /\ \A x, y \in S : <<x, y>> \in R <=> RankIn(x, S, R) < RankIn(y, S, R)
         /\ \A n \in 0..(Cardinality(S) - 1) : \E x \in S : RankIn(x, S, R) = n
<1> DEFINE Less(x) == {y \in S : <<y, x>> \in R}
<1>1. Cardinality(S) \in Nat
  BY FS_CardinalityType
<1>2. \A x : IsFiniteSet(Less(x)) /\ Cardinality(Less(x)) \in Nat
  BY FS_Subset, FS_CardinalityType
<1>3. ASSUME NEW x \in S PROVE RankIn(x, S, R) \in 0..(Cardinality(S) - 1)
  <2>1. Less(x) \subseteq S /\ Less(x) # S
    BY DEF Orders
  <2>2. Cardinality(Less(x)) <= Cardinality(S) /\ Cardinality(Less(x)) # Cardinality(S)
    BY <2>1, FS_Subset
  <2> QED
    BY <1>1, <1>2, <2>2 DEF RankIn
<1>4. ASSUME NEW x \in S, NEW y \in S, <<x, y>> \in R PROVE RankIn(x, S, R) < RankIn(y, S, R)
  <2>1. Less(x) \subseteq Less(y) /\ Less(x) # Less(y)
    BY <1>4 DEF Orders
  <2>2. RankIn(x, S, R) = Cardinality(Less(x)) /\ RankIn(y, S, R) = Cardinality(Less(y))
    BY DEF RankIn
  <2> HIDE DEF Less
  <2>3. Cardinality(Less(x)) <= Cardinality(Less(y)) /\ Cardinality(Less(x)) # Cardinality(Less(y))
    BY <1>2, <2>1, FS_Subset
  <2> QED
    BY <1>2, <2>2, <2>3
<1>5. ASSUME NEW x \in S, NEW y \in S PROVE <<x, y>> \in R <=> RankIn(x, S, R) < RankIn(y, S, R)
  <2>1. RankIn(x, S, R) \in Int /\ RankIn(y, S, R) \in Int
    BY <1>1, <1>3
  <2>2. CASE <<x, y>> \in R
    BY <1>4, <2>2
  <2>3. CASE <<y, x>> \in R
    <3>1. RankIn(y, S, R) < RankIn(x, S, R)
      BY <1>4, <2>3
    <3>2. <<x, y>> \notin R
      BY <2>3 DEF Orders
    <3> QED
      BY <2>1, <3>1, <3>2
  <2>4. CASE x = y
    BY <2>1, <2>4 DEF Orders
  <2> QED
    BY <2>2, <2>3, <2>4 DEF Orders
<1>6. ASSUME NEW n \in 0..(Cardinality(S) - 1) PROVE \E x \in S : RankIn(x, S, R) = n
  <2> DEFINE T == 0..(Cardinality(S) - 1)
             f == [x \in S |-> RankIn(x, S, R)]
  <2>1. IsFiniteSet(T) /\ Cardinality(T) = Cardinality(S)
    BY <1>1, FS_Interval
  <2>2. f \in [S -> T]
    BY <1>3
  <2>3. \A x, y \in S : x # y => f[x] # f[y]
    <3> SUFFICES ASSUME NEW x \in S, NEW y \in S, x # y PROVE f[x] # f[y]
      OBVIOUS
    <3>1. f[x] = RankIn(x, S, R) /\ f[y] = RankIn(y, S, R)
      OBVIOUS
    <3>2. RankIn(x, S, R) \in Int /\ RankIn(y, S, R) \in Int
      BY <1>1, <1>3
    <3>3. <<x, y>> \in R \/ <<y, x>> \in R
      BY DEF Orders
    <3>4. RankIn(x, S, R) < RankIn(y, S, R) \/ RankIn(y, S, R) < RankIn(x, S, R)
      BY <1>4, <3>3
    <3> QED
      BY <3>1, <3>2, <3>4
  <2>4. f \in Injection(S, T)
    <3> HIDE DEF f
    <3> QED
      BY <2>2, <2>3 DEF Injection, IsInjective
  <2>5. f \in Surjection(S, T)
    <3> HIDE DEF f, T
    <3> QED
      BY <2>1, <2>4, FS_Injection
  <2>6. \E x \in S : f[x] = n
    <3> HIDE DEF f
    <3> QED
      BY <2>5 DEF Surjection
  <2> QED
    BY <2>6
<1> QED
  BY <1>1, <1>3, <1>5, <1>6

\* The rank of an entry among those listed, which come newest first.
LEMMA NewerRanks ==
  ASSUME NEW S \in SUBSET Nat, IsFiniteSet(S)
  PROVE  /\ Cardinality(S) \in Nat
         /\ \A i \in S : NewerThan(i, S) \in 0..(Cardinality(S) - 1)
         /\ \A i, j \in S : i > j <=> NewerThan(i, S) < NewerThan(j, S)
         /\ \A n \in 0..(Cardinality(S) - 1) : \E i \in S : NewerThan(i, S) = n
<1> DEFINE R == {p \in Nat \X Nat : p[1] > p[2]}
<1>1. \A i, j \in Nat : <<i, j>> \in R <=> i > j
  OBVIOUS
<1>2. Orders(R, S)
  BY <1>1 DEF Orders
<1>3. \A i \in S : RankIn(i, S, R) = NewerThan(i, S)
  <2> SUFFICES ASSUME NEW i \in S PROVE RankIn(i, S, R) = NewerThan(i, S)
    OBVIOUS
  <2>1. {j \in S : <<j, i>> \in R} = {j \in S : j > i}
    BY <1>1
  <2> HIDE DEF R
  <2> QED
    BY <2>1 DEF RankIn, NewerThan
<1> HIDE DEF R
<1>4. /\ Cardinality(S) \in Nat
      /\ \A i \in S : RankIn(i, S, R) \in 0..(Cardinality(S) - 1)
      /\ \A i, j \in S : <<i, j>> \in R <=> RankIn(i, S, R) < RankIn(j, S, R)
      /\ \A n \in 0..(Cardinality(S) - 1) : \E i \in S : RankIn(i, S, R) = n
  BY <1>2, RanksFollow
<1>5. \A i, j \in S : i > j <=> NewerThan(i, S) < NewerThan(j, S)
  <2> SUFFICES ASSUME NEW i \in S, NEW j \in S PROVE i > j <=> NewerThan(i, S) < NewerThan(j, S)
    OBVIOUS
  <2>1. i > j <=> <<i, j>> \in R
    BY <1>1
  <2>2. <<i, j>> \in R <=> RankIn(i, S, R) < RankIn(j, S, R)
    BY <1>4
  <2>3. RankIn(i, S, R) = NewerThan(i, S) /\ RankIn(j, S, R) = NewerThan(j, S)
    BY <1>3
  <2> QED
    BY <2>1, <2>2, <2>3
<1>6. \A n \in 0..(Cardinality(S) - 1) : \E i \in S : NewerThan(i, S) = n
  BY <1>3, <1>4
<1> QED
  BY <1>3, <1>4, <1>5, <1>6

\* More entries, no lower rank.
LEMMA RanksGrow ==
  ASSUME NEW S, NEW T, S \subseteq T, IsFiniteSet(T), NEW i
  PROVE  NewerThan(i, S) \in Nat /\ NewerThan(i, T) \in Nat /\ NewerThan(i, S) <= NewerThan(i, T)
<1> DEFINE A == {j \in S : j > i}
           B == {j \in T : j > i}
<1>1. A \subseteq B /\ B \subseteq T
  OBVIOUS
<1>2. IsFiniteSet(B)
  BY <1>1, FS_Subset
<1>3. IsFiniteSet(A) /\ Cardinality(A) <= Cardinality(B)
  BY <1>1, <1>2, FS_Subset
<1> QED
  BY <1>2, <1>3, FS_CardinalityType DEF NewerThan

\* A page that an entry is still behind is full.
LEMMA PageIsFull ==
  ASSUME NEW S \in SUBSET Nat, IsFiniteSet(S), NEW a \in Nat, NEW n \in Nat,
         NEW i \in S, NewerThan(i, S) >= a + n
  PROVE  Cardinality({j \in S : NewerThan(j, S) \in a..(a + n - 1)}) = n
<1> DEFINE Q == {j \in S : NewerThan(j, S) \in a..(a + n - 1)}
           T == a..(a + n - 1)
           f == [j \in Q |-> NewerThan(j, S)]
<1>1. /\ Cardinality(S) \in Nat
      /\ \A k \in S : NewerThan(k, S) \in 0..(Cardinality(S) - 1)
      /\ \A k, j \in S : k > j <=> NewerThan(k, S) < NewerThan(j, S)
      /\ \A m \in 0..(Cardinality(S) - 1) : \E k \in S : NewerThan(k, S) = m
  BY NewerRanks
<1>2. IsFiniteSet(T) /\ Cardinality(T) = n
  BY FS_Interval
<1>3. f \in [Q -> T]
  OBVIOUS
<1>4. \A k, j \in Q : f[k] = f[j] => k = j
  <2> SUFFICES ASSUME NEW k \in Q, NEW j \in Q, NewerThan(k, S) = NewerThan(j, S) PROVE k = j
    OBVIOUS
  <2>1. ~(k > j) /\ ~(j > k) /\ k \in Nat /\ j \in Nat
    BY <1>1
  <2> QED
    BY <2>1
<1>5. \A m \in T : \E k \in Q : f[k] = m
  <2> SUFFICES ASSUME NEW m \in T PROVE \E k \in Q : f[k] = m
    OBVIOUS
  <2>1. m \in 0..(Cardinality(S) - 1)
    BY <1>1
  <2>2. PICK k \in S : NewerThan(k, S) = m
    BY <1>1, <2>1
  <2> QED
    BY <2>2
<1> HIDE DEF f, Q, T
<1>6. f \in Injection(Q, T) /\ f \in Surjection(Q, T)
  BY <1>3, <1>4, <1>5 DEF Injection, IsInjective, Surjection
<1>7. Cardinality(Q) = Cardinality(T)
  BY <1>2, <1>6, FS_Injection
<1> QED
  BY <1>2, <1>7 DEF Q

\* What is not among the newest is older than all of them.
LEMMA NewestFirst ==
  ASSUME NEW S \in SUBSET Nat, IsFiniteSet(S), NEW n \in Nat \ {0}, NEW i \in S
  PROVE  LET first == {j \in S : NewerThan(j, S) < n} IN
           /\ first # {}
           /\ i \notin first => \A j \in first : i < j
<1> DEFINE first == {j \in S : NewerThan(j, S) < n}
<1>1. /\ Cardinality(S) \in Nat
      /\ \A k \in S : NewerThan(k, S) \in 0..(Cardinality(S) - 1)
      /\ \A k, j \in S : k > j <=> NewerThan(k, S) < NewerThan(j, S)
      /\ \A m \in 0..(Cardinality(S) - 1) : \E k \in S : NewerThan(k, S) = m
  BY NewerRanks
<1>2. PICK k \in S : NewerThan(k, S) = 0
  BY <1>1
<1>3. k \in first
  BY <1>2
<1>4. ASSUME i \notin first, NEW j \in first PROVE i < j
  <2>1. NewerThan(j, S) \in Nat /\ NewerThan(i, S) \in Nat /\ ~(NewerThan(i, S) < n) /\ NewerThan(j, S) < n
    BY <1>1, <1>4
  <2>2. NewerThan(j, S) < NewerThan(i, S)
    BY <2>1
  <2> QED
    BY <1>1, <2>2
<1> QED
  BY <1>3, <1>4

-----------------------------------------------------------------------------
(* Remote sources: what a walk has still to read *)

RemoteWalks ==
  [pc : {"off", "viewer", "pages", "refs", "done", "failed"}, expected : Assignees,
   wanted : SUBSET AllColumns, refs : SUBSET Nat, todo : SUBSET Nat, page : 1..MaxPages,
   after : Nat, got : SUBSET [id : Nat, issue : ReadIssues]]

RemoteTypes ==
  /\ provider \in Providers /\ assignee \in Assignees
  /\ created \in 0..Len(Kind) /\ Held \subseteq 1..created
  /\ \A i \in Held : entries[i] \in RawEntries
  /\ walk \in RemoteWalks
  /\ tool \in [pc : {"off", "check", "call"}, id : Nat, outside : BOOLEAN]
  /\ changes \in 0..MaxChanges /\ unchanged \subseteq Held
  /\ shifted \in BOOLEAN /\ strayed \in BOOLEAN

\* A walk that has not asked for a page is at its beginning, and what is looked
\* up one by one is not nothing.
WalkBegins ==
  /\ walk.pc = "viewer" => walk.got = {} /\ walk.page = 1 /\ walk.after = 0 /\ walk.todo = walk.refs
  /\ walk.pc = "refs" => walk.refs # {}

\* An issue the walk is to return, as it is now; it is in what was read, or it
\* comes after the pages that were read.
Sought(i) ==
  /\ i \in unchanged /\ i \in InPlace
  /\ Kind[i] = "issue" /\ (walk.refs = {} \/ i \in walk.refs)
  /\ IssueOf(provider, entries[i], walk.expected).state \in walk.wanted
GotRead(i) == [id |-> i, issue |-> IssueOf(provider, entries[i], walk.expected)] \in walk.got
AheadOfWalk(i) ==
  /\ provider \in Numbered => NewerThan(i, ListedEntries) >= (walk.page - 1) * PageSize
  /\ provider \notin Numbered => walk.after = 0 \/ i < walk.after

\* Nothing is missed, but by numbered pages when an entry has left the list.
NothingMissed ==
  ~(provider \in Numbered /\ shifted) =>
    \A i : Sought(i) =>
      /\ walk.pc = "pages" => GotRead(i) \/ AheadOfWalk(i)
      /\ walk.pc = "refs" => GotRead(i) \/ i \in walk.todo
      /\ walk.pc = "done" => GotRead(i)

\* An issue that was in no or another project when a tool was called still is,
\* and the tool goes on with it only at Linear.
ToolStays ==
  /\ tool.pc # "off" => tool.id \in 1..created /\ (tool.outside => tool.id \notin InPlace)
  /\ tool.pc = "call" /\ provider # "linear" => ~tool.outside
  /\ strayed => provider = "linear"

RemoteIInv == RemoteTypes /\ WalkBegins /\ NothingMissed /\ ToolStays

LEMMA ListedFinite ==
  ASSUME RemoteTypes
  PROVE  /\ Held \subseteq Nat /\ InPlace \subseteq Held /\ ListedEntries \subseteq InPlace
         /\ IsFiniteSet(ListedEntries) /\ ListedEntries \in SUBSET Nat
<1>1. IsFiniteSet(1..created) /\ 1..created \subseteq Nat
  BY RemoteAssumptions, FS_Interval DEF RemoteTypes
<1>2. InPlace \subseteq Held /\ ListedEntries \subseteq InPlace /\ Held \subseteq 1..created
  BY DEF InPlace, ListedEntries, RemoteTypes
<1>3. IsFiniteSet(ListedEntries)
  BY <1>1, <1>2, FS_Subset
<1> QED
  BY <1>1, <1>2, <1>3

LEMMA PagesAreDecoded ==
  ASSUME RemoteTypes, NEW page \in SUBSET Held
  PROVE  /\ Decoded(page) \subseteq [id : Nat, issue : ReadIssues]
         /\ \A i \in page : i \in InPlace /\ Kind[i] = "issue" =>
              [id |-> i, issue |-> IssueOf(provider, entries[i], walk.expected)] \in Decoded(page)
<1>1. ASSUME NEW i \in page
      PROVE  Normalized(provider, i, entries[i], walk.expected) \subseteq [id : Nat, issue : ReadIssues]
  <2>1. i \in Nat /\ entries[i] \in RawEntries /\ provider \in Providers
    BY ListedFinite DEF RemoteTypes
  <2>2. IssueOf(provider, entries[i], walk.expected) \in ReadIssues
    BY <2>1, IssuesAreRead
  <2> QED
    BY <2>1, <2>2 DEF Normalized
<1>2. ASSUME NEW i \in page, i \in InPlace, Kind[i] = "issue"
      PROVE  Normalized(provider, i, entries[i], walk.expected)
               = {[id |-> i, issue |-> IssueOf(provider, entries[i], walk.expected)]}
  <2>1. entries[i].place = "here"
    BY <1>2 DEF InPlace
  <2> QED
    BY <1>2, <2>1 DEF Normalized
<1> QED
  BY <1>1, <1>2 DEF Decoded

\* Whatever becomes of the entries while a walk stands still, it misses nothing:
\* an issue that stays as it was is as far behind those listed before it as ever.
LEMMA TrackerKeeps ==
  ASSUME RemoteTypes, RemoteTypes', NothingMissed, UNCHANGED <<provider, walk>>,
         unchanged' \subseteq unchanged,
         \A i \in unchanged' : entries'[i] = entries[i],
         provider \in Numbered /\ ~shifted' => ~shifted /\ InPlace \subseteq InPlace'
  PROVE  NothingMissed'
<1> SUFFICES ASSUME ~(provider \in Numbered /\ shifted'), NEW i, Sought(i)'
             PROVE  /\ walk.pc = "pages" => GotRead(i)' \/ AheadOfWalk(i)'
                    /\ walk.pc = "refs" => GotRead(i)' \/ i \in walk.todo
                    /\ walk.pc = "done" => GotRead(i)'
  BY DEF NothingMissed
<1>1. i \in unchanged' /\ i \in unchanged /\ entries'[i] = entries[i] /\ i \in Held
  BY DEF Sought, RemoteTypes
<1>2. i \in InPlace
  BY <1>1 DEF Sought, InPlace
<1>3. Sought(i)
  BY <1>1, <1>2 DEF Sought
<1>4. GotRead(i)' <=> GotRead(i)
  BY <1>1 DEF GotRead
<1>5. AheadOfWalk(i) => AheadOfWalk(i)'
  <2>1. CASE provider \notin Numbered
    BY <2>1 DEF AheadOfWalk
  <2>2. CASE provider \in Numbered
    <3>1. InPlace \subseteq InPlace'
      BY <2>2
    <3>2. provider \notin FiltersItself
      BY <2>2 DEF Numbered, FiltersItself
    <3>3. ListedEntries \subseteq ListedEntries'
      BY <3>1, <3>2 DEF ListedEntries
    <3>4. IsFiniteSet(ListedEntries')
      <4>1. IsFiniteSet(1..created')
        BY RemoteAssumptions, FS_Interval DEF RemoteTypes
      <4>2. ListedEntries' \subseteq 1..created'
        BY DEF RemoteTypes, ListedEntries, InPlace
      <4> QED
        BY <4>1, <4>2, FS_Subset
    <3>5. NewerThan(i, ListedEntries) \in Nat /\ NewerThan(i, ListedEntries') \in Nat
          /\ NewerThan(i, ListedEntries) <= NewerThan(i, ListedEntries')
      BY <3>3, <3>4, RanksGrow
    <3>6. PageSize \in Nat /\ walk.page \in Nat
      BY RemoteAssumptions DEF RemoteTypes, RemoteWalks
    <3>7. (walk.page - 1) * PageSize \in Int
      BY <3>6
    <3>8. NewerThan(i, ListedEntries)' = NewerThan(i, ListedEntries')
      OBVIOUS
    <3> QED
      BY <2>2, <3>5, <3>7, <3>8 DEF AheadOfWalk
  <2> QED
    BY <2>1, <2>2
<1> QED
  BY <1>3, <1>4, <1>5 DEF NothingMissed

LEMMA SoughtIsListed ==
  ASSUME RemoteTypes, NEW i, Sought(i)
  PROVE  i \in ListedEntries /\ i \in Held /\ i \in Nat
<1>1. i \in InPlace /\ i \in Held /\ i \in Nat /\ Kind[i] = "issue" /\ (walk.refs # {} => i \in walk.refs)
  BY ListedFinite DEF Sought
<1>2. provider \in FiltersItself => entries[i].column \in walk.wanted
  <2>1. entries[i] \in RawEntries /\ provider \in Providers
    BY <1>1 DEF RemoteTypes
  <2> QED
    BY <2>1, IssuesAreRead DEF Sought
<1> QED
  BY <1>1, <1>2 DEF ListedEntries

\* What a page holds, and what it leaves ahead.
LEMMA PageReads ==
  ASSUME RemoteTypes, walk.pc = "pages"
  PROVE  /\ Page \subseteq ListedEntries
         /\ Page # {} => Oldest(Page) \in Page
         /\ \A i \in ListedEntries : AheadOfWalk(i) /\ i \notin Page =>
              /\ provider \in Numbered => /\ NewerThan(i, ListedEntries) >= walk.page * PageSize
                                          /\ Cardinality(Page) = PageSize
              /\ provider \notin Numbered => Page # {} /\ i < Oldest(Page) /\ MoreFollow
<1> DEFINE a == (walk.page - 1) * PageSize
           rest == {i \in ListedEntries : walk.after = 0 \/ i < walk.after}
<1>1. IsFiniteSet(ListedEntries) /\ ListedEntries \in SUBSET Nat
  BY ListedFinite
<1>2. PageSize \in Nat \ {0} /\ walk.page \in Nat \ {0} /\ walk.after \in Nat
  BY RemoteAssumptions DEF RemoteTypes, RemoteWalks
<1>3. a \in Nat /\ walk.page * PageSize = a + PageSize
  BY <1>2
<1>4. Page \subseteq ListedEntries
  BY DEF Page, NumberedPage, MarkedPage
<1>5. ASSUME Page # {} PROVE Oldest(Page) \in Page /\ \A j \in Page : Oldest(Page) <= j
  <2>1. IsFiniteSet(Page) /\ Page \in SUBSET Nat
    BY <1>1, <1>4, FS_Subset
  <2>2. /\ Cardinality(Page) \in Nat
        /\ \A i \in Page : NewerThan(i, Page) \in 0..(Cardinality(Page) - 1)
        /\ \A i, j \in Page : i > j <=> NewerThan(i, Page) < NewerThan(j, Page)
        /\ \A n \in 0..(Cardinality(Page) - 1) : \E i \in Page : NewerThan(i, Page) = n
    BY <2>1, NewerRanks
  <2>3. PICK i \in Page : NewerThan(i, Page) = Cardinality(Page) - 1
    BY <1>5, <2>2
  <2>4. \A j \in Page : i <= j
    <3> SUFFICES ASSUME NEW j \in Page PROVE i <= j
      OBVIOUS
    <3>1. ~(NewerThan(i, Page) < NewerThan(j, Page))
      BY <2>2, <2>3
    <3>2. ~(i > j) /\ i \in Nat /\ j \in Nat
      BY <2>1, <2>2, <3>1
    <3> QED
      BY <3>2
  <2> QED
    BY <2>4 DEF Oldest
<1>6. ASSUME NEW i \in ListedEntries, AheadOfWalk(i), i \notin Page, provider \in Numbered
      PROVE  NewerThan(i, ListedEntries) >= walk.page * PageSize /\ Cardinality(Page) = PageSize
  <2>1. NewerThan(i, ListedEntries) \in Nat
    BY <1>1, NewerRanks
  <2>2. Page = {j \in ListedEntries : NewerThan(j, ListedEntries) \in a..(a + PageSize - 1)}
    <3>1. a + PageSize - 1 = walk.page * PageSize - 1
      BY <1>2, <1>3
    <3>2. Page = {j \in ListedEntries : NewerThan(j, ListedEntries) \in a..(walk.page * PageSize - 1)}
      BY <1>6 DEF Page, NumberedPage
    <3> QED
      BY <3>1, <3>2
  <2>3. NewerThan(i, ListedEntries) >= a
    BY <1>6 DEF AheadOfWalk
  <2> HIDE DEF a
  <2>4. ~(NewerThan(i, ListedEntries) \in a..(a + PageSize - 1))
    BY <1>6, <2>2
  <2>5. NewerThan(i, ListedEntries) >= a + PageSize
    BY <1>2, <1>3, <2>1, <2>3, <2>4
  <2>6. Cardinality(Page) = PageSize
    BY <1>1, <1>2, <1>3, <2>2, <2>5, PageIsFull
  <2> QED
    BY <1>3, <2>5, <2>6
<1>7. ASSUME NEW i \in ListedEntries, AheadOfWalk(i), i \notin Page, provider \notin Numbered
      PROVE  Page # {} /\ i < Oldest(Page) /\ MoreFollow
  <2>1. Page = {j \in rest : NewerThan(j, rest) < PageSize}
    BY <1>7 DEF Page, MarkedPage
  <2>2. IsFiniteSet(rest) /\ rest \in SUBSET Nat
    BY <1>1, FS_Subset
  <2>3. i \in rest
    BY <1>7 DEF AheadOfWalk
  <2> HIDE DEF rest
  <2>4. Page # {} /\ \A j \in Page : i < j
    BY <1>2, <1>7, <2>1, <2>2, <2>3, NewestFirst
  <2> QED
    BY <1>4, <1>5, <1>7, <2>4 DEF MoreFollow
<1> QED
  BY <1>4, <1>5, <1>6, <1>7

LEMMA PageKeepsAll ==
  ASSUME RemoteIInv, NEW more \in BOOLEAN, PageArrives(more)
  PROVE  RemoteIInv'
<1> DEFINE read == walk.got \cup Decoded(Page)
<1>1. /\ walk.pc = "pages" /\ RemoteTypes
      /\ UNCHANGED <<provider, assignee, entries, created, tool, changes, unchanged, shifted, strayed>>
  BY DEF PageArrives, WalkFrame, Fixed, RemoteIInv
<1>10. InPlace' = InPlace /\ Held' = Held
  BY <1>1 DEF InPlace, Held
<1>2. /\ Page \subseteq ListedEntries /\ Page \subseteq Held
      /\ Page # {} => Oldest(Page) \in Nat
  BY <1>1, PageReads, ListedFinite
<1>3. read \in SUBSET [id : Nat, issue : ReadIssues]
  BY <1>1, <1>2, PagesAreDecoded DEF RemoteTypes, RemoteWalks
<1>4. ASSUME NEW i, Sought(i), GotRead(i) \/ i \in Page
      PROVE  [id |-> i, issue |-> IssueOf(provider, entries[i], walk.expected)] \in read
  <2>1. i \in InPlace /\ Kind[i] = "issue"
    BY <1>4 DEF Sought
  <2> QED
    BY <1>1, <1>2, <1>4, <2>1, PagesAreDecoded DEF GotRead
<1>5. ASSUME ~(provider \in Numbered /\ shifted), NEW i, Sought(i)
      PROVE  GotRead(i) \/ AheadOfWalk(i)
  BY <1>1, <1>5 DEF RemoteIInv, NothingMissed
<1>6. PICK got : got = read
  OBVIOUS
<1> HIDE DEF read
<1>7. CASE LastPage(Page, more)
  <2>1. walk' = [walk EXCEPT !.pc = "done", !.got = InWanted(got)]
    BY <1>6, <1>7 DEF PageArrives, read
  <2>2. InWanted(got) \in SUBSET [id : Nat, issue : ReadIssues]
    BY <1>3, <1>6 DEF InWanted
  <2>3. /\ walk' \in RemoteWalks /\ walk'.pc = "done" /\ walk'.got = InWanted(got)
        /\ walk'.expected = walk.expected /\ walk'.refs = walk.refs /\ walk'.wanted = walk.wanted
    BY <1>1, <2>1, <2>2 DEF RemoteTypes, RemoteWalks
  <2>4. NothingMissed'
    <3> SUFFICES ASSUME ~(provider \in Numbered /\ shifted), NEW i, Sought(i)'
                 PROVE  GotRead(i)'
      BY <1>1, <2>3 DEF NothingMissed
    <3>1. Sought(i)
      BY <1>1, <1>10, <2>3 DEF Sought
    <3>2. i \in ListedEntries
      BY <1>1, <3>1, SoughtIsListed
    <3>3. GotRead(i) \/ i \in Page
      <4> SUFFICES ASSUME ~GotRead(i), i \notin Page PROVE FALSE
        OBVIOUS
      <4>1. AheadOfWalk(i)
        BY <1>5, <3>1
      <4>2. CASE provider \in Numbered
        <5>1. Cardinality(Page) = PageSize
          BY <1>1, <3>2, <4>1, <4>2, PageReads
        <5> QED
          BY <1>7, <4>2, <5>1, RemoteAssumptions DEF LastPage
      <4>3. CASE provider \notin Numbered
        <5>1. MoreFollow
          BY <1>1, <3>2, <4>1, <4>3, PageReads
        <5> QED
          BY <1>7, <4>3, <5>1 DEF LastPage, PageArrives
      <4> QED
        BY <4>2, <4>3
    <3>4. [id |-> i, issue |-> IssueOf(provider, entries[i], walk.expected)] \in InWanted(got)
      <4>1. IssueOf(provider, entries[i], walk.expected).state \in walk.wanted
        BY <3>1 DEF Sought
      <4>2. [id |-> i, issue |-> IssueOf(provider, entries[i], walk.expected)] \in got
        BY <1>4, <1>6, <3>1, <3>3
      <4> QED
        BY <4>1, <4>2 DEF InWanted
    <3> QED
      BY <1>1, <2>3, <3>4 DEF GotRead
  <2> QED
    BY <1>1, <2>3, <2>4 DEF RemoteIInv, RemoteTypes, WalkBegins, ToolStays, Held, InPlace
<1>8. CASE ~LastPage(Page, more) /\ walk.page = MaxPages
  <2>1. walk' = [walk EXCEPT !.pc = "failed", !.got = {}]
    BY <1>8 DEF PageArrives
  <2>2. walk' \in RemoteWalks /\ walk'.pc = "failed"
    BY <1>1, <2>1 DEF RemoteTypes, RemoteWalks
  <2> QED
    BY <1>1, <2>2 DEF RemoteIInv, RemoteTypes, WalkBegins, NothingMissed, ToolStays, Held, InPlace
<1>9. CASE ~LastPage(Page, more) /\ walk.page # MaxPages
  <2>1. PICK after : after = IF Page = {} THEN walk.after ELSE Oldest(Page)
    OBVIOUS
  <2>2. walk' = [walk EXCEPT !.page = walk.page + 1, !.got = got, !.after = after]
    BY <1>6, <1>9, <2>1 DEF PageArrives, read
  <2>3. after \in Nat /\ walk.page + 1 \in 1..MaxPages /\ got \in SUBSET [id : Nat, issue : ReadIssues]
    BY <1>1, <1>2, <1>3, <1>6, <1>9, <2>1, RemoteAssumptions DEF RemoteTypes, RemoteWalks
  <2>4. /\ walk' \in RemoteWalks /\ walk'.pc = "pages" /\ walk'.got = got
        /\ walk'.page = walk.page + 1 /\ walk'.after = after
        /\ walk'.expected = walk.expected /\ walk'.refs = walk.refs /\ walk'.wanted = walk.wanted
    BY <1>1, <2>2, <2>3 DEF RemoteTypes, RemoteWalks
  <2>5. NothingMissed'
    <3> SUFFICES ASSUME ~(provider \in Numbered /\ shifted), NEW i, Sought(i)'
                 PROVE  GotRead(i)' \/ AheadOfWalk(i)'
      BY <1>1, <2>4 DEF NothingMissed
    <3>1. Sought(i)
      BY <1>1, <1>10, <2>4 DEF Sought
    <3>2. i \in ListedEntries
      BY <1>1, <3>1, SoughtIsListed
    <3>3. CASE GotRead(i) \/ i \in Page
      <4>1. [id |-> i, issue |-> IssueOf(provider, entries[i], walk.expected)] \in got
        BY <1>4, <1>6, <3>1, <3>3
      <4> QED
        BY <1>1, <2>4, <4>1 DEF GotRead
    <3>4. CASE ~GotRead(i) /\ i \notin Page
      <4>1. AheadOfWalk(i)
        BY <1>5, <3>1, <3>4
      <4>2. ListedEntries' = ListedEntries
        BY <1>1, <1>10, <2>4 DEF ListedEntries
      <4>3. NewerThan(i, ListedEntries)' = NewerThan(i, ListedEntries)
        BY <4>2 DEF NewerThan
      <4>4. walk.page \in Nat /\ walk'.page - 1 = walk.page
        BY <1>1, <2>4, RemoteAssumptions DEF RemoteTypes, RemoteWalks
      <4>5. CASE provider \in Numbered
        BY <1>1, <3>2, <3>4, <4>1, <4>3, <4>4, <4>5, PageReads DEF AheadOfWalk
      <4>6. CASE provider \notin Numbered
        <5>1. Page # {} /\ i < Oldest(Page)
          BY <1>1, <3>2, <3>4, <4>1, <4>6, PageReads
        <5> QED
          BY <1>1, <2>1, <2>4, <4>6, <5>1 DEF AheadOfWalk
      <4> QED
        BY <4>5, <4>6
    <3> QED
      BY <3>3, <3>4
  <2> QED
    BY <1>1, <2>4, <2>5 DEF RemoteIInv, RemoteTypes, WalkBegins, ToolStays, Held, InPlace
<1> QED
  BY <1>7, <1>8, <1>9

LEMMA WalkStepsKeepAll ==
  ASSUME RemoteIInv,
         \/ \E wanted \in {AllColumns, {"todo"}} : ListBegins(wanted)
         \/ \E refs \in SUBSET (1..created) \ {{}} : LookupBegins(refs)
         \/ ViewerKnown \/ QueryArrives \/ RequestFails
         \/ \E i \in Entries : RefArrives(i)
  PROVE  RemoteIInv'
<1> USE DEF RemoteIInv
<1>1. ASSUME NEW pc \in {"pages", "refs"}, NEW wanted \in SUBSET AllColumns, NEW refs \in SUBSET Nat,
             pc = "refs" => refs # {}, Begins(pc, wanted, refs)
      PROVE  RemoteIInv'
  <2>1. PICK p : p = IF assignee = "me" /\ provider # "gitlab" THEN "viewer" ELSE pc
    OBVIOUS
  <2>2. walk' = [pc |-> p, expected |-> assignee, wanted |-> wanted, refs |-> refs, todo |-> refs,
                 page |-> 1, after |-> 0, got |-> {}]
    BY <1>1, <2>1 DEF Begins, NoWalk
  <2>3. /\ UNCHANGED <<provider, assignee, entries, created, tool, strayed>>
        /\ unchanged' = Held /\ shifted' = FALSE /\ changes' \in 0..MaxChanges
        /\ Held' = Held /\ InPlace' = InPlace
    BY <1>1, RemoteAssumptions DEF Begins, Fixed, Change, RemoteTypes, Held, InPlace
  <2>4. walk' \in RemoteWalks
    BY <2>1, <2>2, RemoteAssumptions DEF RemoteWalks, RemoteTypes
  <2>5. RemoteTypes' /\ ToolStays'
    BY <2>3, <2>4 DEF RemoteTypes, ToolStays
  <2>6. WalkBegins'
    BY <1>1, <2>1, <2>2 DEF WalkBegins
  <2>7. NothingMissed'
    <3> SUFFICES ASSUME NEW i, Sought(i)'
                 PROVE  /\ walk'.pc = "pages" => AheadOfWalk(i)'
                        /\ walk'.pc = "refs" => i \in walk'.todo
                        /\ walk'.pc # "done"
      BY DEF NothingMissed
    <3>1. walk'.pc = "refs" => i \in walk'.todo
      BY <1>1, <2>1, <2>2 DEF Sought
    <3>2. walk'.pc # "done"
      BY <1>1, <2>1, <2>2
    <3>3. AheadOfWalk(i)'
      <4>1. NewerThan(i, ListedEntries)' \in Nat
        <5>1. IsFiniteSet(1..created')
          BY <2>5, RemoteAssumptions, FS_Interval DEF RemoteTypes
        <5>2. ListedEntries' \subseteq 1..created'
          BY <2>5 DEF RemoteTypes, ListedEntries, InPlace
        <5>3. IsFiniteSet(ListedEntries')
          BY <5>1, <5>2, FS_Subset
        <5>4. NewerThan(i, ListedEntries') \in Nat
          BY <5>3, RanksGrow
        <5> QED
          BY <5>4
      <4>2. walk'.page = 1 /\ walk'.after = 0
        BY <2>2
      <4>3. (walk'.page - 1) * PageSize = 0
        BY <4>2, RemoteAssumptions
      <4> QED
        BY <4>1, <4>2, <4>3 DEF AheadOfWalk
    <3> QED
      BY <3>1, <3>2, <3>3
  <2> QED
    BY <2>5, <2>6, <2>7
<1>2. \A refs : ByRefs(refs) \in {"pages", "refs"} /\ (ByRefs(refs) = "refs" => refs # {})
  BY DEF ByRefs
<1>3. ASSUME NEW wanted \in {AllColumns, {"todo"}}, ListBegins(wanted)
      PROVE  RemoteIInv'
  BY <1>1, <1>3 DEF ListBegins, AllColumns
<1>4. ASSUME NEW refs \in SUBSET (1..created) \ {{}}, LookupBegins(refs)
      PROVE  RemoteIInv'
  <2>1. refs \in SUBSET Nat
    BY RemoteAssumptions DEF RemoteTypes
  <2> QED
    BY <1>1, <1>2, <1>4, <2>1 DEF LookupBegins
<1>5. ASSUME WalkFrame PROVE /\ UNCHANGED <<provider, assignee, entries, created, tool, changes, unchanged, shifted, strayed>>
                             /\ Held' = Held /\ InPlace' = InPlace
  BY <1>5 DEF WalkFrame, Fixed, Held, InPlace
<1>6. CASE ViewerKnown
  <2>1. walk.pc = "viewer" /\ WalkFrame /\ walk' = [walk EXCEPT !.pc = ByRefs(walk.refs), !.expected = "mine"]
    BY <1>6 DEF ViewerKnown
  <2>2. /\ walk' \in RemoteWalks /\ walk'.pc = ByRefs(walk.refs) /\ walk'.refs = walk.refs
        /\ walk'.todo = walk.todo /\ walk'.page = walk.page /\ walk'.after = walk.after
    BY <1>2, <2>1 DEF RemoteTypes, RemoteWalks, Assignees
  <2>3. RemoteTypes' /\ ToolStays' /\ WalkBegins'
    BY <1>2, <1>5, <2>1, <2>2 DEF RemoteTypes, ToolStays, WalkBegins
  <2>4. NothingMissed'
    <3> SUFFICES ASSUME NEW i, Sought(i)'
                 PROVE  /\ walk'.pc = "pages" => AheadOfWalk(i)'
                        /\ walk'.pc = "refs" => i \in walk'.todo
                        /\ walk'.pc # "done"
      BY DEF NothingMissed
    <3>1. walk'.pc = "refs" => i \in walk'.todo
      BY <1>2, <2>1, <2>2 DEF Sought, WalkBegins
    <3>2. walk'.pc # "done"
      BY <1>2, <2>2
    <3>3. AheadOfWalk(i)'
      <4>1. NewerThan(i, ListedEntries)' \in Nat
        <5>1. IsFiniteSet(1..created')
          BY <2>3, RemoteAssumptions, FS_Interval DEF RemoteTypes
        <5>2. ListedEntries' \subseteq 1..created'
          BY <2>3 DEF RemoteTypes, ListedEntries, InPlace
        <5>3. IsFiniteSet(ListedEntries')
          BY <5>1, <5>2, FS_Subset
        <5>4. NewerThan(i, ListedEntries') \in Nat
          BY <5>3, RanksGrow
        <5> QED
          BY <5>4
      <4>2. walk'.page = 1 /\ walk'.after = 0
        BY <2>1, <2>2 DEF WalkBegins
      <4>3. (walk'.page - 1) * PageSize = 0
        BY <4>2, RemoteAssumptions
      <4> QED
        BY <4>1, <4>2, <4>3 DEF AheadOfWalk
    <3> QED
      BY <3>1, <3>2, <3>3
  <2> QED
    BY <2>3, <2>4
<1>7. CASE QueryArrives
  <2>1. /\ walk.pc = "refs" /\ WalkFrame
        /\ walk' = [walk EXCEPT !.pc = "done", !.got = Decoded(walk.refs \cap InPlace)]
    BY <1>7 DEF QueryArrives
  <2>2. walk.refs \cap InPlace \in SUBSET Held
    BY ListedFinite
  <2>3. PICK got \in SUBSET [id : Nat, issue : ReadIssues] : got = Decoded(walk.refs \cap InPlace)
    BY <2>2, PagesAreDecoded
  <2>4. /\ walk' \in RemoteWalks /\ walk'.pc = "done" /\ walk'.got = got
        /\ walk'.expected = walk.expected /\ walk'.refs = walk.refs /\ walk'.wanted = walk.wanted
    BY <2>1, <2>3 DEF RemoteTypes, RemoteWalks
  <2>5. NothingMissed'
    <3> SUFFICES ASSUME NEW i, Sought(i)' PROVE GotRead(i)'
      BY <2>4 DEF NothingMissed
    <3>1. i \in walk.refs \cap InPlace /\ Kind[i] = "issue"
      BY <1>5, <2>1, <2>4 DEF Sought, WalkBegins
    <3>2. [id |-> i, issue |-> IssueOf(provider, entries[i], walk.expected)] \in got
      BY <2>2, <2>3, <3>1, PagesAreDecoded
    <3> QED
      BY <1>5, <2>1, <2>4, <3>2 DEF GotRead
  <2> QED
    BY <1>5, <2>1, <2>4, <2>5 DEF RemoteTypes, ToolStays, WalkBegins
<1>8. CASE RequestFails
  <2>1. /\ UNCHANGED <<provider, assignee, entries, created, tool, unchanged, shifted, strayed>>
        /\ Held' = Held /\ InPlace' = InPlace /\ changes' \in 0..MaxChanges
        /\ walk' = [walk EXCEPT !.pc = "failed", !.got = {}]
    BY <1>8, RemoteAssumptions DEF RequestFails, Fixed, Held, InPlace, Change, RemoteTypes
  <2>2. walk' \in RemoteWalks /\ walk'.pc = "failed"
    BY <2>1 DEF RemoteTypes, RemoteWalks
  <2> QED
    BY <2>1, <2>2 DEF RemoteTypes, ToolStays, WalkBegins, NothingMissed
<1>9. ASSUME NEW n \in Entries, RefArrives(n) PROVE RemoteIInv'
  <2>1. walk.pc = "refs" /\ WalkFrame /\ n \in walk.todo /\ provider # "linear"
    BY <1>9 DEF RefArrives
  <2>2. CASE n \in InPlace \/ (provider = "asana" /\ n \in Held)
    <3>1. {n} \in SUBSET Held
      BY <2>2, ListedFinite
    <3>2. PICK got \in SUBSET [id : Nat, issue : ReadIssues] : got = Decoded({n})
      BY <3>1, PagesAreDecoded
    <3>3. PICK p : p = IF walk.todo = {n} THEN "done" ELSE "refs"
      OBVIOUS
    <3>4. walk' = [walk EXCEPT !.got = walk.got \cup got, !.todo = walk.todo \ {n}, !.pc = p]
      BY <1>9, <2>2, <3>2, <3>3 DEF RefArrives
    <3>5. /\ walk' \in RemoteWalks /\ walk'.pc = p /\ walk'.got = walk.got \cup got
          /\ walk'.todo = walk.todo \ {n}
          /\ walk'.expected = walk.expected /\ walk'.refs = walk.refs /\ walk'.wanted = walk.wanted
      BY <2>1, <3>2, <3>3, <3>4 DEF RemoteTypes, RemoteWalks
    <3>6. NothingMissed'
      <4> SUFFICES ASSUME ~(provider \in Numbered /\ shifted), NEW i, Sought(i)'
                   PROVE  /\ walk'.pc = "refs" => GotRead(i)' \/ i \in walk'.todo
                          /\ walk'.pc = "done" => GotRead(i)'
        BY <1>5, <2>1, <3>3, <3>5 DEF NothingMissed
      <4>1. Sought(i)
        BY <1>5, <2>1, <3>5 DEF Sought
      <4>2. GotRead(i) \/ i \in walk.todo
        BY <2>1, <4>1 DEF NothingMissed
      <4>3. GotRead(i) => GotRead(i)'
        BY <1>5, <2>1, <3>5 DEF GotRead
      <4>4. i = n => GotRead(i)'
        <5>1. i \in InPlace /\ Kind[i] = "issue"
          BY <4>1 DEF Sought
        <5>2. i = n => [id |-> i, issue |-> IssueOf(provider, entries[i], walk.expected)] \in got
          BY <3>1, <3>2, <5>1, PagesAreDecoded
        <5> QED
          BY <1>5, <2>1, <3>5, <5>2 DEF GotRead
      <4> QED
        BY <3>3, <3>5, <4>2, <4>3, <4>4
    <3>7. RemoteTypes' /\ ToolStays'
      <4>1. /\ UNCHANGED <<provider, assignee, entries, created, tool, changes, unchanged, shifted, strayed>>
            /\ Held' = Held /\ InPlace' = InPlace
        BY <1>5, <2>1
      <4>2. RemoteTypes'
        BY <4>1, <3>5 DEF RemoteTypes
      <4>3. ToolStays'
        BY <4>1 DEF ToolStays
      <4> QED
        BY <4>2, <4>3
    <3>8. WalkBegins'
      BY <2>1, <3>3, <3>5 DEF WalkBegins
    <3> QED
      BY <3>6, <3>7, <3>8
  <2>3. CASE ~(n \in InPlace \/ (provider = "asana" /\ n \in Held))
    <3>1. walk' = [walk EXCEPT !.pc = "failed", !.got = {}]
      BY <1>9, <2>3 DEF RefArrives
    <3>2. walk' \in RemoteWalks /\ walk'.pc = "failed"
      BY <3>1 DEF RemoteTypes, RemoteWalks
    <3>3. RemoteTypes' /\ ToolStays'
      <4>1. /\ UNCHANGED <<provider, assignee, entries, created, tool, changes, unchanged, shifted, strayed>>
            /\ Held' = Held /\ InPlace' = InPlace
        BY <1>5, <2>1
      <4>2. RemoteTypes'
        BY <4>1, <3>2 DEF RemoteTypes
      <4>3. ToolStays'
        BY <4>1 DEF ToolStays
      <4> QED
        BY <4>2, <4>3
    <3>4. WalkBegins' /\ NothingMissed'
      BY <3>2 DEF WalkBegins, NothingMissed
    <3> QED
      BY <3>3, <3>4
  <2> QED
    BY <2>2, <2>3
<1> QED
  BY <1>3, <1>4, <1>6, <1>7, <1>8, <1>9

LEMMA ProgressStays ==
  ASSUME NEW raw \in RawEntries, NEW next \in Progress(raw)
  PROVE  next \in RawEntries /\ next.place = raw.place
  BY DEF Progress, RawEntries, AllColumns

\* An entry is rewritten, in its place or out of it.
LEMMA RewriteKeeps ==
  ASSUME RemoteIInv, NEW i \in Held, NEW raw \in RawEntries, Rewrite(i, raw),
         \/ raw.place = entries[i].place /\ shifted' = shifted
         \/ raw.place # "here" /\ shifted' = TRUE,
         UNCHANGED <<provider, assignee, created, walk>>,
         changes' \in 0..MaxChanges, strayed' \in BOOLEAN,
         tool' \in [pc : {"off", "check", "call"}, id : Nat, outside : BOOLEAN]
  PROVE  /\ RemoteTypes' /\ WalkBegins' /\ NothingMissed'
         /\ InPlace' \subseteq InPlace
<1>1. /\ Held' = Held /\ entries'[i] = raw /\ \A j \in Held \ {i} : entries'[j] = entries[j]
      /\ unchanged' = unchanged \ {i}
  BY DEF Rewrite, Held
<1>2. RemoteTypes'
  BY <1>1 DEF RemoteIInv, RemoteTypes
<1>3. WalkBegins'
  BY DEF RemoteIInv, WalkBegins
<1>4. raw.place = entries[i].place => InPlace' = InPlace
  BY <1>1 DEF InPlace
<1>5. raw.place # "here" => InPlace' \subseteq InPlace
  BY <1>1 DEF InPlace
<1>6. \A j \in unchanged' : entries'[j] = entries[j]
  BY <1>1 DEF RemoteIInv, RemoteTypes
<1>7. provider \in Numbered /\ ~shifted' => ~shifted /\ InPlace \subseteq InPlace'
  BY <1>4
<1>8. NothingMissed'
  BY <1>1, <1>2, <1>6, <1>7, TrackerKeeps DEF RemoteIInv
<1> QED
  BY <1>2, <1>3, <1>4, <1>5, <1>8

LEMMA ToolStepsKeepAll ==
  ASSUME RemoteIInv, (\E i \in Entries : ToolBegins(i)) \/ ToolChecked \/ ToolCalls
  PROVE  RemoteIInv'
<1>1. RemoteTypes /\ WalkBegins /\ NothingMissed /\ ToolStays
  BY DEF RemoteIInv
<1>2. ASSUME UNCHANGED <<provider, assignee, entries, created, walk, unchanged, shifted, strayed>>,
             changes' \in 0..MaxChanges,
             tool' \in [pc : {"off", "check", "call"}, id : Nat, outside : BOOLEAN]
      PROVE  RemoteTypes' /\ WalkBegins' /\ NothingMissed' /\ InPlace' = InPlace
  <2>1. Held' = Held /\ InPlace' = InPlace
    BY <1>2 DEF Held, InPlace
  <2>2. RemoteTypes'
    BY <1>1, <1>2, <2>1 DEF RemoteTypes
  <2>3. WalkBegins'
    BY <1>1, <1>2 DEF WalkBegins
  <2>4. NothingMissed'
    BY <1>1, <1>2, <2>1, <2>2, TrackerKeeps
  <2> QED
    BY <2>1, <2>2, <2>3, <2>4
<1>3. NoTool \in [pc : {"off", "check", "call"}, id : Nat, outside : BOOLEAN] /\ NoTool.pc = "off"
  BY DEF NoTool
<1>4. ASSUME NEW i \in Entries, ToolBegins(i) PROVE RemoteIInv'
  <2>1. i \in Held /\ i \in Nat /\ i \in 1..created
    BY <1>1, <1>4, ListedFinite DEF ToolBegins, RemoteTypes
  <2>2. PICK p : p = IF provider = "asana" THEN "check" ELSE "call"
    OBVIOUS
  <2>3. tool' = [pc |-> p, id |-> i, outside |-> i \notin InPlace]
    BY <1>4, <2>2 DEF ToolBegins
  <2>4. /\ UNCHANGED <<provider, assignee, entries, created, walk, unchanged, shifted, strayed>>
        /\ changes' \in 0..MaxChanges
    BY <1>1, <1>4, RemoteAssumptions DEF ToolBegins, Fixed, Change, RemoteTypes
  <2>5. tool' \in [pc : {"off", "check", "call"}, id : Nat, outside : BOOLEAN]
    BY <2>1, <2>2, <2>3
  <2>6. RemoteTypes' /\ WalkBegins' /\ NothingMissed' /\ InPlace' = InPlace
    BY <1>2, <2>4, <2>5
  <2>7. p = "call" /\ provider # "linear" => i \in InPlace
    BY <1>4, <2>2 DEF ToolBegins
  <2>8. ToolStays'
    BY <1>1, <2>1, <2>3, <2>4, <2>6, <2>7 DEF ToolStays
  <2> QED
    BY <2>6, <2>8 DEF RemoteIInv
<1>5. CASE ToolChecked
  <2>1. /\ tool.pc = "check"
        /\ UNCHANGED <<provider, assignee, entries, created, walk, unchanged, shifted, strayed>>
        /\ changes' = changes
    BY <1>5 DEF ToolChecked, Fixed
  <2>2. CASE tool.id \in InPlace
    <3>1. tool' = [tool EXCEPT !.pc = "call"]
      BY <1>5, <2>2 DEF ToolChecked, InProject
    <3>2. /\ tool' \in [pc : {"off", "check", "call"}, id : Nat, outside : BOOLEAN]
          /\ tool'.id = tool.id /\ tool'.outside = tool.outside
      BY <1>1, <3>1 DEF RemoteTypes
    <3>3. RemoteTypes' /\ WalkBegins' /\ NothingMissed' /\ InPlace' = InPlace
      BY <1>1, <1>2, <2>1, <3>2 DEF RemoteTypes
    <3>4. ToolStays'
      BY <1>1, <2>1, <2>2, <3>2, <3>3 DEF ToolStays
    <3> QED
      BY <3>3, <3>4 DEF RemoteIInv
  <2>3. CASE tool.id \notin InPlace
    <3>1. tool' = NoTool
      BY <1>5, <2>3 DEF ToolChecked, InProject
    <3>2. RemoteTypes' /\ WalkBegins' /\ NothingMissed' /\ InPlace' = InPlace
      BY <1>1, <1>2, <1>3, <2>1, <3>1 DEF RemoteTypes
    <3>3. ToolStays'
      BY <1>1, <1>3, <2>1, <3>1 DEF ToolStays
    <3> QED
      BY <3>2, <3>3 DEF RemoteIInv
  <2> QED
    BY <2>2, <2>3
<1>6. CASE ToolCalls
  <2>1. /\ tool.pc = "call" /\ tool' = NoTool
        /\ UNCHANGED <<provider, assignee, created, walk, changes, shifted>>
        /\ changes' \in 0..MaxChanges
    BY <1>1, <1>6 DEF ToolCalls, Fixed, RemoteTypes
  <2>2. CASE tool.id \in InPlace \/ (tool.id \in Held /\ provider \in {"linear", "asana"})
    <3>1. tool.id \in Held
      BY <1>1, <2>2, ListedFinite
    <3>2. PICK raw \in Progress(entries[tool.id]) : Rewrite(tool.id, raw)
      BY <1>6, <2>2 DEF ToolCalls
    <3>3. raw \in RawEntries /\ raw.place = entries[tool.id].place
      BY <1>1, <3>1, <3>2, ProgressStays DEF RemoteTypes
    <3>4. strayed' = (strayed \/ tool.outside) /\ strayed' \in BOOLEAN
      BY <1>1, <1>6, <2>2 DEF ToolCalls, RemoteTypes
    <3>5. RemoteTypes' /\ WalkBegins' /\ NothingMissed'
      BY <1>3, <2>1, <3>1, <3>2, <3>3, <3>4, RewriteKeeps
    <3>6. ToolStays'
      BY <1>1, <1>3, <2>1, <3>4 DEF ToolStays
    <3> QED
      BY <3>5, <3>6 DEF RemoteIInv
  <2>3. CASE ~(tool.id \in InPlace \/ (tool.id \in Held /\ provider \in {"linear", "asana"}))
    <3>1. UNCHANGED <<entries, unchanged, strayed>>
      BY <1>6, <2>3 DEF ToolCalls
    <3>2. RemoteTypes' /\ WalkBegins' /\ NothingMissed' /\ InPlace' = InPlace
      BY <1>2, <1>3, <2>1, <3>1
    <3>3. ToolStays'
      BY <1>1, <1>3, <2>1, <3>1 DEF ToolStays
    <3> QED
      BY <3>2, <3>3 DEF RemoteIInv
  <2> QED
    BY <2>2, <2>3
<1> QED
  BY <1>4, <1>5, <1>6

LEMMA TrackerStepsKeepAll ==
  ASSUME RemoteIInv,
         \/ Creates
         \/ \E i \in Entries : DeletesEntry(i) \/ EditsEntry(i)
         \/ \E i \in Entries, place \in {"elsewhere", "nowhere"} : LeavesProject(i, place)
  PROVE  RemoteIInv'
<1>1. RemoteTypes /\ WalkBegins /\ NothingMissed /\ ToolStays
  BY DEF RemoteIInv
<1>2. ASSUME Change, TrackerFrame
      PROVE  /\ UNCHANGED <<provider, assignee, walk, tool, strayed>>
             /\ changes' \in 0..MaxChanges /\ strayed' \in BOOLEAN
             /\ tool' \in [pc : {"off", "check", "call"}, id : Nat, outside : BOOLEAN]
  BY <1>1, <1>2, RemoteAssumptions DEF Change, TrackerFrame, Fixed, RemoteTypes
<1>3. CASE Creates
  <2>1. /\ Change /\ TrackerFrame /\ created < Len(Kind) /\ created' = created + 1
        /\ entries' = [i \in Held \cup {created + 1} |-> IF i \in Held THEN entries[i] ELSE New(i)]
        /\ UNCHANGED <<unchanged, shifted>>
    BY <1>3 DEF Creates
  <2>2. /\ Held' = Held \cup {created + 1} /\ \A i \in Held : entries'[i] = entries[i]
        /\ \A i \in Held' : entries'[i] = entries[i] \/ entries'[i] = New(i)
    BY <2>1 DEF Held
  <2>3. \A i : New(i) \in RawEntries
    BY DEF New, RawEntries, AllColumns
  <2>4. created \in Nat /\ created + 1 \in 0..Len(Kind) /\ Held \subseteq 1..created
    BY <1>1, <2>1, RemoteAssumptions DEF RemoteTypes
  <2>5. \A i \in Held' : entries'[i] \in RawEntries
    BY <1>1, <2>1, <2>2, <2>3 DEF RemoteTypes, Held
  <2>6. RemoteTypes'
    <3>1. Held' \subseteq 1..created' /\ created' \in 0..Len(Kind)
      BY <2>1, <2>2, <2>4
    <3>2. unchanged' \subseteq Held' /\ shifted' \in BOOLEAN
      BY <1>1, <2>1, <2>2 DEF RemoteTypes
    <3>3. /\ provider' \in Providers /\ assignee' \in Assignees /\ walk' \in RemoteWalks
          /\ tool' \in [pc : {"off", "check", "call"}, id : Nat, outside : BOOLEAN]
          /\ changes' \in 0..MaxChanges /\ strayed' \in BOOLEAN
      BY <1>1, <1>2, <2>1 DEF RemoteTypes
    <3> QED
      BY <2>5, <3>1, <3>2, <3>3 DEF RemoteTypes
  <2>7. InPlace \subseteq InPlace' /\ \A i \in InPlace' : i \in InPlace \/ i = created + 1
    BY <2>2 DEF InPlace
  <2>8. NothingMissed'
    <3>1. \A i \in unchanged' : entries'[i] = entries[i]
      BY <1>1, <2>1, <2>2 DEF RemoteTypes
    <3> QED
      BY <1>1, <1>2, <2>1, <2>6, <2>7, <3>1, TrackerKeeps
  <2>9. WalkBegins'
    BY <1>1, <1>2, <2>1 DEF WalkBegins
  <2>10. ToolStays'
    <3>1. tool.pc # "off" => tool.id \in 1..created /\ tool.id # created + 1
      BY <1>1, <2>4 DEF ToolStays
    <3>2. 1..created \subseteq 1..(created + 1)
      BY <2>4
    <3> QED
      BY <1>1, <1>2, <2>1, <2>7, <3>1, <3>2 DEF ToolStays
  <2> QED
    BY <2>6, <2>8, <2>9, <2>10 DEF RemoteIInv
<1>4. ASSUME NEW i \in Entries, DeletesEntry(i) PROVE RemoteIInv'
  <2>1. /\ i \in Held /\ Change /\ TrackerFrame /\ created' = created
        /\ entries' = [j \in Held \ {i} |-> entries[j]]
        /\ unchanged' = unchanged \ {i} /\ shifted' = TRUE
    BY <1>4 DEF DeletesEntry
  <2>2. /\ Held' = Held \ {i} /\ \A j \in Held' : entries'[j] = entries[j]
    BY <2>1 DEF Held
  <2>3. RemoteTypes'
    BY <1>1, <1>2, <2>1, <2>2 DEF RemoteTypes
  <2>4. InPlace' \subseteq InPlace
    BY <2>2 DEF InPlace
  <2>5. \A j \in unchanged' : entries'[j] = entries[j]
    BY <1>1, <2>1, <2>2 DEF RemoteTypes
  <2>6. NothingMissed'
    BY <1>1, <1>2, <2>1, <2>3, <2>5, TrackerKeeps
  <2>7. WalkBegins' /\ ToolStays'
    BY <1>1, <1>2, <2>1, <2>4 DEF WalkBegins, ToolStays
  <2> QED
    BY <2>3, <2>6, <2>7 DEF RemoteIInv
<1>5. ASSUME NEW i \in Entries, EditsEntry(i) PROVE RemoteIInv'
  <2>1. i \in Held /\ Change /\ TrackerFrame /\ UNCHANGED <<created, shifted>>
    BY <1>5 DEF EditsEntry
  <2>2. PICK raw \in Progress(entries[i]) : Rewrite(i, raw)
    BY <1>5 DEF EditsEntry
  <2>3. raw \in RawEntries /\ raw.place = entries[i].place
    BY <1>1, <2>1, ProgressStays DEF RemoteTypes
  <2>4. RemoteTypes' /\ WalkBegins' /\ NothingMissed' /\ InPlace' \subseteq InPlace
    BY <1>2, <2>1, <2>2, <2>3, RewriteKeeps
  <2>5. ToolStays'
    BY <1>1, <1>2, <2>1, <2>4 DEF ToolStays
  <2> QED
    BY <2>4, <2>5 DEF RemoteIInv
<1>6. ASSUME NEW i \in Entries, NEW place \in {"elsewhere", "nowhere"}, LeavesProject(i, place) PROVE RemoteIInv'
  <2>1. /\ i \in InPlace /\ i \in Held /\ Change /\ TrackerFrame /\ created' = created /\ shifted' = TRUE
        /\ Rewrite(i, [entries[i] EXCEPT !.place = place])
    BY <1>1, <1>6, ListedFinite DEF LeavesProject
  <2>2. PICK raw : raw = [entries[i] EXCEPT !.place = place]
    OBVIOUS
  <2>3. raw \in RawEntries /\ raw.place = place
    BY <1>1, <2>1, <2>2 DEF RemoteTypes, RawEntries
  <2>4. RemoteTypes' /\ WalkBegins' /\ NothingMissed' /\ InPlace' \subseteq InPlace
    BY <1>2, <2>1, <2>2, <2>3, RewriteKeeps
  <2>5. ToolStays'
    BY <1>1, <1>2, <2>1, <2>4 DEF ToolStays
  <2> QED
    BY <2>4, <2>5 DEF RemoteIInv
<1> QED
  BY <1>3, <1>4, <1>5, <1>6

LEMMA RemoteBegins == RemoteInit => RemoteIInv
<1> SUFFICES ASSUME RemoteInit PROVE RemoteIInv
  OBVIOUS
<1>1. /\ Held = 1..Present /\ created = Present /\ Present \in 0..Len(Kind)
      /\ \A i \in Held : entries[i] \in RawEntries
  BY RemoteAssumptions DEF RemoteInit, Held, New, RawEntries, AllColumns
<1>2. walk \in RemoteWalks /\ walk.pc = "off"
  BY RemoteAssumptions DEF RemoteInit, NoWalk, RemoteWalks, Assignees
<1>3. tool \in [pc : {"off", "check", "call"}, id : Nat, outside : BOOLEAN] /\ tool.pc = "off"
  BY DEF RemoteInit, NoTool
<1>4. RemoteTypes
  <2>1. /\ provider \in Providers /\ assignee \in Assignees
        /\ changes = 0 /\ unchanged = {} /\ shifted = FALSE /\ strayed = FALSE
    BY DEF RemoteInit
  <2>2. created \in 0..Len(Kind) /\ Held \subseteq 1..created /\ changes \in 0..MaxChanges
    BY <1>1, <2>1, RemoteAssumptions
  <2> QED
    BY <1>1, <1>2, <1>3, <2>1, <2>2 DEF RemoteTypes
<1> QED
  BY <1>2, <1>3, <1>4 DEF RemoteInit, RemoteIInv, WalkBegins, NothingMissed, ToolStays

LEMMA RemoteKept ==
  ASSUME RemoteIInv, [RemoteNext]_remoteVars
  PROVE  RemoteIInv'
<1>1. CASE UNCHANGED remoteVars
  <2>1. /\ UNCHANGED <<provider, assignee, entries, created, walk, tool, changes, unchanged, shifted, strayed>>
        /\ Held' = Held /\ InPlace' = InPlace
    BY <1>1 DEF remoteVars, Held, InPlace
  <2>2. RemoteTypes' /\ WalkBegins' /\ ToolStays'
    BY <2>1 DEF RemoteIInv, RemoteTypes, WalkBegins, ToolStays
  <2>3. NothingMissed'
    BY <2>1, <2>2, TrackerKeeps DEF RemoteIInv
  <2> QED
    BY <2>2, <2>3 DEF RemoteIInv
<1>2. CASE RemoteNext
  BY <1>2, WalkStepsKeepAll, PageKeepsAll, ToolStepsKeepAll, TrackerStepsKeepAll DEF RemoteNext
<1> QED
  BY <1>1, <1>2

LEMMA SourcesAreWhole == RemoteIInv => SourcesInv
<1> SUFFICES ASSUME RemoteIInv PROVE SourcesInv
  OBVIOUS
<1>1. RemoteTypeOK
  BY DEF RemoteIInv, RemoteTypes, RemoteWalks, RemoteTypeOK
<1>2. ListIsWhole
  <2> SUFFICES ASSUME walk.pc = "done", ~(provider \in Numbered /\ shifted), NEW i \in unchanged \cap InPlace,
                      Kind[i] = "issue", walk.refs = {} \/ i \in walk.refs,
                      IssueOf(provider, entries[i], walk.expected).state \in walk.wanted
               PROVE  \E g \in walk.got : g.id = i
    BY DEF ListIsWhole
  <2>1. Sought(i)
    BY DEF Sought
  <2>2. [id |-> i, issue |-> IssueOf(provider, entries[i], walk.expected)] \in walk.got
    BY <2>1 DEF RemoteIInv, NothingMissed, GotRead
  <2> QED
    BY <2>2
<1>3. ToolInProject
  BY DEF RemoteIInv, ToolStays, ToolInProject
<1> QED
  BY <1>1, <1>2, <1>3, ClosedIsOverAlways DEF SourcesInv

-----------------------------------------------------------------------------
(* The history of an issue *)

\* Places of the ring: one turn at most goes beyond its end.
LEMMA Around ==
  /\ Capacity \in Nat \ {0}
  /\ \A n \in 0..(Capacity - 1) : n % Capacity = n
  /\ \A n \in Capacity..(2 * Capacity - 1) : n % Capacity = n - Capacity
<1>1. Capacity \in Nat \ {0}
  BY TimelineConstants
<1>2. \A n \in 0..(Capacity - 1) : n % Capacity = n
  BY <1>1
<1>3. ASSUME NEW n \in Capacity..(2 * Capacity - 1) PROVE n % Capacity = n - Capacity
  <2>1. n - Capacity \in 0..(Capacity - 1) /\ n = Capacity + (n - Capacity)
    BY <1>1
  <2> QED
    BY <1>1, <2>1
<1> QED
  BY <1>1, <1>2, <1>3

TimelineEvents == [id : EventIds, type : {"running", "retrying", "session"}, at : Times]

TimelineTypes ==
  /\ ring \in [events : [0..(Capacity - 1) -> TimelineEvents \cup {NoEvent}], head : 0..(Capacity - 1),
               size : 0..Capacity, ids : SUBSET EventIds, truncated : BOOLEAN]
  /\ captured \in Seq(TimelineEvents)
  /\ view \in [phase : {"none", "running", "retrying"}, at : 0..LastTime]
  /\ view.phase # "none" => view.at \in Times
  /\ updated \in Times /\ now \in Times

\* No two events have one identifier.
CapturedOnce == \A j, k \in DOMAIN captured : captured[j].id = captured[k].id => j = k

\* Where the ring begins, and which events it holds.
RingHolds ==
  /\ ring.size = (IF Len(captured) < Capacity THEN Len(captured) ELSE Capacity)
  /\ ring.size < Capacity => ring.head = 0
  /\ \A k \in 1..ring.size : ring.events[(ring.head + k - 1) % Capacity] = captured[Len(captured) - ring.size + k]
  /\ ring.ids = {captured[k].id : k \in (Len(captured) - ring.size + 1)..Len(captured)}
  /\ ring.truncated <=> Len(captured) > Capacity

EntryTypes == {"running", "retrying", "session", "task.updated"}
HistoryRecords == [id : Nat, type : EntryTypes, at : Nat]

\* A reader has taken its entries in their order; what it could have seen all
\* the time is still there, and was read or comes after what was read.
ReaderHolds ==
  /\ reader \in [open : BOOLEAN, seen : Seq(HistoryRecords), always : SUBSET HistoryEntries, more : BOOLEAN]
  /\ ~reader.open => reader = NotReading
  /\ \A j, k \in DOMAIN reader.seen : j < k => After(reader.seen[k], reader.seen[j])
  /\ reader.more => reader.seen # <<>>
  /\ \A e \in reader.always :
       \/ \E k \in DOMAIN reader.seen : reader.seen[k] = e
       \/ reader.more /\ After(e, Cursor)

TimelineIInv == TimelineTypes /\ CapturedOnce /\ RingHolds /\ ReaderHolds

\* The k-th place from the beginning h of the ring.
Slot(h, k) == IF h + k - 1 < Capacity THEN h + k - 1 ELSE h + k - 1 - Capacity

LEMMA SlotsTurn ==
  /\ \A h \in 0..(Capacity - 1), k \in 1..Capacity :
       (h + k - 1) % Capacity = Slot(h, k) /\ Slot(h, k) \in 0..(Capacity - 1)
  /\ \A k \in 1..Capacity : Slot(0, k) = k - 1
  /\ \A k \in 0..(Capacity - 1) : (0 + k) % Capacity = k
  /\ \A h \in 0..(Capacity - 1) : /\ (h + 1) % Capacity \in 0..(Capacity - 1)
                                  /\ Slot(h, 1) = h
                                  /\ Slot((h + 1) % Capacity, Capacity) = h
                                  /\ \A k \in 1..(Capacity - 1) : /\ Slot((h + 1) % Capacity, k) = Slot(h, k + 1)
                                                                  /\ Slot(h, k + 1) # h
<1>1. Capacity \in Nat \ {0}
  BY Around
<1>2. ASSUME NEW h \in 0..(Capacity - 1), NEW k \in 1..Capacity
      PROVE  (h + k - 1) % Capacity = Slot(h, k) /\ Slot(h, k) \in 0..(Capacity - 1)
  <2>1. CASE h + k - 1 < Capacity
    BY <1>1, <2>1, Around DEF Slot
  <2>2. CASE ~(h + k - 1 < Capacity)
    <3>1. h + k - 1 \in Capacity..(2 * Capacity - 1)
      BY <1>1, <2>2
    <3> QED
      BY <1>1, <2>2, <3>1, Around DEF Slot
  <2> QED
    BY <2>1, <2>2
<1>3. \A k \in 1..Capacity : Slot(0, k) = k - 1
  BY <1>1 DEF Slot
<1>4. \A k \in 0..(Capacity - 1) : (0 + k) % Capacity = k
  BY <1>1, Around
<1>5. ASSUME NEW h \in 0..(Capacity - 1)
      PROVE  /\ (h + 1) % Capacity \in 0..(Capacity - 1)
             /\ Slot(h, 1) = h
             /\ Slot((h + 1) % Capacity, Capacity) = h
             /\ \A k \in 1..(Capacity - 1) : /\ Slot((h + 1) % Capacity, k) = Slot(h, k + 1)
                                             /\ Slot(h, k + 1) # h
  <2>1. PICK g : g = (h + 1) % Capacity
    OBVIOUS
  <2>2. g = IF h + 1 < Capacity THEN h + 1 ELSE 0
    <3>1. CASE h + 1 < Capacity
      BY <1>1, <2>1, <3>1, Around
    <3>2. CASE h + 1 = Capacity
      BY <1>1, <2>1, <3>2, Around
    <3> QED
      BY <1>1, <3>1, <3>2
  <2> QED
    BY <1>1, <2>1, <2>2 DEF Slot
<1> QED
  BY <1>2, <1>3, <1>4, <1>5

\* The parts of a ring, and what they say of what was captured.
RingOf(ev, h, sz, ids, n, all) ==
  /\ n = Len(all) /\ sz = (IF n < Capacity THEN n ELSE Capacity) /\ (sz < Capacity => h = 0)
  /\ \A k \in 1..sz : ev[Slot(h, k)] = all[n - sz + k]
  /\ ids = {all[k].id : k \in (n - sz + 1)..n}

Rings ==
  [events : [0..(Capacity - 1) -> TimelineEvents \cup {NoEvent}], head : 0..(Capacity - 1),
   size : 0..Capacity, ids : SUBSET EventIds, truncated : BOOLEAN]

LEMMA RingIsOpened ==
  ASSUME ring \in Rings
  PROVE  RingHolds <=> /\ RingOf(ring.events, ring.head, ring.size, ring.ids, Len(captured), captured)
                       /\ ring.truncated <=> Len(captured) > Capacity
<1>1. 1..ring.size \subseteq 1..Capacity /\ ring.head \in 0..(Capacity - 1)
  BY Around DEF Rings
<1>2. \A k \in 1..ring.size : (ring.head + k - 1) % Capacity = Slot(ring.head, k)
  BY <1>1, SlotsTurn
<1> QED
  BY <1>2 DEF RingHolds, RingOf

LEMMA RingIsClosed ==
  ASSUME ring' \in Rings, RingOf(ring'.events, ring'.head, ring'.size, ring'.ids, Len(captured'), captured'),
         ring'.truncated <=> Len(captured') > Capacity
  PROVE  RingHolds'
<1>1. 1..ring'.size \subseteq 1..Capacity /\ ring'.head \in 0..(Capacity - 1)
  BY Around DEF Rings
<1>2. \A k \in 1..ring'.size : (ring'.head + k - 1) % Capacity = Slot(ring'.head, k)
  <2>1. PICK h \in 0..(Capacity - 1), sz \in 0..Capacity : h = ring'.head /\ sz = ring'.size /\ 1..sz \subseteq 1..Capacity
    <3>1. ring'.size \in 0..Capacity
      BY DEF Rings
    <3> QED
      BY <1>1, <3>1
  <2>2. ASSUME NEW k \in 1..sz PROVE (h + k - 1) % Capacity = Slot(h, k)
    <3>1. k \in 1..Capacity
      BY <2>1
    <3> QED
      BY <3>1, SlotsTurn
  <2> QED
    BY ONLY <2>1, <2>2
<1> QED
  BY <1>2 DEF RingHolds, RingOf

LEMMA RingTakes ==
  ASSUME NEW ev \in [0..(Capacity - 1) -> TimelineEvents \cup {NoEvent}], NEW h \in 0..(Capacity - 1),
         NEW sz \in 0..Capacity, NEW ids, NEW n \in Nat,
         NEW all \in Seq(TimelineEvents), RingOf(ev, h, sz, ids, n, all),
         \A j, k \in 1..n : all[j].id = all[k].id => j = k,
         NEW e \in TimelineEvents
  PROVE  /\ sz < Capacity =>
              RingOf([ev EXCEPT ![sz] = e], h, sz + 1, ids \cup {e.id}, n + 1, Append(all, e))
         /\ sz = Capacity =>
              RingOf([ev EXCEPT ![h] = e], (h + 1) % Capacity, sz, (ids \ {ev[h].id}) \cup {e.id},
                     n + 1, Append(all, e))
<1>1. PICK b : b = Append(all, e)
  OBVIOUS
<1>2. Len(b) = n + 1 /\ b[n + 1] = e /\ \A k \in 1..n : b[k] = all[k]
  BY <1>1 DEF RingOf
<1>3. Capacity \in Nat \ {0}
  BY Around
<1>4. ASSUME sz < Capacity
      PROVE  RingOf([ev EXCEPT ![sz] = e], h, sz + 1, ids \cup {e.id}, n + 1, b)
  <2>1. h = 0 /\ sz = n /\ sz \in 0..(Capacity - 1) /\ n + 1 <= Capacity
    BY <1>3, <1>4 DEF RingOf
  <2>2. PICK new : new = [ev EXCEPT ![sz] = e]
    OBVIOUS
  <2>3. new[sz] = e /\ \A k \in 0..(Capacity - 1) : k # sz => new[k] = ev[k]
    BY <2>1, <2>2
  <2>4. \A k \in 1..(sz + 1) : new[Slot(h, k)] = b[n + 1 - (sz + 1) + k]
    <3> SUFFICES ASSUME NEW k \in 1..(sz + 1) PROVE new[Slot(h, k)] = b[n + 1 - (sz + 1) + k]
      OBVIOUS
    <3>3. Slot(h, k) = k - 1 /\ n + 1 - (sz + 1) + k = k
      BY <1>3, <2>1, SlotsTurn
    <3>1. CASE k = sz + 1
      <4>1. k - 1 = sz /\ k = n + 1
        BY <2>1, <3>1
      <4> QED
        BY <1>2, <2>3, <3>3, <4>1
    <3>2. CASE k \in 1..sz
      <4>1. ev[Slot(h, k)] = all[n - sz + k]
        BY <3>2 DEF RingOf
      <4>2. Slot(h, k) = k - 1 /\ n - sz + k = k
        BY <1>3, <2>1, <3>2, SlotsTurn
      <4>3. new[k - 1] = ev[k - 1]
        <5>1. k - 1 \in 0..(Capacity - 1) /\ k - 1 # sz
          BY <1>3, <2>1, <3>2
        <5> QED
          BY <2>3, <5>1
      <4> QED
        BY <1>2, <2>1, <3>2, <3>3, <4>1, <4>2, <4>3
    <3> QED
      BY <3>1, <3>2
  <2>5. ids \cup {e.id} = {b[k].id : k \in (n + 1 - (sz + 1) + 1)..(n + 1)}
    <3>1. n + 1 - (sz + 1) + 1 = 1 /\ n - sz + 1 = 1
      BY <2>1
    <3>2. ids = {all[k].id : k \in 1..n}
      BY <3>1 DEF RingOf
    <3>3. {b[k].id : k \in 1..(n + 1)} \subseteq {all[k].id : k \in 1..n} \cup {e.id}
      <4> SUFFICES ASSUME NEW k \in 1..(n + 1) PROVE b[k].id \in {all[j].id : j \in 1..n} \cup {e.id}
        OBVIOUS
      <4>1. k \in 1..n \/ k = n + 1
        OBVIOUS
      <4> QED
        BY <1>2, <4>1
    <3>4. {all[k].id : k \in 1..n} \cup {e.id} \subseteq {b[k].id : k \in 1..(n + 1)}
      <4>1. n + 1 \in 1..(n + 1) /\ 1..n \subseteq 1..(n + 1)
        OBVIOUS
      <4>2. \A k \in 1..n : all[k].id \in {b[j].id : j \in 1..(n + 1)}
        BY <1>2, <4>1
      <4>3. e.id \in {b[j].id : j \in 1..(n + 1)}
        BY <1>2, <4>1
      <4> QED
        BY <4>2, <4>3
    <3> QED
      BY <3>1, <3>2, <3>3, <3>4
  <2>7. sz + 1 = (IF n + 1 < Capacity THEN n + 1 ELSE Capacity) /\ (sz + 1 < Capacity => h = 0)
    BY <1>3, <2>1
  <2> QED
    BY <1>2, <2>2, <2>4, <2>5, <2>7 DEF RingOf
<1>5. ASSUME sz = Capacity
      PROVE  RingOf([ev EXCEPT ![h] = e], (h + 1) % Capacity, sz, (ids \ {ev[h].id}) \cup {e.id}, n + 1, b)
  <2>1. n >= Capacity /\ n + 1 > Capacity
    BY <1>3, <1>5 DEF RingOf
  <2>2. PICK new : new = [ev EXCEPT ![h] = e]
    OBVIOUS
  <2>3. new[h] = e /\ \A k \in 0..(Capacity - 1) : k # h => new[k] = ev[k]
    BY <2>2
  <2>4. PICK g : g = (h + 1) % Capacity
    OBVIOUS
  <2>5. /\ Slot(h, 1) = h /\ Slot(g, Capacity) = h
        /\ \A k \in 1..(Capacity - 1) : /\ Slot(g, k) = Slot(h, k + 1) /\ Slot(h, k + 1) # h
                                        /\ Slot(h, k + 1) \in 0..(Capacity - 1)
    <3>1. \A k \in 1..(Capacity - 1) : k + 1 \in 1..Capacity
      BY <1>3
    <3>2. \A k \in 1..Capacity : Slot(h, k) \in 0..(Capacity - 1)
      BY SlotsTurn
    <3> QED
      BY <2>4, <3>1, <3>2, SlotsTurn
  <2>6. \A k \in 1..sz : new[Slot(g, k)] = b[n + 1 - sz + k]
    <3> SUFFICES ASSUME NEW k \in 1..Capacity PROVE new[Slot(g, k)] = b[n + 1 - Capacity + k]
      BY <1>5
    <3>1. CASE k = Capacity
      <4>1. n + 1 - Capacity + k = n + 1
        BY <1>3, <3>1
      <4> QED
        BY <1>2, <2>3, <2>5, <3>1, <4>1
    <3>2. CASE k \in 1..(Capacity - 1)
      <4>1. k + 1 \in 1..sz
        BY <1>3, <1>5, <3>2
      <4>2. ev[Slot(h, k + 1)] = all[n - sz + (k + 1)]
        BY <4>1 DEF RingOf
      <4>3. new[Slot(g, k)] = ev[Slot(h, k + 1)]
        BY <2>3, <2>5, <3>2
      <4>4. n - sz + (k + 1) = n + 1 - Capacity + k /\ n + 1 - Capacity + k \in 1..n
        BY <1>3, <1>5, <2>1, <3>2
      <4> QED
        BY <1>2, <4>2, <4>3, <4>4
    <3> QED
      BY <1>3, <3>1, <3>2
  <2>7. (ids \ {ev[h].id}) \cup {e.id} = {b[k].id : k \in (n + 1 - sz + 1)..(n + 1)}
    <3>1. PICK m \in 1..n : m = n - Capacity + 1 /\ n - sz + 1 = m /\ n + 1 - sz + 1 = m + 1
      BY <1>3, <1>5, <2>1
    <3>2. ev[h] = all[m]
      <4>1. ev[Slot(h, 1)] = all[n - sz + 1]
        <5>1. 1 \in 1..sz
          BY <1>3, <1>5
        <5> QED
          BY <5>1 DEF RingOf
      <4> QED
        BY <2>5, <3>1, <4>1
    <3>3. ids = {all[k].id : k \in m..n}
      BY <3>1 DEF RingOf
    <3>4. ASSUME NEW x PROVE x \in (ids \ {ev[h].id}) \cup {e.id} <=> x \in {b[k].id : k \in (m + 1)..(n + 1)}
      <4>1. ASSUME x \in ids, x # ev[h].id PROVE x \in {b[k].id : k \in (m + 1)..(n + 1)}
        <5>1. PICK k \in m..n : x = all[k].id
          BY <3>3, <4>1
        <5>2. k # m
          BY <3>2, <4>1, <5>1
        <5>3. k \in 1..n /\ k \in (m + 1)..(n + 1)
          BY <3>1, <5>1, <5>2
        <5> QED
          BY <1>2, <5>1, <5>3
      <4>2. e.id \in {b[k].id : k \in (m + 1)..(n + 1)}
        <5>1. n + 1 \in (m + 1)..(n + 1)
          BY <3>1
        <5> QED
          BY <1>2, <5>1
      <4>3. ASSUME NEW k \in (m + 1)..(n + 1) PROVE b[k].id \in (ids \ {ev[h].id}) \cup {e.id}
        <5>1. CASE k = n + 1
          BY <1>2, <5>1
        <5>2. CASE k \in (m + 1)..n
          <6>1. k \in 1..n /\ k \in m..n /\ k # m /\ m \in 1..n
            BY <3>1, <5>2
          <6>2. all[k].id # all[m].id
            BY <6>1
          <6>3. b[k].id = all[k].id /\ all[k].id \in ids
            BY <1>2, <3>3, <6>1
          <6> QED
            BY <3>2, <6>2, <6>3
        <5> QED
          BY <3>1, <5>1, <5>2
      <4> QED
        BY <4>1, <4>2, <4>3
    <3> QED
      BY <3>1, <3>4
  <2>8. sz = (IF n + 1 < Capacity THEN n + 1 ELSE Capacity) /\ ~(sz < Capacity)
    BY <1>3, <1>5, <2>1
  <2>9. RingOf(new, g, sz, (ids \ {ev[h].id}) \cup {e.id}, n + 1, b)
    <3>1. n + 1 = Len(b)
      BY <1>2, <2>1
    <3>2. sz < Capacity => g = 0
      BY <2>8
    <3>3. PICK new_ids : new_ids = (ids \ {ev[h].id}) \cup {e.id}
      OBVIOUS
    <3>4. new_ids = {b[k].id : k \in (n + 1 - sz + 1)..(n + 1)}
      BY <2>7, <3>3
    <3>5. RingOf(new, g, sz, new_ids, n + 1, b)
      <4>1. \A k \in 1..sz : new[Slot(g, k)] = b[(n + 1) - sz + k]
        BY <2>6
      <4>2. new_ids = {b[k].id : k \in ((n + 1) - sz + 1)..(n + 1)}
        BY <3>4
      <4> QED
        BY ONLY <4>1, <4>2, <2>8, <3>1, <3>2, Zenon DEF RingOf
    <3> QED
      BY <3>3, <3>5
  <2> QED
    BY <2>2, <2>4, <2>9
<1> QED
  BY <1>1, <1>4, <1>5

\* What is captured is at the end of the ring, and takes the place of the oldest when it is full.
LEMMA CaptureKeeps ==
  ASSUME TimelineTypes, CapturedOnce, RingHolds, NEW e \in TimelineEvents,
         \A k \in DOMAIN captured : captured[k].id # e.id,
         Capture(e), UNCHANGED <<updated, now>>,
         view' \in [phase : {"none", "running", "retrying"}, at : 0..LastTime],
         view'.phase # "none" => view'.at \in Times
  PROVE  TimelineTypes' /\ CapturedOnce' /\ RingHolds'
<1>1. /\ captured \in Seq(TimelineEvents) /\ captured' = Append(captured, e)
      /\ captured' \in Seq(TimelineEvents)
  BY DEF Capture, TimelineTypes
<1>2. CapturedOnce'
  <2>1. /\ DOMAIN captured' = DOMAIN captured \cup {Len(captured) + 1}
        /\ \A k \in DOMAIN captured : captured'[k] = captured[k]
        /\ captured'[Len(captured) + 1] = e
    BY <1>1
  <2> QED
    BY <2>1 DEF CapturedOnce
<1>3. PICK ev \in [0..(Capacity - 1) -> TimelineEvents \cup {NoEvent}], h \in 0..(Capacity - 1),
           sz \in 0..Capacity, ids \in SUBSET EventIds, n \in Nat :
        /\ ring.events = ev /\ ring.head = h /\ ring.size = sz /\ ring.ids = ids /\ n = Len(captured)
        /\ ring \in Rings
        /\ RingOf(ev, h, sz, ids, n, captured)
        /\ ring.truncated <=> n > Capacity
  <2>1. ring \in Rings /\ Len(captured) \in Nat
    BY <1>1 DEF TimelineTypes, Rings
  <2>2. RingOf(ring.events, ring.head, ring.size, ring.ids, Len(captured), captured)
        /\ (ring.truncated <=> Len(captured) > Capacity)
    BY <2>1, RingIsOpened
  <2> QED
    BY <2>1, <2>2 DEF Rings
<1>4. DOMAIN captured = 1..n /\ Len(captured') = n + 1
  BY <1>1, <1>3
<1>5. e.id \notin ids /\ e.id \in EventIds
  <2>1. ids = {captured[k].id : k \in (n - sz + 1)..n} /\ sz <= n
    BY <1>3, Around DEF RingOf
  <2>2. \A k \in (n - sz + 1)..n : captured[k].id # e.id
    BY <1>4, <2>1
  <2> QED
    BY <2>1, <2>2 DEF TimelineEvents
<1>6. /\ sz < Capacity =>
           RingOf([ev EXCEPT ![sz] = e], h, sz + 1, ids \cup {e.id}, n + 1, captured')
      /\ sz = Capacity =>
           RingOf([ev EXCEPT ![h] = e], (h + 1) % Capacity, sz, (ids \ {ev[h].id}) \cup {e.id}, n + 1, captured')
  <2>1. \A j, k \in 1..n : captured[j].id = captured[k].id => j = k
    BY <1>4 DEF CapturedOnce
  <2>2. PICK all \in Seq(TimelineEvents) : all = captured
    BY <1>1
  <2>3. RingOf(ev, h, sz, ids, n, all) /\ \A j, k \in 1..n : all[j].id = all[k].id => j = k
    BY <1>3, <2>1, <2>2
  <2>4. /\ sz < Capacity =>
             RingOf([ev EXCEPT ![sz] = e], h, sz + 1, ids \cup {e.id}, n + 1, Append(all, e))
        /\ sz = Capacity =>
             RingOf([ev EXCEPT ![h] = e], (h + 1) % Capacity, sz, (ids \ {ev[h].id}) \cup {e.id},
                    n + 1, Append(all, e))
    BY ONLY <2>3, RingTakes, e \in TimelineEvents, ev \in [0..(Capacity - 1) -> TimelineEvents \cup {NoEvent}],
            h \in 0..(Capacity - 1), sz \in 0..Capacity, n \in Nat, all \in Seq(TimelineEvents)
  <2> QED
    BY <1>1, <2>2, <2>4
<1>7. CASE sz < Capacity
  <2>1. (h + sz) % Capacity = sz
    <3>1. h = 0 /\ sz \in 0..(Capacity - 1)
      BY <1>3, <1>7, Around DEF RingOf
    <3> QED
      BY <3>1, SlotsTurn
  <2>2. PICK new : new = [ev EXCEPT ![sz] = e]
    OBVIOUS
  <2>3. ring' = [ring EXCEPT !.events[sz] = e, !.size = sz + 1, !.ids = ids \cup {e.id}]
    BY <1>3, <1>5, <1>7, <2>1 DEF Capture, Appended
  <2>4. new \in [0..(Capacity - 1) -> TimelineEvents \cup {NoEvent}] /\ sz + 1 \in 0..Capacity
        /\ ids \cup {e.id} \in SUBSET EventIds
    BY <1>5, <1>7, <2>2, Around
  <2>5. /\ ring' \in Rings /\ ring'.events = new /\ ring'.head = h /\ ring'.size = sz + 1
        /\ ring'.ids = ids \cup {e.id} /\ ring'.truncated = ring.truncated
    BY <1>3, <2>2, <2>3, <2>4 DEF Rings
  <2>6. ring'.truncated <=> n + 1 > Capacity
    BY <1>3, <1>7, <2>5, Around DEF RingOf
  <2>7. RingHolds'
    BY <1>4, <1>6, <1>7, <2>2, <2>5, <2>6, RingIsClosed
  <2> QED
    BY <1>1, <1>2, <2>5, <2>7 DEF TimelineTypes, Rings
<1>8. CASE sz = Capacity
  <2>1. PICK new : new = [ev EXCEPT ![h] = e]
    OBVIOUS
  <2>2. PICK g \in 0..(Capacity - 1) : g = (h + 1) % Capacity
    BY SlotsTurn
  <2>3. ring' = [ring EXCEPT !.events[h] = e, !.head = g, !.truncated = TRUE,
                             !.ids = (ids \ {ev[h].id}) \cup {e.id}]
    BY <1>3, <1>5, <1>8, <2>2, Around DEF Capture, Appended
  <2>4. new \in [0..(Capacity - 1) -> TimelineEvents \cup {NoEvent}]
        /\ (ids \ {ev[h].id}) \cup {e.id} \in SUBSET EventIds
    BY <1>5, <2>1
  <2>5. /\ ring' \in Rings /\ ring'.events = new /\ ring'.head = g /\ ring'.size = sz
        /\ ring'.ids = (ids \ {ev[h].id}) \cup {e.id} /\ ring'.truncated = TRUE
    BY <1>3, <2>1, <2>3, <2>4 DEF Rings
  <2>6. n + 1 > Capacity
    BY <1>3, <1>8, Around DEF RingOf
  <2>7. RingHolds'
    BY <1>4, <1>6, <1>8, <2>1, <2>2, <2>5, <2>6, RingIsClosed
  <2> QED
    BY <1>1, <1>2, <2>5, <2>7 DEF TimelineTypes, Rings
<1> QED
  BY <1>7, <1>8, Around

-----------------------------------------------------------------------------
(* What a reader is given *)

\* Entries of one history are told apart by their identifiers.
Identified(S) == S \subseteq HistoryRecords /\ \A d, e \in S : d.id = e.id => d = e

LEMMA HistoryFacts ==
  ASSUME TimelineTypes, CapturedOnce, RingHolds
  PROVE  IsFiniteSet(HistoryEntries) /\ Identified(HistoryEntries)
<1>1. Capacity \in Nat \ {0} /\ EventIds \subseteq 1..9 /\ LastTime \in 1..9
  BY TimelineConstants
<1>2. PICK all \in Seq(TimelineEvents), n \in Nat, sz \in Nat :
        /\ sz <= n /\ all = captured /\ n = Len(all) /\ sz = ring.size
        /\ \A k \in 1..sz : Snapshot[k] = all[n - sz + k]
        /\ DOMAIN Snapshot = 1..sz
  <2>1. PICK all \in Seq(TimelineEvents), n \in Nat, sz \in 0..Capacity, h \in 0..(Capacity - 1),
               ev \in [0..(Capacity - 1) -> TimelineEvents \cup {NoEvent}] :
          all = captured /\ n = Len(all) /\ sz = ring.size /\ h = ring.head /\ ev = ring.events
    BY DEF TimelineTypes
  <2>2. sz \in Nat /\ sz <= n
    BY <1>1, <2>1 DEF RingHolds
  <2>3. \A k \in 1..sz : ev[(h + k - 1) % Capacity] = all[n - sz + k]
    BY <2>1 DEF RingHolds
  <2>4. Snapshot = [k \in 1..sz |-> ev[(h + k - 1) % Capacity]]
    BY <2>1 DEF Snapshot
  <2> QED
    BY <2>1, <2>2, <2>3, <2>4
<1>3. PICK told : told = {Snapshot[k] : k \in DOMAIN Snapshot}
  OBVIOUS
<1>4. IsFiniteSet(told)
  <2>1. IsFiniteSet(1..sz)
    BY FS_Interval
  <2>2. PICK f : f = [k \in 1..sz |-> Snapshot[k]]
    OBVIOUS
  <2>3. told = {f[k] : k \in 1..sz}
    BY <1>2, <1>3, <2>2
  <2>4. f \in Surjection(1..sz, told)
    BY <2>2, <2>3 DEF Surjection
  <2> QED
    BY <2>1, <2>4, FS_Surjection
<1>5. \A e \in told : e \in TimelineEvents /\ \E k \in 1..n : e = all[k]
  <2> SUFFICES ASSUME NEW e \in told PROVE e \in TimelineEvents /\ \E k \in 1..n : e = all[k]
    OBVIOUS
  <2>1. PICK k \in 1..sz : e = all[n - sz + k]
    BY <1>2, <1>3
  <2>2. n - sz + k \in 1..n
    BY <1>2, <2>1
  <2> QED
    BY <1>2, <2>1, <2>2
<1>6. \A d, e \in told : d.id = e.id => d = e
  <2> SUFFICES ASSUME NEW d \in told, NEW e \in told, d.id = e.id PROVE d = e
    OBVIOUS
  <2>1. PICK j \in 1..n, k \in 1..n : d = all[j] /\ e = all[k]
    BY <1>5
  <2>2. j = k
    BY <1>2, <2>1 DEF CapturedOnce
  <2> QED
    BY <2>1, <2>2
<1>18. Times \subseteq 1..9
  BY <1>1 DEF Times
<1>7. \A e \in told : e \in HistoryRecords /\ e.id \in 1..9
  <2> SUFFICES ASSUME NEW e \in told PROVE e \in HistoryRecords /\ e.id \in 1..9
    OBVIOUS
  <2>1. PICK i \in 1..9, type \in {"running", "retrying", "session"}, t \in 1..9 : e = [id |-> i, type |-> type, at |-> t]
    BY <1>1, <1>5, <1>18 DEF TimelineEvents
  <2>2. i \in Nat /\ t \in Nat /\ type \in EntryTypes
    BY DEF EntryTypes
  <2> QED
    BY <2>1, <2>2 DEF HistoryRecords
<1>8. PICK u : u = Synthetic("task.updated", 30, updated)
  OBVIOUS
<1>9. u \in HistoryRecords /\ u.id \in 31..39
  BY <1>1, <1>8 DEF Synthetic, HistoryRecords, EntryTypes, TimelineTypes, Times
<1>10. PICK p : p = Synthetic(view.phase, IF view.phase = "running" THEN 10 ELSE 20, view.at)
  OBVIOUS
<1>11. view.phase # "none" => p \in HistoryRecords /\ p.id \in 11..29
  <2> HAVE view.phase # "none"
  <2>1. PICK phase \in {"running", "retrying"}, t \in 1..9 : phase = view.phase /\ t = view.at
    <3>1. PICK phase \in {"none", "running", "retrying"}, t \in 0..LastTime :
            phase = view.phase /\ t = view.at /\ view = [phase |-> phase, at |-> t]
      BY DEF TimelineTypes
    <3>2. phase # "none" /\ t \in 1..LastTime
      BY <3>1 DEF TimelineTypes, Times
    <3> QED
      BY <1>1, <3>1, <3>2
  <2>2. p = [id |-> (IF phase = "running" THEN 10 ELSE 20) + t, type |-> phase, at |-> t]
    BY <1>10, <2>1 DEF Synthetic
  <2>3. PICK base \in {10, 20} : base = (IF phase = "running" THEN 10 ELSE 20)
    OBVIOUS
  <2>4. base + t \in 11..29 /\ base + t \in Nat /\ t \in Nat /\ phase \in EntryTypes
    BY DEF EntryTypes
  <2> QED
    BY <2>2, <2>3, <2>4 DEF HistoryRecords
<1>12. \E P \in {{}, {p}} : /\ HistoryEntries = (told \cup {u}) \cup P
                            /\ P # {} => view.phase # "none"
  BY <1>3, <1>8, <1>10 DEF HistoryEntries
<1>13. PICK P \in {{}, {p}} : HistoryEntries = (told \cup {u}) \cup P /\ (P # {} => view.phase # "none")
  BY <1>12
<1>14. IsFiniteSet(HistoryEntries)
  <2>1. IsFiniteSet(P) /\ IsFiniteSet({u})
    <3>1. IsFiniteSet({}) /\ IsFiniteSet({p}) /\ IsFiniteSet({u})
      BY FS_EmptySet, FS_Singleton
    <3> QED
      BY <1>13, <3>1
  <2> QED
    BY <1>4, <1>13, <2>1, FS_Union
<1>15. \A e \in P : e = p /\ e \in HistoryRecords /\ e.id \in 11..29
  BY <1>11, <1>13
<1>16. \A e \in HistoryEntries : /\ e \in HistoryRecords
                                 /\ \/ e \in told /\ e.id \in 1..9
                                    \/ e = u /\ e.id \in 31..39
                                    \/ e = p /\ e.id \in 11..29
  BY <1>7, <1>9, <1>13, <1>15
<1>17. ASSUME NEW d \in HistoryEntries, NEW e \in HistoryEntries, d.id = e.id PROVE d = e
  <2>1. PICK i \in Nat : i = d.id /\ i = e.id
    BY <1>16, <1>17 DEF HistoryRecords
  <2>2. \/ d \in told /\ i \in 1..9
        \/ d = u /\ i \in 31..39
        \/ d = p /\ i \in 11..29
    BY <1>16, <2>1
  <2>3. \/ e \in told /\ i \in 1..9
        \/ e = u /\ i \in 31..39
        \/ e = p /\ i \in 11..29
    BY <1>16, <2>1
  <2>4. \/ d \in told /\ e \in told
        \/ d = u /\ e = u
        \/ d = p /\ e = p
    <3>1. /\ i \in 1..9 => i <= 9
          /\ i \in 11..29 => 11 <= i /\ i <= 29
          /\ i \in 31..39 => 31 <= i
      OBVIOUS
    <3> QED
      BY <2>2, <2>3, <3>1
  <2> QED
    BY <1>6, <1>17, <2>4
<1> QED
  BY <1>14, <1>16, <1>17 DEF Identified

\* Positions of a history are in a line.
LEMMA PositionsInLine ==
  /\ \A d \in HistoryRecords : ~After(d, d)
  /\ \A d, e, c \in HistoryRecords : After(d, e) /\ After(e, c) => After(d, c)
  /\ \A d, e \in HistoryRecords : d.id # e.id => After(d, e) \/ After(e, d)
<1>1. \A d \in HistoryRecords : d.id \in Nat /\ d.at \in Nat
  BY DEF HistoryRecords
<1>2. ASSUME NEW d \in HistoryRecords PROVE ~After(d, d)
  BY <1>1 DEF After
<1>3. ASSUME NEW d \in HistoryRecords, NEW e \in HistoryRecords, NEW c \in HistoryRecords,
             After(d, e), After(e, c)
      PROVE  After(d, c)
  BY <1>1, <1>3 DEF After
<1>4. ASSUME NEW d \in HistoryRecords, NEW e \in HistoryRecords, d.id # e.id
      PROVE  After(d, e) \/ After(e, d)
  BY <1>1, <1>4 DEF After
<1> QED
  BY <1>2, <1>3, <1>4

\* The entries in their order: all of them, each after the one before it.
LEMMA OrderedIsSorted ==
  ASSUME IsFiniteSet(HistoryEntries), Identified(HistoryEntries)
  PROVE  /\ Ordered \in Seq(HistoryEntries) /\ Len(Ordered) \in Nat /\ DOMAIN Ordered = 1..Len(Ordered)
         /\ \A j, k \in 1..Len(Ordered) : j < k => After(Ordered[k], Ordered[j])
         /\ \A e \in HistoryEntries : \E k \in 1..Len(Ordered) : Ordered[k] = e
<1>1. PICK S : S = HistoryEntries
  OBVIOUS
<1>2. IsFiniteSet(S) /\ S \subseteq HistoryRecords /\ \A d, e \in S : d.id = e.id => d = e
  BY <1>1 DEF Identified
<1> DEFINE R == {p \in HistoryRecords \X HistoryRecords : After(p[2], p[1])}
<1>3. \A d, e \in HistoryRecords : <<d, e>> \in R <=> After(e, d)
  OBVIOUS
<1> HIDE DEF R
<1>4. Orders(R, S)
  <2>1. \A d \in S : <<d, d>> \notin R
    BY <1>2, <1>3, PositionsInLine
  <2>2. \A d, e \in S : d # e => <<d, e>> \in R \/ <<e, d>> \in R
    <3> SUFFICES ASSUME NEW d \in S, NEW e \in S, d # e PROVE <<d, e>> \in R \/ <<e, d>> \in R
      OBVIOUS
    <3>1. d.id # e.id /\ d \in HistoryRecords /\ e \in HistoryRecords
      BY <1>2
    <3> QED
      BY <1>3, <3>1, PositionsInLine
  <2>3. \A d, e, c \in S : <<d, e>> \in R /\ <<e, c>> \in R => <<d, c>> \in R
    <3> SUFFICES ASSUME NEW d \in S, NEW e \in S, NEW c \in S, <<d, e>> \in R, <<e, c>> \in R PROVE <<d, c>> \in R
      OBVIOUS
    <3>1. d \in HistoryRecords /\ e \in HistoryRecords /\ c \in HistoryRecords
      BY <1>2
    <3>2. After(e, d) /\ After(c, e)
      BY <1>3, <3>1
    <3>3. After(c, d)
      BY <3>1, <3>2, PositionsInLine
    <3> QED
      BY <1>3, <3>1, <3>3
  <2> QED
    BY <2>1, <2>2, <2>3 DEF Orders
<1>5. PICK n \in Nat : n = Cardinality(S)
  BY <1>2, FS_CardinalityType
<1>6. /\ \A e \in S : RankIn(e, S, R) \in 0..(n - 1)
      /\ \A d, e \in S : <<d, e>> \in R <=> RankIn(d, S, R) < RankIn(e, S, R)
      /\ \A m \in 0..(n - 1) : \E e \in S : RankIn(e, S, R) = m
  BY <1>2, <1>4, <1>5, RanksFollow
<1>7. \A e \in S : RankIn(e, S, R) = Cardinality({d \in S : After(e, d)})
  <2> SUFFICES ASSUME NEW e \in S PROVE RankIn(e, S, R) = Cardinality({d \in S : After(e, d)})
    OBVIOUS
  <2>1. {d \in S : <<d, e>> \in R} = {d \in S : After(e, d)}
    BY <1>2, <1>3
  <2> QED
    BY <2>1 DEF RankIn
<1>8. PICK o : o = Ordered
  OBVIOUS
<1>9. o = [k \in 1..n |-> CHOOSE e \in S : Cardinality({d \in S : After(e, d)}) = k - 1]
  BY <1>1, <1>5, <1>8 DEF Ordered
<1>10. ASSUME NEW k \in 1..n PROVE o[k] \in S /\ RankIn(o[k], S, R) = k - 1
  <2>1. k - 1 \in 0..(n - 1)
    OBVIOUS
  <2>2. \E e \in S : Cardinality({d \in S : After(e, d)}) = k - 1
    BY <1>6, <1>7, <2>1
  <2>3. o[k] \in S /\ Cardinality({d \in S : After(o[k], d)}) = k - 1
    BY <1>9, <2>2
  <2> QED
    BY <1>7, <2>3
<1>11. o \in Seq(S) /\ Len(o) = n /\ DOMAIN o = 1..n
  <2>1. o \in [1..n -> S]
    BY <1>9, <1>10
  <2> QED
    BY <2>1
<1>12. ASSUME NEW j \in 1..n, NEW k \in 1..n, j < k PROVE After(o[k], o[j])
  <2>1. RankIn(o[j], S, R) < RankIn(o[k], S, R) /\ o[j] \in S /\ o[k] \in S
    BY <1>10, <1>12
  <2>2. <<o[j], o[k]>> \in R
    BY <1>6, <2>1
  <2> QED
    BY <1>2, <1>3, <2>1, <2>2
<1>13. ASSUME NEW e \in S PROVE \E k \in 1..n : o[k] = e
  <2>1. PICK k \in 1..n : RankIn(e, S, R) = k - 1
    <3>1. PICK m \in 0..(n - 1) : RankIn(e, S, R) = m
      BY <1>6
    <3> QED
      BY <3>1, m + 1 \in 1..n, m = (m + 1) - 1
  <2>2. o[k] \in S /\ RankIn(o[k], S, R) = k - 1
    BY <1>10
  <2>3. ~(RankIn(e, S, R) < RankIn(o[k], S, R)) /\ ~(RankIn(o[k], S, R) < RankIn(e, S, R))
    BY <2>1, <2>2
  <2>4. o[k] = e
    BY <1>4, <1>6, <2>2, <2>3 DEF Orders
  <2> QED
    BY <2>4
<1> QED
  BY <1>1, <1>8, <1>11, <1>12, <1>13

Sorted(q) == \A j, k \in 1..Len(q) : j < k => After(q[k], q[j])

\* From a on, everything of o is beyond the last one of s.
GoesOn(o, a, s) == Len(s) # 0 => \A k \in (a + 1)..Len(o) : After(o[k], s[Len(s)])

\* A page that goes on where the cursor is keeps the pages in their order.
LEMMA PagesGoOn ==
  ASSUME NEW o \in Seq(HistoryRecords), Sorted(o), NEW s \in Seq(HistoryRecords), Sorted(s),
         NEW a \in 0..Len(o), NEW b \in a..Len(o), GoesOn(o, a, s)
  PROVE  LET t == s \o SubSeq(o, a + 1, b) IN
         /\ t \in Seq(HistoryRecords) /\ Len(t) = Len(s) + (b - a)
         /\ \A k \in 1..Len(s) : t[k] = s[k]
         /\ \A k \in (a + 1)..b : t[Len(s) + (k - a)] = o[k]
         /\ Sorted(t)
<1>0. PICK n \in Nat, m \in Nat :
        /\ n = Len(o) /\ m = Len(s)
        /\ \A j, k \in 1..n : j < k => After(o[k], o[j])
        /\ \A j, k \in 1..m : j < k => After(s[k], s[j])
        /\ m # 0 => \A k \in (a + 1)..n : After(o[k], s[m])
        /\ a \in 0..n /\ b \in a..n
  <2>1. Len(o) \in Nat /\ Len(s) \in Nat
    OBVIOUS
  <2> QED
    BY <2>1 DEF Sorted, GoesOn
<1> USE <1>0
<1>1. PICK p : p = SubSeq(o, a + 1, b)
  OBVIOUS
<1>2. p \in Seq(HistoryRecords) /\ Len(p) = b - a /\ \A k \in 1..(b - a) : p[k] = o[a + k]
  <2>1. \A k \in (a + 1)..b : o[k] \in HistoryRecords
    OBVIOUS
  <2>2. /\ p \in Seq(HistoryRecords) /\ Len(p) = (IF a + 1 <= b THEN b - (a + 1) + 1 ELSE 0)
        /\ \A k \in 1..(b - (a + 1) + 1) : p[k] = o[(a + 1) + k - 1]
    BY <1>1, <2>1, SubSeqProperties
  <2>3. b - (a + 1) + 1 = b - a
    OBVIOUS
  <2>4. Len(p) = b - a
    BY <2>2
  <2>5. ASSUME NEW k \in 1..(b - a) PROVE p[k] = o[a + k]
    <3>1. (a + 1) + k - 1 = a + k
      OBVIOUS
    <3> QED
      BY <2>2, <2>3, <3>1
  <2> QED
    BY <2>2, <2>4, <2>5
<1>3. PICK t : t = s \o p
  OBVIOUS
<1>4. /\ t \in Seq(HistoryRecords) /\ Len(t) = m + (b - a)
      /\ \A k \in 1..m : t[k] = s[k]
      /\ \A k \in 1..(b - a) : t[m + k] = p[k]
  <2>1. p \in Seq(HistoryRecords)
    BY <1>2
  <2>2. /\ t \in Seq(HistoryRecords) /\ Len(t) = m + (b - a)
        /\ \A k \in 1..(m + (b - a)) : t[k] = IF k <= m THEN s[k] ELSE p[k - m]
    <3>1. PICK l \in Nat : l = Len(p) /\ l = b - a
      BY <1>2
    <3>2. /\ s \o p \in Seq(HistoryRecords) /\ Len(s \o p) = Len(s) + Len(p)
          /\ \A k \in 1..(Len(s) + Len(p)) : (s \o p)[k] = IF k <= Len(s) THEN s[k] ELSE p[k - Len(s)]
      BY <2>1, ConcatProperties
    <3>3. /\ t \in Seq(HistoryRecords) /\ Len(t) = m + l
          /\ \A k \in 1..(m + l) : t[k] = IF k <= m THEN s[k] ELSE p[k - m]
      BY <1>3, <3>1, <3>2
    <3> QED
      BY <3>1, <3>3
  <2>3. ASSUME NEW k \in 1..(b - a) PROVE t[m + k] = p[k]
    <3>1. m + k \in 1..(m + (b - a)) /\ ~(m + k <= m) /\ (m + k) - m = k
      OBVIOUS
    <3> QED
      BY <2>2, <3>1
  <2>4. ASSUME NEW k \in 1..m PROVE t[k] = s[k]
    <3>1. k \in 1..(m + (b - a)) /\ k <= m
      OBVIOUS
    <3> QED
      BY <2>2, <3>1
  <2> QED
    BY <2>2, <2>3, <2>4
<1>5. ASSUME NEW k \in (a + 1)..b PROVE t[m + (k - a)] = o[k]
  <2>1. k - a \in 1..(b - a) /\ a + (k - a) = k
    OBVIOUS
  <2> QED
    BY <1>2, <1>4, <2>1
<1>6. \A k \in 1..n : o[k] \in HistoryRecords
  OBVIOUS
<1>7. \A k \in 1..m : s[k] \in HistoryRecords
  OBVIOUS
<1>8. ASSUME NEW j \in 1..(m + (b - a)), NEW k \in 1..(m + (b - a)), j < k PROVE After(t[k], t[j])
  <2>1. CASE k <= m
    <3>1. j \in 1..m /\ k \in 1..m
      BY <1>8, <2>1
    <3> QED
      BY <1>4, <1>8, <3>1
  <2>2. CASE k > m
    <3>1. PICK y \in (a + 1)..b : k = m + (y - a)
      BY <2>2, k - m + a \in (a + 1)..b, k = m + ((k - m + a) - a)
    <3>2. t[k] = o[y] /\ y \in 1..n
      BY <1>5, <3>1
    <3>3. CASE j > m
      <4>1. PICK x \in (a + 1)..b : j = m + (x - a)
        BY <3>3, j - m + a \in (a + 1)..b, j = m + ((j - m + a) - a)
      <4>2. t[j] = o[x] /\ x \in 1..n /\ x < y
        BY <1>5, <1>8, <3>1, <4>1
      <4> QED
        BY <3>2, <4>2
    <3>4. CASE j <= m
      <4>1. j \in 1..m /\ m \in 1..m /\ m # 0 /\ y \in (a + 1)..n
        BY <3>4, <3>1
      <4>2. After(o[y], s[m]) /\ t[j] = s[j]
        BY <1>4, <4>1
      <4>3. j = m \/ After(s[m], s[j])
        BY <4>1
      <4> QED
        BY <1>6, <1>7, <3>2, <4>1, <4>2, <4>3, PositionsInLine
    <3> QED
      BY <3>3, <3>4
  <2> QED
    BY <2>1, <2>2
<1>9. Sorted(t)
  BY <1>4, <1>8 DEF Sorted
<1> QED
  BY <1>0, <1>1, <1>3, <1>4, <1>5, <1>9

\* Where a page begins: what comes before is not beyond the cursor, what follows is.
LEMMA PageBegins ==
  ASSUME NEW S \in SUBSET HistoryRecords, NEW o \in Seq(S), NEW n \in Nat, n = Len(o),
         \A j, k \in 1..n : j < k => After(o[k], o[j]),
         reader.seen \in Seq(HistoryRecords)
  PROVE  /\ Offset(o) \in 0..n
         /\ reader.seen = <<>> => Offset(o) = 0
         /\ reader.seen # <<>> => /\ \A k \in 1..Offset(o) : ~After(o[k], Cursor)
                                  /\ \A k \in (Offset(o) + 1)..n : After(o[k], Cursor)
<1>1. CASE reader.seen = <<>>
  BY <1>1 DEF Offset
<1>2. CASE reader.seen # <<>>
  <2>1. PICK c \in HistoryRecords : c = Cursor
    BY <1>2 DEF Cursor
  <2>2. PICK B : B = {k \in 1..n : After(o[k], c)}
    OBVIOUS
  <2>3. \E m \in 0..n : /\ \A k \in 1..m : ~After(o[k], c)
                        /\ m < n => After(o[m + 1], c)
    <3>1. CASE B = {}
      BY <2>2, <3>1
    <3>2. CASE B # {}
      <4>1. IsFiniteSet(1..n) /\ B \subseteq 1..n
        BY <2>2, FS_Interval
      <4>2. IsFiniteSet(B) /\ B \in SUBSET Nat
        <5>1. IsFiniteSet(B)
          BY <4>1, FS_Subset
        <5> QED
          BY <4>1, <5>1
      <4>3. PICK q \in Nat : q = Cardinality(B)
        BY <4>2, FS_CardinalityType
      <4>4. /\ \A i \in B : NewerThan(i, B) \in 0..(q - 1)
            /\ \A i, j \in B : i > j <=> NewerThan(i, B) < NewerThan(j, B)
            /\ \A x \in 0..(q - 1) : \E i \in B : NewerThan(i, B) = x
        BY <4>2, <4>3, NewerRanks
      <4>5. q - 1 \in 0..(q - 1)
        BY <3>2, <4>4
      <4>6. PICK i \in B : NewerThan(i, B) = q - 1
        BY <4>4, <4>5
      <4>7. ASSUME NEW j \in B PROVE ~(j < i)
        <5>1. NewerThan(j, B) \in 0..(q - 1) /\ NewerThan(i, B) \in 0..(q - 1)
          BY <4>4
        <5>2. ~(NewerThan(i, B) < NewerThan(j, B))
          BY <4>6, <5>1
        <5>3. ~(i > j)
          BY <4>4, <5>2
        <5> QED
          BY <4>2, <5>3
      <4>8. i \in 1..n /\ After(o[i], c)
        BY <2>2
      <4>9. /\ i - 1 \in 0..n /\ (i - 1) + 1 = i
            /\ \A k \in 1..(i - 1) : ~After(o[k], c)
        <5>1. ASSUME NEW k \in 1..(i - 1), After(o[k], c) PROVE FALSE
          <6>1. k \in B /\ k < i
            BY <2>2, <4>8, <5>1
          <6> QED
            BY <4>7, <6>1
        <5> QED
          BY <4>8, <5>1
      <4> QED
        BY <4>8, <4>9
    <3> QED
      BY <3>1, <3>2
  <2>4. PICK a : a = Offset(o)
    OBVIOUS
  <2>5. a = CHOOSE m \in 0..n : /\ \A k \in 1..m : ~After(o[k], c)
                                /\ m < n => After(o[m + 1], c)
    BY <1>2, <2>1, <2>4 DEF Offset, Beyond
  <2>6. /\ a \in 0..n
        /\ \A k \in 1..a : ~After(o[k], c)
        /\ a < n => After(o[a + 1], c)
    BY <2>3, <2>5
  <2>7. ASSUME NEW k \in (a + 1)..n PROVE After(o[k], c)
    <3>1. a < n /\ a + 1 \in 1..n /\ k \in 1..n /\ (k = a + 1 \/ a + 1 < k)
      BY <2>6
    <3>2. k = a + 1 \/ After(o[k], o[a + 1])
      BY <3>1
    <3>3. o[k] \in HistoryRecords /\ o[a + 1] \in HistoryRecords
      BY <3>1
    <3> QED
      BY <2>1, <2>6, <3>1, <3>2, <3>3, PositionsInLine
  <2> QED
    BY <1>2, <2>1, <2>4, <2>6, <2>7
<1> QED
  BY <1>1, <1>2

LEMMA PageKeepsReader ==
  ASSUME TimelineIInv, NEW limit \in PageLimits, ReadPage(limit)
  PROVE  ReaderHolds'
<1>1. limit \in Nat \ {0}
  BY TimelineConstants
<1>2. IsFiniteSet(HistoryEntries) /\ Identified(HistoryEntries)
  BY HistoryFacts DEF TimelineIInv
<1>3. PICK S \in SUBSET HistoryRecords : S = HistoryEntries
  BY <1>2 DEF Identified
<1>4. PICK o \in Seq(S), n \in Nat :
        /\ o = Ordered /\ n = Len(o)
        /\ \A j, k \in 1..n : j < k => After(o[k], o[j])
        /\ \A e \in S : \E k \in 1..n : o[k] = e
  BY <1>2, <1>3, OrderedIsSorted
<1>5. PICK s \in Seq(HistoryRecords), m \in Nat, always \in SUBSET S :
        /\ s = reader.seen /\ m = Len(s) /\ DOMAIN s = 1..m /\ always = reader.always
        /\ \A j, k \in 1..m : j < k => After(s[k], s[j])
        /\ reader.more => m # 0
        /\ reader.open \/ (m = 0 /\ always = {})
  BY <1>3 DEF TimelineIInv, ReaderHolds, NotReading
<1>6. PICK a \in 0..n : a = Offset(o)
  BY <1>4, <1>5, PageBegins
<1>7. s = <<>> <=> m = 0
  BY <1>5
<1>8. m # 0 => Cursor = s[m] /\ s[m] \in HistoryRecords
  BY <1>5, <1>7 DEF Cursor
<1>9. /\ m = 0 => a = 0
      /\ m # 0 => /\ \A k \in 1..a : ~After(o[k], s[m])
                  /\ \A k \in (a + 1)..n : After(o[k], s[m])
  <2>1. /\ reader.seen = <<>> => Offset(o) = 0
        /\ reader.seen # <<>> => /\ \A k \in 1..Offset(o) : ~After(o[k], Cursor)
                                 /\ \A k \in (Offset(o) + 1)..n : After(o[k], Cursor)
    BY <1>4, <1>5, PageBegins
  <2>2. m = 0 => a = 0
    BY <1>5, <1>6, <1>7, <2>1
  <2>3. ASSUME m # 0
        PROVE  /\ \A k \in 1..a : ~After(o[k], s[m])
               /\ \A k \in (a + 1)..n : After(o[k], s[m])
    <3>1. reader.seen # <<>> /\ Cursor = s[m]
      BY <1>5, <1>7, <1>8, <2>3
    <3> QED
      BY <1>6, <2>1, <3>1
  <2> QED
    BY <2>2, <2>3
<1>10. PICK b \in a..n : b = IF a + limit < n THEN a + limit ELSE n
  BY <1>1
<1>11. PICK t : t = s \o SubSeq(o, a + 1, b)
  OBVIOUS
<1>12. /\ t \in Seq(HistoryRecords) /\ Len(t) = m + (b - a)
       /\ \A k \in 1..m : t[k] = s[k]
       /\ \A k \in (a + 1)..b : t[m + (k - a)] = o[k]
       /\ \A j, k \in 1..(m + (b - a)) : j < k => After(t[k], t[j])
  <2>1. GoesOn(o, a, s) /\ Sorted(o) /\ Sorted(s)
    BY <1>4, <1>5, <1>9 DEF GoesOn, Sorted
  <2>2. /\ t \in Seq(HistoryRecords) /\ Len(t) = Len(s) + (b - a)
        /\ \A k \in 1..Len(s) : t[k] = s[k]
        /\ \A k \in (a + 1)..b : t[Len(s) + (k - a)] = o[k]
        /\ Sorted(t)
    <3>1. a \in 0..Len(o) /\ b \in a..Len(o) /\ o \in Seq(HistoryRecords)
      BY <1>4
    <3> QED
      BY ONLY <1>11, <2>1, <3>1, PagesGoOn, s \in Seq(HistoryRecords)
  <2> QED
    BY <1>5, <2>2 DEF Sorted
<1>13. PICK kept \in SUBSET S : kept = IF reader.open THEN always ELSE S
  OBVIOUS
<1>14. reader' = [open |-> TRUE, seen |-> t, always |-> kept, more |-> b < n]
  BY <1>3, <1>4, <1>5, <1>6, <1>10, <1>11, <1>13 DEF ReadPage
<1>15. HistoryEntries' = S
  <2>1. ring' = ring /\ view' = view /\ updated' = updated
    BY DEF ReadPage
  <2>2. Snapshot' = Snapshot
    BY <2>1 DEF Snapshot
  <2> QED
    BY <1>3, <2>1, <2>2 DEF HistoryEntries
<1>16. DOMAIN t = 1..(m + (b - a))
  BY <1>12
<1>17. b < n => b - a # 0 /\ b > a
  BY <1>1, <1>10
<1>18. ASSUME b < n PROVE t # <<>> /\ Cursor' = o[b]
  <2>1. m + (b - a) \in Nat \ {0} /\ b \in (a + 1)..b
    BY <1>17, <1>18
  <2>2. t # <<>> /\ Cursor' = t[m + (b - a)]
    BY <1>12, <1>14, <2>1 DEF Cursor
  <2> QED
    BY <1>12, <2>1, <2>2
<1>19. ASSUME NEW e \in kept
       PROVE  (\E k \in 1..(m + (b - a)) : t[k] = e) \/ (b < n /\ After(e, o[b]))
  <2>1. (\E k \in 1..m : s[k] = e) \/ (\E k \in (a + 1)..n : o[k] = e)
    <3>1. PICK k \in 1..n : o[k] = e
      BY <1>4, <1>13
    <3>2. CASE reader.open
      <4>1. e \in reader.always /\ reader.more /\ m # 0
        BY <1>5, <1>13, <3>2 DEF ReadPage
      <4>2. (\E j \in 1..m : s[j] = e) \/ After(e, s[m])
        BY <1>5, <1>8, <4>1 DEF TimelineIInv, ReaderHolds
      <4>3. k \in 1..a \/ k \in (a + 1)..n
        OBVIOUS
      <4> QED
        BY <1>9, <3>1, <4>1, <4>2, <4>3
    <3>3. CASE ~reader.open
      <4>1. a = 0
        BY <1>5, <1>9, <3>3
      <4>2. k \in (a + 1)..n
        BY <4>1
      <4> QED
        BY <3>1, <4>2
    <3> QED
      BY <3>2, <3>3
  <2>2. CASE \E k \in 1..m : s[k] = e
    <3>1. PICK k \in 1..m : s[k] = e
      BY <2>2
    <3>2. k \in 1..(m + (b - a)) /\ t[k] = e
      BY <1>12, <3>1
    <3> QED
      BY <3>2
  <2>3. CASE \E k \in (a + 1)..n : o[k] = e
    <3>1. PICK k \in (a + 1)..n : o[k] = e
      BY <2>3
    <3>2. CASE k <= b
      <4>1. k \in (a + 1)..b /\ m + (k - a) \in 1..(m + (b - a))
        BY <3>2
      <4>2. t[m + (k - a)] = e
        BY <1>12, <3>1, <4>1
      <4> QED
        BY <4>1, <4>2
    <3>3. CASE b < k
      <4>1. b < n /\ b \in 1..n /\ k \in 1..n
        BY <1>17, <3>3
      <4>2. After(o[k], o[b])
        BY <1>4, <3>3, <4>1
      <4> QED
        BY <3>1, <4>1, <4>2
    <3> QED
      BY <3>2, <3>3
  <2> QED
    BY <2>1, <2>2, <2>3
<1>20. reader' \in [open : BOOLEAN, seen : Seq(HistoryRecords), always : SUBSET HistoryEntries', more : BOOLEAN]
  BY <1>12, <1>14, <1>15
<1>21. /\ reader'.open /\ reader'.seen = t /\ reader'.always = kept /\ (reader'.more <=> b < n)
  BY <1>14
<1>22. /\ \A j, k \in DOMAIN reader'.seen : j < k => After(reader'.seen[k], reader'.seen[j])
       /\ reader'.more => reader'.seen # <<>>
       /\ \A e \in reader'.always :
            \/ \E k \in DOMAIN reader'.seen : reader'.seen[k] = e
            \/ reader'.more /\ After(e, Cursor')
  BY <1>12, <1>16, <1>18, <1>19, <1>21
<1> QED
  BY <1>20, <1>21, <1>22 DEF ReaderHolds, After

\* What is dropped is no longer asked for.
LEMMA KeepsReader ==
  ASSUME ReaderHolds, Keeps
  PROVE  ReaderHolds'
<1>1. PICK s, always, open, more :
        /\ reader = [open |-> open, seen |-> s, always |-> always, more |-> more]
        /\ s \in Seq(HistoryRecords) /\ always \subseteq HistoryEntries /\ open \in BOOLEAN /\ more \in BOOLEAN
  BY DEF ReaderHolds
<1>2. PICK left : left = always \cap HistoryEntries'
  OBVIOUS
<1>3. reader' = [open |-> open, seen |-> s, always |-> left, more |-> more]
  BY <1>1, <1>2 DEF Keeps
<1>4. reader'.seen = s /\ reader'.always = left /\ reader'.more = more /\ reader'.open = open
  BY <1>3
<1>5. reader.seen = s /\ reader.always = always /\ reader.more = more /\ reader.open = open
  BY <1>1
<1>6. Cursor' = Cursor
  BY <1>4, <1>5 DEF Cursor
<1>7. reader' \in [open : BOOLEAN, seen : Seq(HistoryRecords), always : SUBSET HistoryEntries', more : BOOLEAN]
  BY <1>1, <1>2, <1>3
<1>8. ~open => reader' = NotReading
  <2> HAVE ~open
  <2>1. reader = NotReading
    BY <1>5 DEF ReaderHolds
  <2>2. always = {} /\ left = {}
    BY <1>2, <1>5, <2>1 DEF NotReading
  <2> QED
    BY <1>1, <1>3, <2>1, <2>2
<1>9. /\ \A j, k \in DOMAIN s : j < k => After(s[k], s[j])
      /\ more => s # <<>>
      /\ \A e \in left : (\E k \in DOMAIN s : s[k] = e) \/ (more /\ After(e, Cursor))
  BY <1>2, <1>5 DEF ReaderHolds
<1>10. \A e \in left : (\E k \in DOMAIN s : s[k] = e) \/ (more /\ After(e, Cursor'))
  BY <1>6, <1>9
<1> QED
  BY <1>4, <1>7, <1>8, <1>9, <1>10 DEF ReaderHolds, After

\* A session that reports its latest event once more changes nothing.
LEMMA RepeatsKeepRing ==
  ASSUME TimelineTypes, SessionRepeats
  PROVE  UNCHANGED <<ring, captured, view, updated, now>>
<1>1. PICK k \in DOMAIN captured : captured[k].id \in ring.ids /\ ring' = Appended(ring, captured[k])
  BY DEF SessionRepeats
<1>2. ring' = ring
  BY <1>1 DEF Appended
<1> QED
  BY <1>2 DEF SessionRepeats

LEMMA SameTimeline ==
  ASSUME TimelineTypes, CapturedOnce, RingHolds, UNCHANGED <<ring, captured>>,
         view' \in [phase : {"none", "running", "retrying"}, at : 0..LastTime],
         view'.phase # "none" => view'.at \in Times,
         updated' \in Times, now' \in Times
  PROVE  TimelineTypes' /\ CapturedOnce' /\ RingHolds'
  BY DEF TimelineTypes, CapturedOnce, RingHolds

LEMMA FreshEvents ==
  ASSUME NEW type \in {"running", "retrying", "session"}, NEW time \in Times, NEW e \in Fresh(type, time)
  PROVE  e \in TimelineEvents /\ \A k \in DOMAIN captured : captured[k].id # e.id
  BY DEF Fresh, TimelineEvents

LEMMA TimelineStepsKeepEvents ==
  ASSUME TimelineIInv, TimelineNext
  PROVE  TimelineTypes' /\ CapturedOnce' /\ RingHolds'
<1> USE DEF TimelineIInv
<1>0. /\ view \in [phase : {"none", "running", "retrying"}, at : 0..LastTime]
      /\ view.phase # "none" => view.at \in Times
      /\ updated \in Times /\ now \in Times
  BY DEF TimelineTypes
<1>1. ASSUME NEW limit \in PageLimits, ReadPage(limit) PROVE TimelineTypes' /\ CapturedOnce' /\ RingHolds'
  BY <1>0, <1>1, SameTimeline DEF ReadPage
<1>2. CASE CloseTimeline
  BY <1>0, <1>2, SameTimeline DEF CloseTimeline
<1>3. CASE SchedulerMoves
  <2>1. PICK phase \in {"running", "retrying"} : \E e \in Fresh(phase, now) :
          Capture(e) /\ view' = [phase |-> phase, at |-> now] /\ UNCHANGED <<updated, now>>
    BY <1>3 DEF SchedulerMoves
  <2>4. PICK e \in Fresh(phase, now) : Capture(e) /\ view' = [phase |-> phase, at |-> now] /\ UNCHANGED <<updated, now>>
    BY <2>1
  <2>2. e \in TimelineEvents /\ \A k \in DOMAIN captured : captured[k].id # e.id
    BY <1>0, FreshEvents
  <2>3. /\ view' \in [phase : {"none", "running", "retrying"}, at : 0..LastTime]
        /\ view'.at \in Times
    <3>1. now \in 0..LastTime
      BY <1>0 DEF Times
    <3> QED
      BY <1>0, <2>4, <3>1
  <2> QED
    BY <2>4, <2>2, <2>3, CaptureKeeps
<1>4. CASE SessionReports
  <2>1. PICK time \in 1..now : \E e \in Fresh("session", time) : Capture(e) /\ UNCHANGED <<view, updated, now>>
    BY <1>4 DEF SessionReports
  <2>2. time \in Times
    BY <1>0, TimelineConstants DEF Times
  <2>4. PICK e \in Fresh("session", time) : Capture(e) /\ UNCHANGED <<view, updated, now>>
    BY <2>1
  <2>3. e \in TimelineEvents /\ \A k \in DOMAIN captured : captured[k].id # e.id
    BY <2>2, FreshEvents
  <2> QED
    BY <1>0, <2>4, <2>3, CaptureKeeps
<1>5. CASE SessionRepeats
  BY <1>0, <1>5, RepeatsKeepRing, SameTimeline
<1>6. CASE ViewDropped
  <2>1. view' = [phase |-> "none", at |-> 0] /\ 0 \in 0..LastTime
    BY <1>6, TimelineConstants DEF ViewDropped
  <2> QED
    BY <1>0, <1>6, <2>1, SameTimeline DEF ViewDropped
<1>7. CASE IssueChanges
  BY <1>0, <1>7, SameTimeline DEF IssueChanges
<1>8. CASE Ticks
  <2>1. now' \in Times
    BY <1>0, <1>8, TimelineConstants DEF Ticks, Times
  <2> QED
    BY <1>0, <1>8, <2>1, SameTimeline DEF Ticks
<1> QED
  BY <1>1, <1>2, <1>3, <1>4, <1>5, <1>6, <1>7, <1>8 DEF TimelineNext

LEMMA TimelineStepsKeepReader ==
  ASSUME TimelineIInv, TimelineNext
  PROVE  ReaderHolds'
<1>1. ASSUME NEW limit \in PageLimits, ReadPage(limit) PROVE ReaderHolds'
  BY <1>1, PageKeepsReader
<1>2. CASE CloseTimeline
  <2>1. reader' = [open |-> FALSE, seen |-> <<>>, always |-> {}, more |-> FALSE]
    BY <1>2 DEF CloseTimeline, NotReading
  <2>2. /\ reader' \in [open : BOOLEAN, seen : Seq(HistoryRecords), always : SUBSET HistoryEntries', more : BOOLEAN]
        /\ reader' = NotReading /\ DOMAIN reader'.seen = {} /\ reader'.always = {} /\ ~reader'.more
    BY <2>1 DEF NotReading
  <2> QED
    BY <2>2 DEF ReaderHolds
<1>3. CASE Keeps
  BY <1>3, KeepsReader DEF TimelineIInv
<1>4. CASE Ticks
  <2>1. ring' = ring /\ view' = view /\ updated' = updated /\ reader' = reader
    BY <1>4 DEF Ticks
  <2>2. Snapshot' = Snapshot
    BY <2>1 DEF Snapshot
  <2>3. HistoryEntries' = HistoryEntries /\ Cursor' = Cursor
    BY <2>1, <2>2 DEF HistoryEntries, Cursor
  <2>4. ReaderHolds
    BY DEF TimelineIInv
  <2> QED
    BY <2>1, <2>3, <2>4 DEF ReaderHolds, After
<1> QED
  BY <1>1, <1>2, <1>3, <1>4
     DEF TimelineNext, SchedulerMoves, SessionReports, SessionRepeats, ViewDropped, IssueChanges

LEMMA TimelineBegins == TimelineInit => TimelineIInv
<1> SUFFICES ASSUME TimelineInit PROVE TimelineIInv
  OBVIOUS
<1>1. Capacity \in Nat \ {0} /\ LastTime \in 1..9
  BY TimelineConstants
<1>2. PICK ev : ev = [k \in 0..(Capacity - 1) |-> NoEvent]
  OBVIOUS
<1>3. /\ ring = [events |-> ev, head |-> 0, size |-> 0, ids |-> {}, truncated |-> FALSE]
      /\ captured = <<>> /\ view = [phase |-> "none", at |-> 0] /\ updated = 1 /\ now = 1
      /\ reader = [open |-> FALSE, seen |-> <<>>, always |-> {}, more |-> FALSE]
  BY <1>2 DEF TimelineInit, NotReading
<1>4. TimelineTypes
  <2>1. ev \in [0..(Capacity - 1) -> TimelineEvents \cup {NoEvent}] /\ 0 \in 0..(Capacity - 1)
        /\ 0 \in 0..Capacity /\ 0 \in 0..LastTime /\ 1 \in Times
    BY <1>1, <1>2 DEF Times
  <2> QED
    BY <1>3, <2>1 DEF TimelineTypes
<1>5. CapturedOnce
  BY <1>3 DEF CapturedOnce
<1>6. RingHolds
  <2>1. ring.head = 0 /\ ring.size = 0 /\ ring.ids = {} /\ ring.truncated = FALSE /\ Len(captured) = 0
    BY <1>3
  <2>2. 1..0 = {} /\ (0 - 0 + 1)..0 = {}
    OBVIOUS
  <2> QED
    BY <1>1, <2>1, <2>2 DEF RingHolds
<1>7. ReaderHolds
  BY <1>3 DEF ReaderHolds, NotReading
<1> QED
  BY <1>4, <1>5, <1>6, <1>7 DEF TimelineIInv

LEMMA TimelineKept ==
  ASSUME TimelineIInv, [TimelineNext]_timelineVars
  PROVE  TimelineIInv'
<1>1. CASE TimelineNext
  BY <1>1, TimelineStepsKeepEvents, TimelineStepsKeepReader DEF TimelineIInv
<1>2. CASE UNCHANGED timelineVars
  <2>1. ring' = ring /\ captured' = captured /\ view' = view /\ updated' = updated /\ now' = now /\ reader' = reader
    BY <1>2 DEF timelineVars
  <2>2. Snapshot' = Snapshot
    BY <2>1 DEF Snapshot
  <2>3. HistoryEntries' = HistoryEntries /\ Cursor' = Cursor
    BY <2>1, <2>2 DEF HistoryEntries, Cursor
  <2>4. TimelineTypes' /\ CapturedOnce' /\ RingHolds'
    BY <2>1, SameTimeline DEF TimelineIInv, TimelineTypes
  <2>5. ReaderHolds'
    BY <2>1, <2>3 DEF ReaderHolds, After, TimelineIInv
  <2> QED
    BY <2>4, <2>5 DEF TimelineIInv
<1> QED
  BY <1>1, <1>2

\* The invariant implies what the runs check: the ring is the end of what was captured, the pages one history.
LEMMA TimelineIsWhole == TimelineIInv => TimelineInv
<1> SUFFICES ASSUME TimelineIInv PROVE TimelineInv
  OBVIOUS
<1>1. TimelineTypeOK
  BY DEF TimelineIInv, TimelineTypes, TimelineTypeOK
<1>2. LatestEventsKept
  <2>1. PICK all \in Seq(TimelineEvents), n \in Nat, sz \in Nat :
          /\ sz <= n /\ all = captured /\ n = Len(all) /\ sz = ring.size
          /\ \A k \in 1..sz : Snapshot[k] = all[n - sz + k]
          /\ DOMAIN Snapshot = 1..sz
          /\ Snapshot = [k \in 1..sz |-> Snapshot[k]]
    <3>1. PICK all \in Seq(TimelineEvents), n \in Nat, sz \in 0..Capacity, h \in 0..(Capacity - 1),
                 ev \in [0..(Capacity - 1) -> TimelineEvents \cup {NoEvent}] :
            all = captured /\ n = Len(all) /\ sz = ring.size /\ h = ring.head /\ ev = ring.events
      BY DEF TimelineIInv, TimelineTypes
    <3>2. sz \in Nat /\ sz <= n
      BY <3>1, TimelineConstants DEF TimelineIInv, RingHolds
    <3>3. \A k \in 1..sz : ev[(h + k - 1) % Capacity] = all[n - sz + k]
      BY <3>1 DEF TimelineIInv, RingHolds
    <3>4. Snapshot = [k \in 1..sz |-> ev[(h + k - 1) % Capacity]]
      BY <3>1 DEF Snapshot
    <3>5. PICK f : f = [k \in 1..sz |-> ev[(h + k - 1) % Capacity]]
      OBVIOUS
    <3>6. DOMAIN f = 1..sz /\ f = [k \in 1..sz |-> f[k]] /\ \A k \in 1..sz : f[k] = all[n - sz + k]
      BY <3>3, <3>5
    <3>7. Snapshot = f
      BY <3>4, <3>5
    <3> QED
      BY <3>1, <3>2, <3>6, <3>7
  <2>2. PICK s : s = Snapshot
    OBVIOUS
  <2>3. \A k \in 1..sz : n - sz + k \in 1..n /\ all[n - sz + k] \in TimelineEvents
    BY <2>1
  <2>4. s \in Seq(TimelineEvents) /\ Len(s) = sz
    <3>1. s \in [1..sz -> TimelineEvents]
      BY <2>1, <2>2, <2>3
    <3> QED
      BY <3>1
  <2>5. PICK t : t = SubSeq(all, n - sz + 1, n)
    OBVIOUS
  <2>6. t \in Seq(TimelineEvents) /\ Len(t) = sz /\ \A k \in 1..sz : t[k] = all[n - sz + k]
    <3>1. \A k \in (n - sz + 1)..n : all[k] \in TimelineEvents
      <4> TAKE k \in (n - sz + 1)..n
      <4>1. k \in 1..n
        BY <2>1
      <4> QED
        BY <2>1, <4>1
    <3>2. n - sz + 1 \in Int /\ n - (n - sz + 1) + 1 = sz
      BY <2>1
    <3>3. /\ t \in Seq(TimelineEvents)
          /\ Len(t) = IF n - sz + 1 <= n THEN n - (n - sz + 1) + 1 ELSE 0
          /\ \A k \in 1..(n - (n - sz + 1) + 1) : t[k] = all[(n - sz + 1) + k - 1]
      BY <2>5, <3>1, <3>2, SubSeqProperties
    <3>4. Len(t) = sz
      BY <2>1, <3>2, <3>3
    <3>5. ASSUME NEW k \in 1..sz PROVE t[k] = all[n - sz + k]
      <4>1. (n - sz + 1) + k - 1 = n - sz + k
        BY <2>1
      <4> QED
        BY <3>2, <3>3, <4>1
    <3> QED
      BY <3>3, <3>4, <3>5
  <2>7. s = t
    <3>1. Len(s) = Len(t) /\ \A k \in 1..Len(s) : s[k] = t[k]
      BY <2>1, <2>2, <2>4, <2>6
    <3> QED
      BY <2>4, <2>6, <3>1, SeqEqual
  <2>8. {all[k].id : k \in (n - sz + 1)..n} = {s[k].id : k \in 1..sz}
    <3>1. ASSUME NEW k \in 1..sz PROVE s[k].id \in {all[j].id : j \in (n - sz + 1)..n}
      <4>1. n - sz + k \in (n - sz + 1)..n /\ s[k] = all[n - sz + k]
        <5>1. n - sz + k \in (n - sz + 1)..n
          BY <2>1
        <5> QED
          BY <2>1, <2>2, <5>1
      <4> QED
        BY <4>1
    <3>2. ASSUME NEW k \in (n - sz + 1)..n PROVE all[k].id \in {s[j].id : j \in 1..sz}
      <4>1. k - (n - sz) \in 1..sz /\ n - sz + (k - (n - sz)) = k
        BY <2>1
      <4>2. s[k - (n - sz)] = all[k]
        BY <2>1, <2>2, <4>1
      <4> QED
        BY <4>1, <4>2
    <3> QED
      BY <3>1, <3>2
  <2> QED
    <3>1. Snapshot = SubSeq(captured, Len(captured) - ring.size + 1, Len(captured))
      BY <2>1, <2>2, <2>5, <2>7
    <3>2. ring.ids = {Snapshot[k].id : k \in DOMAIN Snapshot}
      <4>1. ring.ids = {all[k].id : k \in (n - sz + 1)..n}
        BY <2>1 DEF TimelineIInv, RingHolds
      <4> QED
        BY <2>1, <2>2, <2>8, <4>1
    <3> QED
      BY <3>1, <3>2 DEF LatestEventsKept, TimelineIInv, RingHolds
<1>3. PagesAreOneHistory
  BY DEF PagesAreOneHistory, TimelineIInv, ReaderHolds
<1> QED
  BY <1>1, <1>2, <1>3 DEF TimelineInv

-----------------------------------------------------------------------------
(* The policy of a project *)

Contents == Documents \cup {Absent}

Acceptable(text) == text # Absent /\ Valid(text)

WorkflowTypes ==
  /\ file \in Contents /\ current \in Contents /\ good \in Contents
  /\ error \in BOOLEAN /\ changed \in BOOLEAN /\ debounce \in BOOLEAN /\ behind \in BOOLEAN /\ missed \in BOOLEAN
  /\ reading \in [Reads -> [stage : {"none", "asked", "read"}, text : Contents, after : Nat]]
  /\ watcher \in {"none", "starting", "open", "closed"}
  /\ writes \in Nat /\ newest \in Nat

\* What was read after the last change is what the file holds.
ReadsHold ==
  /\ newest <= writes
  /\ \A k \in Reads : reading[k].stage = "none" => reading[k] = NoRead
  /\ \A k \in Reads :
       reading[k].stage = "read" => /\ reading[k].after <= writes
                                    /\ reading[k].after = writes => reading[k].text = file

\* A read that no later one overtook says what there is to say of the file.
OutcomeHolds ==
  /\ watcher \in {"open", "closed"} /\ ~behind /\ newest = writes
  => IF Acceptable(file) THEN current = file /\ ~error ELSE error

\* A change that was not read yet is on its way.
ChangeIsNoticed ==
  /\ watcher = "open" /\ ~missed /\ newest < writes
  => \/ changed \/ debounce
     \/ \E k \in Reads : \/ reading[k].stage = "asked"
                         \/ reading[k].stage = "read" /\ reading[k].after = writes

WorkflowIInv == WorkflowTypes /\ ReadsHold /\ OutcomeHolds /\ ChangeIsNoticed /\ LastGoodKept

\* What the sources require of a provider, the parser has required before.
LEMMA AcceptedIsUsable ==
  ASSUME NEW d, Valid(d)
  PROVE  \A f \in NeededBy(d.kind) : Provider(d)[f] = "text"
<1>1. \A f \in RequiredByKind(Lowered(d.kind)) : Provider(d)[f] = "text"
  BY DEF Valid, Provider
<1>2. NeededBy(d.kind) \subseteq RequiredByKind(Lowered(d.kind))
  <2>1. CASE d.kind = "github"
    BY <2>1 DEF NeededBy, RequiredByKind, Lowered
  <2>2. CASE d.kind = "gitlab"
    BY <2>2 DEF NeededBy, RequiredByKind, Lowered
  <2>3. CASE d.kind # "github" /\ d.kind # "gitlab"
    BY <2>3 DEF NeededBy
  <2> QED
    BY <2>1, <2>2, <2>3
<1> QED
  BY <1>1, <1>2

LEMMA LeastOf ==
  ASSUME NEW B \in SUBSET Nat, IsFiniteSet(B), B # {}
  PROVE  \E i \in B : \A j \in B : ~(j < i)
<1>1. PICK q \in Nat : q = Cardinality(B)
  BY FS_CardinalityType
<1>2. /\ \A i \in B : NewerThan(i, B) \in 0..(q - 1)
      /\ \A i, j \in B : i > j <=> NewerThan(i, B) < NewerThan(j, B)
      /\ \A x \in 0..(q - 1) : \E i \in B : NewerThan(i, B) = x
  BY <1>1, NewerRanks
<1>3. q - 1 \in 0..(q - 1)
  <2>1. PICK i \in B : NewerThan(i, B) \in 0..(q - 1)
    BY <1>2
  <2> QED
    BY <2>1
<1>4. PICK i \in B : NewerThan(i, B) = q - 1
  BY <1>2, <1>3
<1>5. ASSUME NEW j \in B PROVE ~(j < i)
  <2>1. NewerThan(j, B) \in 0..(q - 1) /\ NewerThan(i, B) \in 0..(q - 1)
    BY <1>2
  <2>2. ~(NewerThan(i, B) < NewerThan(j, B))
    BY <1>4, <2>1
  <2>3. ~(i > j)
    BY <1>2, <2>2
  <2> QED
    BY <2>3
<1> QED
  BY <1>5

\* Places by how many are before them.
LEMMA EarlierRanks ==
  ASSUME NEW S \in SUBSET Nat, IsFiniteSet(S)
  PROVE  /\ Cardinality(S) \in Nat
         /\ \A i \in S : Cardinality({j \in S : j < i}) \in 0..(Cardinality(S) - 1)
         /\ \A i, j \in S : i < j <=> Cardinality({k \in S : k < i}) < Cardinality({k \in S : k < j})
         /\ \A n \in 0..(Cardinality(S) - 1) : \E i \in S : Cardinality({j \in S : j < i}) = n
<1> DEFINE R == {p \in Nat \X Nat : p[1] < p[2]}
           B(i) == Cardinality({j \in S : j < i})
<1>1. \A i, j \in Nat : <<i, j>> \in R <=> i < j
  OBVIOUS
<1>2. Orders(R, S)
  BY <1>1 DEF Orders
<1>3. ASSUME NEW i \in S PROVE RankIn(i, S, R) = B(i)
  <2>1. {j \in S : <<j, i>> \in R} = {j \in S : j < i}
    BY <1>1
  <2> HIDE DEF R
  <2> QED
    BY <2>1 DEF RankIn
<1> HIDE DEF R
<1>4. /\ Cardinality(S) \in Nat
      /\ \A i \in S : RankIn(i, S, R) \in 0..(Cardinality(S) - 1)
      /\ \A i, j \in S : <<i, j>> \in R <=> RankIn(i, S, R) < RankIn(j, S, R)
      /\ \A n \in 0..(Cardinality(S) - 1) : \E i \in S : RankIn(i, S, R) = n
  BY <1>2, RanksFollow
<1> HIDE DEF B
<1>5. ASSUME NEW i \in S, NEW j \in S PROVE i < j <=> B(i) < B(j)
  <2>1. i < j <=> <<i, j>> \in R
    BY <1>1
  <2>2. <<i, j>> \in R <=> RankIn(i, S, R) < RankIn(j, S, R)
    BY <1>4
  <2>3. RankIn(i, S, R) = B(i) /\ RankIn(j, S, R) = B(j)
    BY <1>3
  <2> QED
    BY <2>1, <2>2, <2>3
<1>6. \A n \in 0..(Cardinality(S) - 1) : \E i \in S : B(i) = n
  BY <1>3, <1>4
<1>7. \A i \in S : B(i) \in 0..(Cardinality(S) - 1)
  BY <1>3, <1>4
<1> QED
  BY <1>4, <1>5, <1>6, <1>7 DEF B

\* One column for every state, in the order they first come.
LEMMA ColumnsAreStates ==
  ASSUME NEW live \in Seq(STRING), NEW terminal \in Seq(STRING), NEW visible \in Seq(STRING)
  PROVE  LET columns == StateOrder(live, terminal, visible) IN
         /\ States(columns) = States(live) \cup States(terminal) \cup States(visible)
         /\ \A j, k \in DOMAIN columns : j # k => columns[j] # columns[k]
         /\ \A j, k \in DOMAIN columns : columns[j] \notin States(visible) /\ columns[k] \in States(visible) => k < j
<1>1. PICK all : all = visible \o live \o terminal
  OBVIOUS
<1>19. PICK nv \in Nat, na \in Nat, nt \in Nat, n \in Nat :
         nv = Len(visible) /\ na = Len(live) /\ nt = Len(terminal) /\ n = nv + na + nt
  OBVIOUS
<1>20. /\ all \in Seq(STRING) /\ Len(all) = n
       /\ \A k \in 1..n : all[k] = IF k <= nv THEN visible[k] ELSE IF k <= nv + na THEN live[k - nv]
                                   ELSE terminal[k - (nv + na)]
  <2>2. PICK va : va = visible \o live
    OBVIOUS
  <2>3. /\ va \in Seq(STRING) /\ Len(va) = nv + na
        /\ \A k \in 1..(nv + na) : va[k] = IF k <= nv THEN visible[k] ELSE live[k - nv]
    BY <1>19, <2>2, ConcatProperties
  <2>4. all = va \o terminal
    BY <1>1, <2>2
  <2>5. /\ all \in Seq(STRING) /\ Len(all) = n
        /\ \A k \in 1..n : all[k] = IF k <= nv + na THEN va[k] ELSE terminal[k - (nv + na)]
    BY <1>19, <2>3, <2>4, ConcatProperties
  <2>6. ASSUME NEW k \in 1..n
        PROVE  all[k] = IF k <= nv THEN visible[k] ELSE IF k <= nv + na THEN live[k - nv]
                        ELSE terminal[k - (nv + na)]
    <3>1. CASE k <= nv + na
      <4>1. k \in 1..(nv + na)
        BY <3>1
      <4> QED
        BY <2>3, <2>5, <3>1, <4>1
    <3>2. CASE ~(k <= nv + na)
      BY <2>5, <3>2
    <3> QED
      BY <3>1, <3>2
  <2> QED
    BY <2>5, <2>6
<1>2. /\ nv = Len(visible) /\ na = Len(live) /\ nt = Len(terminal) /\ n = nv + na + nt
      /\ DOMAIN visible = 1..nv /\ DOMAIN live = 1..na /\ DOMAIN terminal = 1..nt
      /\ all \in Seq(STRING) /\ Len(all) = n
      /\ \A k \in 1..n : all[k] = IF k <= nv THEN visible[k] ELSE IF k <= nv + na THEN live[k - nv]
                                  ELSE terminal[k - (nv + na)]
  BY <1>19, <1>20
<1>3. PICK firsts : firsts = {k \in 1..n : \A j \in 1..(k - 1) : all[j] # all[k]}
  OBVIOUS
<1>4. IsFiniteSet(firsts) /\ firsts \in SUBSET Nat
  <2>1. IsFiniteSet(1..n) /\ firsts \subseteq 1..n
    BY <1>3, FS_Interval
  <2>2. IsFiniteSet(firsts)
    BY <2>1, FS_Subset
  <2> QED
    BY <2>1, <2>2
<1> DEFINE B(i) == Cardinality({j \in firsts : j < i})
<1>5. PICK c \in Nat : c = Cardinality(firsts)
  BY <1>4, FS_CardinalityType
<1>6. /\ \A i \in firsts : B(i) \in 0..(c - 1)
      /\ \A i, j \in firsts : i < j <=> B(i) < B(j)
      /\ \A m \in 0..(c - 1) : \E i \in firsts : B(i) = m
  BY <1>4, <1>5, EarlierRanks
<1>7. PICK place : place = [m \in 1..c |-> CHOOSE k \in firsts : Cardinality({j \in firsts : j < k}) = m - 1]
  OBVIOUS
<1>8. ASSUME NEW m \in 1..c PROVE place[m] \in firsts /\ B(place[m]) = m - 1
  <2>1. \E i \in firsts : B(i) = m - 1
    BY <1>6, m - 1 \in 0..(c - 1)
  <2> QED
    BY <1>7, <2>1
<1>9. PICK columns : columns = StateOrder(live, terminal, visible)
  OBVIOUS
<1>10. DOMAIN columns = 1..c /\ \A m \in 1..c : columns[m] = all[place[m]]
  <2>1. DOMAIN all = 1..n
    BY <1>2
  <2>2. columns = [m \in 1..c |-> all[CHOOSE k \in firsts : Cardinality({j \in firsts : j < k}) = m - 1]]
    BY <1>1, <1>3, <1>5, <1>9, <2>1 DEF StateOrder
  <2> QED
    BY <1>7, <2>2
<1> HIDE DEF B
<1>11. \A k \in firsts : k \in 1..n /\ \A j \in 1..(k - 1) : all[j] # all[k]
  BY <1>3
<1>12. ASSUME NEW k \in 1..n PROVE \E i \in firsts : i <= k /\ all[i] = all[k]
  <2>1. PICK A : A = {j \in 1..n : all[j] = all[k]}
    OBVIOUS
  <2>2. A \subseteq 1..n /\ k \in A /\ IsFiniteSet(A)
    <3>1. A \subseteq 1..n /\ k \in A /\ IsFiniteSet(1..n)
      BY <2>1, FS_Interval
    <3> QED
      BY <3>1, FS_Subset
  <2>3. PICK i \in A : \A j \in A : ~(j < i)
    <3>1. A \in SUBSET Nat /\ A # {}
      BY <2>2
    <3> QED
      BY <2>2, <3>1, LeastOf
  <2>4. i \in 1..n /\ all[i] = all[k] /\ ~(k < i)
    BY <2>1, <2>2, <2>3
  <2>5. ASSUME NEW j \in 1..(i - 1), all[j] = all[i] PROVE FALSE
    <3>1. j \in A /\ j < i
      BY <2>1, <2>4, <2>5
    <3> QED
      BY <2>3, <3>1
  <2>6. i \in firsts
    BY <1>3, <2>4, <2>5
  <2> QED
    BY <2>4, <2>6
<1>13. ASSUME NEW i \in firsts PROVE \E m \in 1..c : place[m] = i
  <2>1. PICK m \in 1..c : B(i) = m - 1
    <3>1. PICK r \in 0..(c - 1) : B(i) = r
      BY <1>6
    <3> QED
      BY <3>1, r + 1 \in 1..c, r = (r + 1) - 1
  <2>2. place[m] \in firsts /\ B(place[m]) = m - 1
    BY <1>8
  <2>3. ~(i < place[m]) /\ ~(place[m] < i)
    BY <1>6, <2>1, <2>2
  <2>4. i \in Nat /\ place[m] \in Nat
    BY <1>4, <2>2
  <2> QED
    BY <2>3, <2>4
<1>14. /\ \A s \in States(visible) : \E k \in 1..nv : k \in 1..n /\ all[k] = s
       /\ \A s \in States(live) \cup States(terminal) : \E k \in 1..n : all[k] = s
  <2>1. ASSUME NEW s \in States(visible) PROVE \E k \in 1..nv : k \in 1..n /\ all[k] = s
    <3>1. PICK k \in 1..nv : visible[k] = s
      BY <1>2 DEF States
    <3>2. k \in 1..n /\ k <= nv
      BY <1>2
    <3> QED
      BY <1>2, <3>1, <3>2
  <2>2. ASSUME NEW s \in States(live) PROVE \E k \in 1..n : all[k] = s
    <3>1. PICK k \in 1..na : live[k] = s
      BY <1>2 DEF States
    <3>2. nv + k \in 1..n /\ ~(nv + k <= nv) /\ nv + k <= nv + na /\ (nv + k) - nv = k
      BY <1>2
    <3>3. all[nv + k] = s
      BY <1>2, <3>1, <3>2
    <3> QED
      BY <3>2, <3>3
  <2>3. ASSUME NEW s \in States(terminal) PROVE \E k \in 1..n : all[k] = s
    <3>1. PICK k \in 1..nt : terminal[k] = s
      BY <1>2 DEF States
    <3>2. nv + na + k \in 1..n /\ ~(nv + na + k <= nv) /\ ~(nv + na + k <= nv + na) /\ (nv + na + k) - (nv + na) = k
      BY <1>2
    <3>3. all[nv + na + k] = s
      BY <1>2, <3>1, <3>2
    <3> QED
      BY <3>2, <3>3
  <2> QED
    BY <2>1, <2>2, <2>3
<1>15. ASSUME NEW k \in 1..n
       PROVE  /\ all[k] \in States(live) \cup States(terminal) \cup States(visible)
              /\ k <= nv => all[k] \in States(visible)
  <2>1. CASE k <= nv
    <3>1. k \in DOMAIN visible /\ all[k] = visible[k]
      BY <1>2, <2>1
    <3> QED
      BY <3>1 DEF States
  <2>2. CASE ~(k <= nv) /\ k <= nv + na
    <3>1. k - nv \in DOMAIN live /\ all[k] = live[k - nv]
      BY <1>2, <2>2
    <3> QED
      BY <2>2, <3>1 DEF States
  <2>3. CASE ~(k <= nv) /\ ~(k <= nv + na)
    <3>1. k - (nv + na) \in DOMAIN terminal /\ all[k] = terminal[k - (nv + na)]
      BY <1>2, <2>3
    <3> QED
      BY <2>3, <3>1 DEF States
  <2> QED
    BY <2>1, <2>2, <2>3
<1>16. States(columns) = States(live) \cup States(terminal) \cup States(visible)
  <2>1. ASSUME NEW m \in 1..c
        PROVE  columns[m] \in States(live) \cup States(terminal) \cup States(visible)
    BY <1>8, <1>10, <1>11, <1>15
  <2>2. ASSUME NEW s \in States(live) \cup States(terminal) \cup States(visible)
        PROVE  \E m \in 1..c : columns[m] = s
    <3>1. PICK k \in 1..n : all[k] = s
      BY <1>14
    <3>2. PICK i \in firsts : all[i] = s
      BY <1>12, <3>1
    <3>3. PICK m \in 1..c : place[m] = i
      BY <1>13
    <3> QED
      BY <1>10, <3>2, <3>3
  <2>3. States(columns) = {columns[m] : m \in 1..c}
    BY <1>10 DEF States
  <2> QED
    BY <2>1, <2>2, <2>3
<1>17. ASSUME NEW j \in 1..c, NEW k \in 1..c, j # k PROVE columns[j] # columns[k]
  <2>1. /\ place[j] \in firsts /\ place[k] \in firsts /\ place[j] \in Nat /\ place[k] \in Nat
        /\ B(place[j]) = j - 1 /\ B(place[k]) = k - 1
    BY <1>4, <1>8
  <2>2. place[j] # place[k]
    BY <1>17, <2>1
  <2>3. CASE place[j] < place[k]
    <3>1. place[j] \in 1..(place[k] - 1)
      BY <1>11, <2>1, <2>3
    <3> QED
      BY <1>10, <1>11, <2>1, <3>1
  <2>4. CASE place[k] < place[j]
    <3>1. place[k] \in 1..(place[j] - 1)
      BY <1>11, <2>1, <2>4
    <3> QED
      BY <1>10, <1>11, <2>1, <3>1
  <2> QED
    BY <2>1, <2>2, <2>3, <2>4
<1>18. ASSUME NEW j \in 1..c, NEW k \in 1..c, columns[j] \notin States(visible), columns[k] \in States(visible)
       PROVE  k < j
  <2>1. /\ place[j] \in firsts /\ place[k] \in firsts /\ place[j] \in 1..n /\ place[k] \in 1..n
        /\ B(place[j]) = j - 1 /\ B(place[k]) = k - 1
        /\ columns[j] = all[place[j]] /\ columns[k] = all[place[k]]
    BY <1>8, <1>10, <1>11
  <2>2. ~(place[j] <= nv)
    BY <1>15, <1>18, <2>1
  <2>3. place[k] <= nv
    <3>1. SUFFICES ASSUME ~(place[k] <= nv) PROVE FALSE
      OBVIOUS
    <3>2. PICK q \in 1..nv : q \in 1..n /\ all[q] = columns[k]
      BY <1>14, <1>18
    <3>3. q \in 1..(place[k] - 1)
      BY <2>1, <3>1
    <3> QED
      BY <1>11, <2>1, <3>2, <3>3
  <2>4. place[k] < place[j]
    BY <2>1, <2>2, <2>3
  <2>5. B(place[k]) < B(place[j])
    BY <1>6, <2>1, <2>4
  <2> QED
    BY <2>1, <2>5
<1> QED
  BY <1>9, <1>10, <1>16, <1>17, <1>18

LEMMA ReloadAsks ==
  ASSUME WorkflowTypes, Reload
  PROVE  /\ reading' \in [Reads -> [stage : {"none", "asked", "read"}, text : Contents, after : Nat]]
         /\ \E k \in Reads : reading'[k].stage = "asked" /\ \A j \in Reads : j # k => reading'[j] = reading[j]
<1>1. PICK k \in Reads : reading[k] = NoRead /\ reading' = [reading EXCEPT ![k].stage = "asked"]
  BY DEF Reload
<1>2. PICK before \in [Reads -> [stage : {"none", "asked", "read"}, text : Contents, after : Nat]] : before = reading
  BY DEF WorkflowTypes
<1>3. PICK asked \in [stage : {"none", "asked", "read"}, text : Contents, after : Nat] :
        asked = [before[k] EXCEPT !.stage = "asked"] /\ asked.stage = "asked"
  <2>1. PICK b \in [stage : {"none", "asked", "read"}, text : Contents, after : Nat] : b = before[k]
    OBVIOUS
  <2>2. PICK c : c = [b EXCEPT !.stage = "asked"]
    OBVIOUS
  <2>3. c \in [stage : {"none", "asked", "read"}, text : Contents, after : Nat] /\ c.stage = "asked"
    BY <2>2
  <2> QED
    BY <2>1, <2>2, <2>3
<1>4. reading' = [before EXCEPT ![k] = asked]
  BY <1>1, <1>2, <1>3
<1> QED
  BY <1>2, <1>3, <1>4

\* Another reload changes neither what is in force nor what was read.
LEMMA ReloadKeeps ==
  ASSUME WorkflowIInv, Reload, UNCHANGED <<file, current, error, writes, newest, behind, missed, good>>,
         watcher' = watcher \/ watcher' = "starting", changed' \in BOOLEAN, debounce' \in BOOLEAN
  PROVE  WorkflowIInv'
<1>1. WorkflowTypes /\ ReadsHold /\ OutcomeHolds /\ LastGoodKept
  BY DEF WorkflowIInv
<1>2. PICK k \in Reads : reading'[k].stage = "asked" /\ \A j \in Reads : j # k => reading'[j] = reading[j]
  BY <1>1, ReloadAsks
<1>3. WorkflowTypes'
  BY <1>1, ReloadAsks DEF WorkflowTypes, Contents
<1>4. ReadsHold'
  <2>1. newest' <= writes'
    BY <1>1 DEF ReadsHold
  <2>2. ASSUME NEW j \in Reads
        PROVE  /\ reading'[j].stage = "none" => reading'[j] = NoRead
               /\ reading'[j].stage = "read" => /\ reading'[j].after <= writes'
                                                /\ reading'[j].after = writes' => reading'[j].text = file'
    BY <1>1, <1>2 DEF ReadsHold
  <2> QED
    BY <2>1, <2>2 DEF ReadsHold, NoRead
<1>5. OutcomeHolds'
  BY <1>1 DEF OutcomeHolds, Acceptable, Valid
<1>6. ChangeIsNoticed'
  BY <1>2 DEF ChangeIsNoticed
<1>7. LastGoodKept'
  BY <1>1 DEF LastGoodKept, Valid
<1> QED
  BY <1>3, <1>4, <1>5, <1>6, <1>7 DEF WorkflowIInv

LEMMA ReadFileKeeps ==
  ASSUME WorkflowIInv, NEW k \in Reads, ReadFile(k)
  PROVE  WorkflowIInv'
<1>1. WorkflowTypes /\ ReadsHold /\ OutcomeHolds /\ ChangeIsNoticed /\ LastGoodKept
  BY DEF WorkflowIInv
<1>2. PICK read : read = [stage |-> "read", text |-> file, after |-> writes]
  OBVIOUS
<1>3. /\ read \in [stage : {"none", "asked", "read"}, text : Contents, after : Nat]
      /\ read.stage = "read" /\ read.after = writes /\ read.text = file
  BY <1>1, <1>2 DEF WorkflowTypes
<1>4. /\ reading' \in [Reads -> [stage : {"none", "asked", "read"}, text : Contents, after : Nat]]
      /\ reading'[k] = read /\ \A j \in Reads : j # k => reading'[j] = reading[j]
  <2>1. reading' = [reading EXCEPT ![k] = read] /\ reading \in [Reads -> [stage : {"none", "asked", "read"}, text : Contents, after : Nat]]
    BY <1>1, <1>2 DEF ReadFile, WorkflowTypes
  <2> QED
    BY <1>3, <2>1
<1>5. UNCHANGED <<file, current, error, watcher, changed, debounce, writes, newest, behind, missed, good>>
  BY DEF ReadFile
<1>6. WorkflowTypes'
  BY <1>1, <1>4, <1>5 DEF WorkflowTypes, Contents
<1>7. ReadsHold'
  <2>1. newest' <= writes' /\ writes \in Nat
    BY <1>1, <1>5 DEF ReadsHold, WorkflowTypes
  <2>2. ASSUME NEW j \in Reads
        PROVE  /\ reading'[j].stage = "none" => reading'[j] = NoRead
               /\ reading'[j].stage = "read" => /\ reading'[j].after <= writes'
                                                /\ reading'[j].after = writes' => reading'[j].text = file'
    <3>1. CASE j = k
      BY <1>3, <1>4, <1>5, <2>1, <3>1
    <3>2. CASE j # k
      BY <1>1, <1>4, <1>5, <3>2 DEF ReadsHold
    <3> QED
      BY <3>1, <3>2
  <2> QED
    BY <2>1, <2>2 DEF ReadsHold, NoRead
<1>8. OutcomeHolds'
  BY <1>1, <1>5 DEF OutcomeHolds, Acceptable, Valid
<1>9. ChangeIsNoticed'
  <2>1. reading'[k].stage = "read" /\ reading'[k].after = writes'
    BY <1>3, <1>4, <1>5
  <2> QED
    BY <2>1 DEF ChangeIsNoticed
<1>10. LastGoodKept'
  BY <1>1, <1>5 DEF LastGoodKept, Valid
<1> QED
  BY <1>6, <1>7, <1>8, <1>9, <1>10 DEF WorkflowIInv

LEMMA AppliedKeeps ==
  ASSUME WorkflowIInv, NEW k \in Reads, Applied(k)
  PROVE  WorkflowIInv'
<1>1. WorkflowTypes /\ ReadsHold /\ OutcomeHolds /\ ChangeIsNoticed /\ LastGoodKept
  BY DEF WorkflowIInv
<1>2. PICK text \in Contents, after \in Nat :
        /\ text = reading[k].text /\ after = reading[k].after /\ reading[k].stage = "read"
        /\ after <= writes /\ (after = writes => text = file)
  BY <1>1 DEF WorkflowTypes, ReadsHold, Applied
<1>3. /\ current' = Retained(text)
      /\ error' = ~Acceptable(text)
      /\ good' = IF error' THEN good ELSE text
      /\ reading' = [reading EXCEPT ![k] = NoRead]
      /\ newest' = IF after > newest THEN after ELSE newest
      /\ behind' = (after < newest)
      /\ watcher' = IF watcher = "starting" THEN "open" ELSE watcher
      /\ missed' = (missed \/ (watcher = "starting" /\ after < writes))
      /\ UNCHANGED <<file, changed, debounce, writes>>
  BY <1>2 DEF Applied, Acceptable
<1>4. writes \in Nat /\ newest \in Nat /\ newest <= writes
  BY <1>1 DEF WorkflowTypes, ReadsHold
<1>5. newest' \in Nat /\ newest' <= writes' /\ (newest' = writes' <=> newest = writes \/ after = writes)
  BY <1>2, <1>3, <1>4
<1>6. /\ reading' \in [Reads -> [stage : {"none", "asked", "read"}, text : Contents, after : Nat]]
      /\ reading'[k] = NoRead /\ \A j \in Reads : j # k => reading'[j] = reading[j]
  <2>1. NoRead \in [stage : {"none", "asked", "read"}, text : Contents, after : Nat]
    BY DEF NoRead, Contents
  <2>2. reading \in [Reads -> [stage : {"none", "asked", "read"}, text : Contents, after : Nat]]
    BY <1>1 DEF WorkflowTypes
  <2> QED
    BY <1>3, <2>1, <2>2
<1>8. /\ Acceptable(text) => current' = text /\ error' = FALSE /\ good' = text
      /\ ~Acceptable(text) => current' = current /\ error' = TRUE /\ good' = good
  BY <1>3 DEF Retained, Acceptable
<1>9. WorkflowTypes'
  <2>1. current' \in Contents /\ good' \in Contents /\ error' \in BOOLEAN
    BY <1>1, <1>2, <1>8 DEF WorkflowTypes
  <2>2. watcher' \in {"none", "starting", "open", "closed"}
    BY <1>1, <1>3 DEF WorkflowTypes
  <2>3. behind' \in BOOLEAN /\ missed' \in BOOLEAN /\ changed' \in BOOLEAN /\ debounce' \in BOOLEAN
    BY <1>1, <1>3 DEF WorkflowTypes
  <2>4. file' \in Contents /\ writes' \in Nat
    BY <1>1, <1>3 DEF WorkflowTypes
  <2> QED
    BY <1>5, <1>6, <2>1, <2>2, <2>3, <2>4 DEF WorkflowTypes, Contents
<1>10. ReadsHold'
  <2>1. ASSUME NEW j \in Reads
        PROVE  /\ reading'[j].stage = "none" => reading'[j] = NoRead
               /\ reading'[j].stage = "read" => /\ reading'[j].after <= writes'
                                                /\ reading'[j].after = writes' => reading'[j].text = file'
    <3>1. CASE j = k
      BY <1>6, <3>1 DEF NoRead
    <3>2. CASE j # k
      BY <1>1, <1>3, <1>6, <3>2 DEF ReadsHold
    <3> QED
      BY <3>1, <3>2
  <2> QED
    BY <1>5, <2>1 DEF ReadsHold, NoRead
<1>11. OutcomeHolds'
  <2>1. SUFFICES ASSUME ~behind', newest' = writes'
                 PROVE  IF Acceptable(file') THEN current' = file' /\ ~error' ELSE error'
    BY DEF OutcomeHolds, Acceptable, Valid
  <2>2. ~(after < newest)
    BY <1>3, <2>1
  <2>3. after = writes
    BY <1>2, <1>4, <1>5, <2>1, <2>2
  <2>4. text = file'
    BY <1>2, <1>3, <2>3
  <2> QED
    BY <1>8, <2>4
<1>12. ChangeIsNoticed'
  <2>1. SUFFICES ASSUME watcher' = "open", ~missed', newest' < writes'
                 PROVE  \/ changed' \/ debounce'
                        \/ \E j \in Reads : \/ reading'[j].stage = "asked"
                                            \/ reading'[j].stage = "read" /\ reading'[j].after = writes'
    BY DEF ChangeIsNoticed
  <2>2. newest < writes /\ after # writes /\ after < writes
    BY <1>2, <1>3, <1>4, <1>5, <2>1
  <2>3. ~missed /\ watcher = "open"
    BY <1>3, <2>1, <2>2
  <2>4. \/ changed \/ debounce
        \/ \E j \in Reads : \/ reading[j].stage = "asked"
                            \/ reading[j].stage = "read" /\ reading[j].after = writes
    BY <1>1, <2>2, <2>3 DEF ChangeIsNoticed
  <2>5. ASSUME NEW j \in Reads, reading[j].stage = "asked" \/ reading[j].after = writes, reading[j].stage # "none"
        PROVE  reading'[j] = reading[j]
    BY <1>2, <1>6, <2>2, <2>5
  <2>6. CASE changed \/ debounce
    BY <1>3, <2>6
  <2>7. CASE \E j \in Reads : \/ reading[j].stage = "asked"
                              \/ reading[j].stage = "read" /\ reading[j].after = writes
    <3>1. PICK j \in Reads : \/ reading[j].stage = "asked"
                             \/ reading[j].stage = "read" /\ reading[j].after = writes
      BY <2>7
    <3>2. reading'[j] = reading[j] /\ writes' = writes
      BY <1>3, <2>5, <3>1
    <3> QED
      BY <3>1, <3>2
  <2> QED
    BY <2>4, <2>6, <2>7
<1>13. LastGoodKept'
  BY <1>1, <1>8 DEF LastGoodKept, Acceptable, Valid
<1> QED
  BY <1>9, <1>10, <1>11, <1>12, <1>13 DEF WorkflowIInv

LEMMA WriteKeeps ==
  ASSUME WorkflowIInv, Write
  PROVE  WorkflowIInv'
<1>1. WorkflowTypes /\ ReadsHold /\ OutcomeHolds /\ ChangeIsNoticed /\ LastGoodKept
  BY DEF WorkflowIInv
<1>2. /\ writes' = writes + 1 /\ file' \in Contents /\ changed' = (changed \/ watcher = "open")
      /\ UNCHANGED <<current, error, reading, watcher, debounce, newest, behind, missed, good>>
  BY WorkflowConstants DEF Write, Contents
<1>3. writes \in Nat /\ newest \in Nat /\ newest <= writes
  BY <1>1 DEF WorkflowTypes, ReadsHold
<1>4. WorkflowTypes'
  BY <1>1, <1>2, <1>3 DEF WorkflowTypes, Contents
<1>5. ReadsHold'
  <2>1. ASSUME NEW j \in Reads
        PROVE  /\ reading'[j].stage = "none" => reading'[j] = NoRead
               /\ reading'[j].stage = "read" => /\ reading'[j].after <= writes'
                                                /\ reading'[j].after = writes' => reading'[j].text = file'
    <3>1. reading[j].after \in Nat
      BY <1>1 DEF WorkflowTypes
    <3>2. reading[j].stage = "read" => reading[j].after <= writes
      BY <1>1 DEF ReadsHold
    <3>3. reading[j].stage = "none" => reading[j] = NoRead
      BY <1>1 DEF ReadsHold
    <3> QED
      BY <1>2, <1>3, <3>1, <3>2, <3>3
  <2> QED
    BY <1>2, <1>3, <2>1 DEF ReadsHold, NoRead
<1>6. OutcomeHolds'
  BY <1>2, <1>3 DEF OutcomeHolds
<1>7. ChangeIsNoticed'
  BY <1>2 DEF ChangeIsNoticed
<1>8. LastGoodKept'
  BY <1>1, <1>2 DEF LastGoodKept, Valid
<1> QED
  BY <1>4, <1>5, <1>6, <1>7, <1>8 DEF WorkflowIInv

\* The watcher tells of a change, or is closed.
LEMMA WatcherKeeps ==
  ASSUME WorkflowIInv, UNCHANGED <<file, current, error, reading, writes, newest, behind, missed, good>>,
         changed' \in BOOLEAN, debounce' \in BOOLEAN,
         \/ watcher' = watcher /\ debounce'
         \/ watcher = "open" /\ watcher' = "closed"
         \/ UNCHANGED <<watcher, changed, debounce>>
  PROVE  WorkflowIInv'
<1>1. WorkflowTypes /\ ReadsHold /\ OutcomeHolds /\ ChangeIsNoticed /\ LastGoodKept
  BY DEF WorkflowIInv
<1>2. WorkflowTypes'
  BY <1>1 DEF WorkflowTypes, Contents
<1>3. ReadsHold'
  BY <1>1 DEF ReadsHold, NoRead
<1>4. OutcomeHolds'
  BY <1>1 DEF OutcomeHolds, Acceptable, Valid
<1>5. ChangeIsNoticed'
  BY <1>1 DEF ChangeIsNoticed
<1>6. LastGoodKept'
  BY <1>1 DEF LastGoodKept, Valid
<1> QED
  BY <1>2, <1>3, <1>4, <1>5, <1>6 DEF WorkflowIInv

LEMMA WorkflowBegins == WorkflowInit => WorkflowIInv
<1> SUFFICES ASSUME WorkflowInit PROVE WorkflowIInv
  OBVIOUS
<1>1. /\ file \in Contents /\ writes \in Nat /\ newest = 0 /\ current = Absent /\ good = Absent
      /\ error = FALSE /\ behind = FALSE /\ missed = FALSE /\ changed = FALSE /\ debounce = FALSE
      /\ watcher = "none" /\ reading = [k \in Reads |-> NoRead]
  BY WorkflowConstants DEF WorkflowInit, Contents
<1>2. NoRead \in [stage : {"none", "asked", "read"}, text : Contents, after : Nat] /\ NoRead.stage = "none"
  BY DEF NoRead, Contents
<1>3. WorkflowTypes
  BY <1>1, <1>2 DEF WorkflowTypes, Contents
<1>4. ReadsHold
  BY <1>1, <1>2 DEF ReadsHold
<1>5. OutcomeHolds /\ ChangeIsNoticed /\ LastGoodKept
  BY <1>1 DEF OutcomeHolds, ChangeIsNoticed, LastGoodKept
<1> QED
  BY <1>3, <1>4, <1>5 DEF WorkflowIInv

LEMMA WorkflowKept ==
  ASSUME WorkflowIInv, [WorkflowNext]_workflowVars
  PROVE  WorkflowIInv'
<1>0. /\ changed \in BOOLEAN /\ debounce \in BOOLEAN
  BY DEF WorkflowIInv, WorkflowTypes
<1>1. CASE StartStore
  BY <1>0, <1>1, ReloadKeeps DEF StartStore
<1>2. CASE Write
  BY <1>2, WriteKeeps
<1>3. CASE WatcherReports
  BY <1>3, WatcherKeeps DEF WatcherReports, Rearmed
<1>4. CASE DebounceFires
  BY <1>0, <1>4, ReloadKeeps DEF DebounceFires
<1>5. CASE Selected
  BY <1>0, <1>5, ReloadKeeps DEF Selected
<1>6. CASE StopStore
  BY <1>6, WatcherKeeps DEF StopStore
<1>7. ASSUME NEW k \in Reads, ReadFile(k) PROVE WorkflowIInv'
  BY <1>7, ReadFileKeeps
<1>8. ASSUME NEW k \in Reads, Applied(k) PROVE WorkflowIInv'
  BY <1>8, AppliedKeeps
<1>9. CASE UNCHANGED workflowVars
  BY <1>0, <1>9, WatcherKeeps DEF workflowVars
<1> QED
  BY <1>1, <1>2, <1>3, <1>4, <1>5, <1>6, <1>7, <1>8, <1>9 DEF WorkflowNext

\* The invariant implies what the runs check: the policy in force is usable and follows the file.
LEMMA PolicyIsGood == WorkflowIInv => WorkflowInv
<1> SUFFICES ASSUME WorkflowIInv PROVE WorkflowInv
  OBVIOUS
<1>1. WorkflowTypes /\ ReadsHold /\ OutcomeHolds /\ ChangeIsNoticed /\ LastGoodKept
  BY DEF WorkflowIInv
<1>2. FollowsTheFile
  <2>1. SUFFICES ASSUME watcher = "open", ~changed, ~debounce, \A k \in Reads : reading[k] = NoRead,
                        ~behind, ~missed \/ newest = writes
                 PROVE  IF Acceptable(file) THEN current = file /\ ~error ELSE error
    BY DEF FollowsTheFile, Acceptable
  <2>2. \A k \in Reads : reading[k].stage = "none"
    BY <2>1 DEF NoRead
  <2>3. ~(~missed /\ newest < writes)
    BY <1>1, <2>1, <2>2 DEF ChangeIsNoticed
  <2>4. newest = writes
    <3>1. newest \in Nat /\ writes \in Nat /\ newest <= writes
      BY <1>1 DEF WorkflowTypes, ReadsHold
    <3> QED
      BY <2>1, <2>3, <3>1
  <2> QED
    BY <1>1, <2>1, <2>4 DEF OutcomeHolds
<1>3. DefinitionIsUsable
  BY <1>1, AcceptedIsUsable DEF LastGoodKept, DefinitionIsUsable
<1>4. EveryStateHasItsColumn
  <2>1. SUFFICES ASSUME current # Absent
                 PROVE  LET visible == States(current.visible)
                            columns == StateOrder(current.active, current.terminal, current.visible)
                        IN /\ States(columns) = States(current.active) \cup States(current.terminal) \cup visible
                           /\ \A j, k \in DOMAIN columns : j # k => columns[j] # columns[k]
                           /\ \A j, k \in DOMAIN columns : columns[j] \notin visible /\ columns[k] \in visible => k < j
    BY DEF EveryStateHasItsColumn
  <2>2. current \in Documents
    BY <1>1, <2>1 DEF WorkflowTypes, Contents
  <2>3. PICK a \in Seq(STRING), t \in Seq(STRING), v \in Seq(STRING) :
          a = current.active /\ t = current.terminal /\ v = current.visible
    BY <2>2, WorkflowConstants
  <2>4. LET columns == StateOrder(a, t, v) IN
        /\ States(columns) = States(a) \cup States(t) \cup States(v)
        /\ \A j, k \in DOMAIN columns : j # k => columns[j] # columns[k]
        /\ \A j, k \in DOMAIN columns : columns[j] \notin States(v) /\ columns[k] \in States(v) => k < j
    BY ColumnsAreStates
  <2> QED
    BY <2>3, <2>4
<1> QED
  BY <1>1, <1>2, <1>3, <1>4 DEF WorkflowInv

-----------------------------------------------------------------------------
(* The desk and what goes on beside it *)

\* Only the part that is explored moves; a source that is not is none at all.
SidesIInv ==
  /\ SessionIInv /\ TimelineIInv /\ WorkflowIInv
  /\ part = "source" => RemoteIInv
  /\ part # "source" => NoSource

LEMMA NoSourceIsWhole == NoSource => SourcesInv
<1> SUFFICES ASSUME NoSource PROVE SourcesInv
  OBVIOUS
<1>1. RemoteTypeOK
  <2>1. Held = {} /\ unchanged = {} /\ changes = 0 /\ walk.pc = "off" /\ walk.page = 1 /\ tool.pc = "off"
    BY DEF NoSource, NoWalk, NoTool, Held
  <2>2. 1 \in 1..MaxPages /\ 0 \in 0..MaxChanges
    BY RemoteAssumptions
  <2> QED
    BY <2>1, <2>2 DEF RemoteTypeOK
<1>2. ListIsWhole
  BY DEF NoSource, NoWalk, ListIsWhole
<1>3. ToolInProject
  BY DEF NoSource, ToolInProject
<1> QED
  BY <1>1, <1>2, <1>3, ClosedIsOverAlways DEF SourcesInv

LEMMA SidesBegin == SideInit => SidesIInv
<1> SUFFICES ASSUME SideInit PROVE SidesIInv
  OBVIOUS
<1>1. TimelineIInv /\ WorkflowIInv
  BY TimelineBegins, WorkflowBegins DEF SideInit
<1>2. SessionIInv
  BY SessionBegins DEF SideInit, NoSession
<1>3. (part = "source" /\ RemoteIInv) \/ (part # "source" /\ NoSource)
  BY RemoteBegins DEF SideInit
<1> QED
  BY <1>1, <1>2, <1>3 DEF SidesIInv

LEMMA SidesKept ==
  ASSUME SidesIInv, [SideNext]_<<vars, remoteVars, sessionVars, timelineVars, workflowVars, part>>
  PROVE  SidesIInv'
<1>1. /\ part' = part
      /\ [SessionNext]_sessionVars /\ [TimelineNext]_timelineVars /\ [WorkflowNext]_workflowVars
      /\ (part = "source" /\ [RemoteNext]_remoteVars) \/ UNCHANGED remoteVars
  BY DEF SideNext
<1>2. SessionIInv' /\ TimelineIInv' /\ WorkflowIInv'
  BY <1>1, SessionKept, TimelineKept, WorkflowKept DEF SidesIInv
<1>3. ASSUME part = "source" PROVE RemoteIInv'
  BY <1>1, <1>3, RemoteKept DEF SidesIInv
<1>4. ASSUME part # "source" PROVE NoSource'
  <2>1. NoSource /\ UNCHANGED remoteVars
    BY <1>1, <1>4 DEF SidesIInv
  <2> QED
    BY <2>1 DEF NoSource, remoteVars, NoWalk, NoTool
<1> QED
  BY <1>1, <1>2, <1>3, <1>4 DEF SidesIInv

\* What an orchestrator reads is whole, what it starts ends and leaves nothing
\* behind, what it tells of an issue is one history, and its policy is the last
\* good one of the file (SidesInv).
THEOREM SidesInvHolds == SideBySide => []SidesInv
<1>1. SidesIInv => SidesInv
  <2> SUFFICES ASSUME SidesIInv PROVE SidesInv
    OBVIOUS
  <2>1. SourcesInv
    BY SourcesAreWhole, NoSourceIsWhole DEF SidesIInv
  <2>2. SessionsInv
    BY SessionsAreEnded DEF SidesIInv
  <2>3. TimelineInv /\ WorkflowInv
    BY TimelineIsWhole, PolicyIsGood DEF SidesIInv
  <2> QED
    BY <2>1, <2>2, <2>3 DEF SidesInv
<1> QED
  BY <1>1, SidesBegin, SidesKept, PTL DEF SideBySide
=============================================================================
