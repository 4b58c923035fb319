---------------------------- MODULE RunPlans_proofs ----------------------------
(***************************************************************************)
(* Proofs about RunPlans: for any number of requests and coordinations,    *)
(* any mode, any replan budget and any number of plan versions; and about  *)
(* PlanContent: for any submissions and any graphs of tasks.               *)
(*                                                                         *)
(* The inductive invariant says what each await of a call still knows:     *)
(* which plan may be active while another one takes its place, whose tasks *)
(* may be open until the old ones are retired, what a queued version       *)
(* number was computed from, and where the run may stand when a coupling   *)
(* that has looked at its phase moves it.                                  *)
(***************************************************************************)
EXTENDS Planning, Integers, FiniteSetTheorems, WellFoundedInduction, TLAPS

-----------------------------------------------------------------------------
(* The inductive invariant *)

Undisturbed == "plans" \notin torn

\* The awaits of a plan transition.
MovePcs == {"move", "retirePrior", "point", "approval", "request", "resolve",
            "couple", "phase", "handle", "retire"}

\* The plan versions are stored one behind the other, and none carries a
\* number beyond its place.
InPlaces == \E n \in 0..MaxPlans : Stored = 1..n

NumberedInPlace ==
  \A p \in Stored : plans[p].version \in 1..p /\ plans[p].pattern \in Patterns

\* The run names a plan that is stored.
ActiveStored == activePlan # NoPlan => activePlan \in Stored

\* What the frame of a call holds.
FrameHolds(x) ==
  /\ frame[x].pc \in MovePcs => frame[x].plan \in Stored /\ frame[x].to \in PlanStatuses
  /\ frame[x].pc = "retirePrior" =>
       /\ frame[x].prior \in Plans \ {frame[x].plan}
       /\ frame[x].to = "active"
  /\ frame[x].pc = "point" =>
       frame[x].to = "active" \/ (frame[x].to = "superseded" /\ frame[x].prior = frame[x].plan)
  /\ frame[x].pc = "resolve" => frame[x].object \in Plans
  /\ frame[x].pc = "insert" =>
       frame[x].version \in 1..(Cardinality(Stored) + 1) /\ frame[x].pattern \in Patterns

FramesHold == \A x \in Callers : FrameHolds(x)

\* The puts that are queued find a place.
Inserting == {x \in Callers : frame[x].pc = "insert"}
RoomLeft == Cardinality(Stored) + Cardinality(Inserting) <= MaxPlans

\* Where a coordination stands is told by its frame.
SessionAt(c) ==
  CASE frame[c].pc = "idle" -> {"off", "live"}
    [] frame[c].pc = "insert" -> {"live"}
    [] frame[c].pc \in {"start", "register"} -> {"starting"}
    [] OTHER -> {"settling"}

SessionsFollow ==
  /\ \A c \in Coordinators :
       /\ session[c] \in SessionAt(c)
       /\ submitted[c] # NoPlan => submitted[c] \in Stored
  /\ \A o \in Operators : frame[o].pc \notin {"start", "register", "block"}

\* A coordination that starts is alone as well.
OneStarts ==
  "sessions" \notin torn =>
    \A c \in Coordinators : session[c] = "starting" =>
      \A d \in Coordinators \ {c} : session[d] = "off"

\* In a mode that gates plans, an activation of a plan with tasks is the
\* operator's, and is on record before the plan is pointed at.
GatedMoves ==
  PlanGated => \A x \in Callers :
    (frame[x].to = "active" /\ frame[x].pc \in MovePcs
       /\ plans[frame[x].plan].pattern = "orchestrated") =>
      /\ x \in Operators
      /\ frame[x].pc # "move" => frame[x].plan \in chosen

\* Without overlapping creations every version has the number of its place,
\* and so will the one that is queued.
NumbersInOrder ==
  "versions" \notin torn =>
    /\ \A p \in Stored : plans[p].version = p
    /\ \A x \in Inserting :
         /\ \A y \in Inserting : y = x
         /\ frame[x].version = Cardinality(Stored) + 1
         /\ MayReplan(Cardinality(Stored))
    /\ Cardinality(Stored) <= IF MaxReplans = 0 THEN 1 ELSE MaxReplans

\* Who changes the active plan, until its tasks are retired.
Acting(x) == Unfinished(x) /\ frame[x].to \in {"active", "superseded"}
Activating(x) == Unfinished(x) /\ frame[x].to = "active"
Pointing(x) == frame[x].pc \in {"retirePrior", "point"}

ActivePlans == {p \in Plans : plans[p].status = "active"}

\* One call at a time changes the active plan, and until it has pointed the
\* run at it, the plans that are active are that plan and the one it replaces.
OneActing ==
  Undisturbed =>
    /\ \A x, y \in Callers : Acting(x) /\ Acting(y) => x = y
    /\ \A x \in Callers :
         /\ frame[x].pc = "retirePrior" =>
              /\ frame[x].prior = activePlan
              /\ ActivePlans \subseteq {activePlan, frame[x].plan}
         /\ frame[x].pc = "point" =>
              ActivePlans \subseteq IF frame[x].to = "active" THEN {frame[x].plan} ELSE {}
         /\ Activating(x) /\ ~Pointing(x) => activePlan = frame[x].plan
    /\ (\A x \in Callers : ~Pointing(x)) => ActivePlans \subseteq {activePlan}

\* The tasks of the plan before are open only until the activation has retired
\* them, and an activation is over when its own are there.
TasksFollow ==
  Undisturbed =>
    /\ \A x \in Callers :
         Activating(x) /\ frame[x].pc = "retire" => OpenTasks \subseteq Listed(frame[x].todo) \cup spared
    /\ (activePlan # NoPlan /\ \A x \in Callers : ~Activating(x)) =>
         /\ OpenTasks \subseteq {activePlan} \cup spared
         /\ plans[activePlan].pattern = "orchestrated" => plans[activePlan].tasks # "none"

\* The phase the run is in or is suspended from.
Standing == IF phase \in SuspendedPhases THEN suspendedFrom ELSE phase

\* A coordination that is about to start planning finds the run created; a
\* coupling about to move the run does not find it where it moves it.
LooksHold ==
  torn \cap {"phase", "sessions"} = {} =>
    \A x \in Callers :
      /\ frame[x].pc = "start" => phase = "created"
      /\ frame[x].pc = "phase" => Standing \notin {"created", FollowPhase(frame[x].to)}

PlanIInv ==
  /\ TypeOK /\ suspendedFrom \in ActivePhases \cup {NoPhase}
  /\ InPlaces /\ NumberedInPlace /\ ActiveStored /\ FramesHold /\ RoomLeft /\ SessionsFollow
  /\ OneStarts /\ OneCoordination /\ GatedMoves /\ GateHolds /\ NumbersInOrder
  /\ OneActing /\ TasksFollow /\ LooksHold

-----------------------------------------------------------------------------
(* Types *)

Frames == [pc : CallPcs, plan : Plans \cup {NoPlan},
           to : PlanStatuses \cup {"none"}, from : PlanStatuses \cup {"none"},
           prior : Plans \cup {NoPlan}, version : 0..MaxPlans,
           pattern : Patterns \cup {"none"},
           object : Plans \cup {NoPlan}, todo : Lists]

Records == [status : PlanStatuses \cup {"absent"}, version : 0..MaxPlans,
            pattern : Patterns \cup {"none"}, tasks : TaskStatuses,
            approval : {"none", "pending", "over"}]

\* The plans and the frames have their types.
LEMMA TypedParts ==
  ASSUME TypeOK
  PROVE  frame \in [Callers -> Frames] /\ plans \in [Plans -> Records]
  BY DEF TypeOK, Frames, Records

\* A list holds the tasks that are open.
LEMMA ListsTyped ==
  /\ Nothing \in Lists /\ Listed(Nothing) = {}
  /\ TaskList \in Lists /\ Listed(TaskList) = OpenTasks
  BY DEF Nothing, Lists, Listed, TaskList, OpenTasks, OpenStatuses

LEMMA IdleTyped == Idle \in Frames
  BY PlanAssumptions, ListsTyped DEF Idle, Frames, CallPcs, Plans

LEMMA NoRecordTyped == NoRecord \in Records
  BY PlanAssumptions DEF NoRecord, Records, TaskStatuses, Plans

\* The phase machine stays within the phases, and remembers an active one.
LEMMA MachineTyped ==
  ASSUME phase \in Phases, suspendedFrom \in ActivePhases \cup {NoPhase},
         sweeping \in Lists, NEW to, TransitionRun(to)
  PROVE  /\ phase' \in Phases /\ suspendedFrom' \in ActivePhases \cup {NoPhase}
         /\ sweeping' \in Lists
  BY ListsTyped
     DEF TransitionRun, CanMove, OriginAfter, RunEdges, Phases, ActivePhases, SuspendedPhases,
         TerminalPhases, NoPhase

-----------------------------------------------------------------------------
(* What the shared step operators do, field by field *)

\* The frames of all other calls stay.
OthersStay(x) == \A y \in Callers : y # x => frame'[y] = frame[y]

\* The call x goes on at pc with what it knows.
Carries(x) ==
  /\ frame'[x].plan = frame[x].plan /\ frame'[x].to = frame[x].to
  /\ frame'[x].pc \in {"retirePrior", "point"} => frame'[x].prior = frame[x].prior
  /\ frame'[x].version = frame[x].version /\ frame'[x].pattern = frame[x].pattern

Goes(x, pc) ==
  /\ frame' \in [Callers -> Frames] /\ OthersStay(x) /\ frame'[x].pc = pc
  /\ Carries(x) /\ frame'[x].todo = frame[x].todo

\* The call x is over.
Ends(x) ==
  /\ frame' \in [Callers -> Frames] /\ OthersStay(x)
  /\ frame'[x].pc = "idle" /\ frame'[x].to = "none" /\ frame'[x].plan = NoPlan

\* A coordination is over with its call.
SessionOver(x) ==
  /\ session' \in [Coordinators -> SessionStates]
  /\ submitted' \in [Coordinators -> Plans \cup {NoPlan}]
  /\ inFlight' \in Coordinators \cup {NoCaller}
  /\ x \in Coordinators =>
       /\ session'[x] = "off" /\ submitted'[x] = NoPlan /\ inFlight' = NoCaller
       /\ \A c \in Coordinators \ {x} : session'[c] = session[c] /\ submitted'[c] = submitted[c]
  /\ x \in Operators => UNCHANGED coordVars

LEMMA GotoGoes ==
  ASSUME TypeOK, NEW x \in Callers, NEW pc \in CallPcs, Goto(x, pc)
  PROVE  Goes(x, pc)
<1>1. frame \in [Callers -> Frames]  BY TypedParts
<1> DEFINE prior == IF pc \in {"retirePrior", "point"} THEN frame[x].prior ELSE NoPlan
           next == [frame[x] EXCEPT !.pc = pc, !.from = "none", !.object = NoPlan, !.prior = prior]
<1>2. frame[x] \in Frames /\ prior \in Plans \cup {NoPlan}  BY <1>1 DEF Frames
<1>3. frame' = [frame EXCEPT ![x] = next]  BY <1>1, <1>2 DEF Goto, Frames
<1>4. pc \in {"retirePrior", "point"} => prior = frame[x].prior  OBVIOUS
<1> HIDE DEF prior
<1>5. /\ next \in Frames /\ next.pc = pc /\ next.plan = frame[x].plan /\ next.to = frame[x].to
      /\ next.prior = prior /\ next.version = frame[x].version
      /\ next.pattern = frame[x].pattern /\ next.todo = frame[x].todo
  BY <1>2 DEF Frames
<1> HIDE DEF next
<1> QED  BY <1>1, <1>3, <1>4, <1>5 DEF Goes, OthersStay, Carries

LEMMA IdleEnds ==
  ASSUME TypeOK, NEW x \in Callers, frame' = [frame EXCEPT ![x] = Idle]
  PROVE  Ends(x)
<1>1. frame \in [Callers -> Frames]  BY TypedParts
<1> QED  BY <1>1, IdleTyped DEF Ends, OthersStay, Idle

LEMMA ReturnEnds ==
  ASSUME TypeOK, NEW x \in Callers, Return(x)
  PROVE  Ends(x) /\ SessionOver(x)
<1>1. Ends(x)  BY IdleEnds DEF Return
<1>2. x \in Operators => x \notin Coordinators  BY PlanAssumptions
<1> QED  BY <1>1, <1>2 DEF Return, SessionOver, TypeOK, SessionStates, coordVars

\* Nothing of the plans but their approvals changes.
LooksSame ==
  \A q \in Plans :
    /\ plans'[q].status = plans[q].status /\ plans'[q].version = plans[q].version
    /\ plans'[q].pattern = plans[q].pattern /\ plans'[q].tasks = plans[q].tasks

StatusSet(p, to) ==
  /\ plans' \in [Plans -> Records]
  /\ \A q \in Plans :
       /\ plans'[q].status = IF q = p THEN to ELSE plans[q].status
       /\ plans'[q].version = plans[q].version
       /\ plans'[q].pattern = plans[q].pattern /\ plans'[q].tasks = plans[q].tasks

\* Only the tasks of plans change, and of those who is in S.
TasksSet(S, to) ==
  /\ plans' \in [Plans -> Records]
  /\ \A q \in Plans :
       /\ plans'[q].status = plans[q].status /\ plans'[q].version = plans[q].version
       /\ plans'[q].pattern = plans[q].pattern
       /\ plans'[q].tasks = IF q \in S THEN to ELSE plans[q].tasks

LEMMA SetStatusSets ==
  ASSUME TypeOK, NEW p \in Plans, NEW to \in PlanStatuses, SetStatus(p, to)
  PROVE  StatusSet(p, to)
<1>1. plans \in [Plans -> Records]  BY TypedParts
<1> QED  BY <1>1 DEF SetStatus, StatusSet, Records

LEMMA SetApprovalSame ==
  ASSUME TypeOK, NEW p \in Plans, NEW to \in {"pending", "over"}, SetApproval(p, to)
  PROVE  LooksSame /\ plans' \in [Plans -> Records]
<1>1. plans \in [Plans -> Records]  BY TypedParts
<1> QED  BY <1>1 DEF SetApproval, LooksSame, Records

\* Only tasks that are not over change, and they come from what they were or
\* from there to what ends them.
TasksMove ==
  /\ plans' \in [Plans -> Records]
  /\ \A q \in Plans :
       /\ plans'[q].status = plans[q].status /\ plans'[q].version = plans[q].version
       /\ plans'[q].pattern = plans[q].pattern
       /\ \/ plans'[q].tasks = plans[q].tasks
          \/ plans[q].tasks \in OpenStatuses /\ plans'[q].tasks \in OpenStatuses \cup {"over"}

LEMMA TaskSetMoves ==
  ASSUME TypeOK, NEW p \in Plans, NEW to \in OpenStatuses \cup {"over"},
         plans[p].tasks \in OpenStatuses, plans' = [plans EXCEPT ![p].tasks = to]
  PROVE  TasksMove /\ plans'[p].tasks = to
<1>1. plans \in [Plans -> Records]  BY TypedParts
<1> QED  BY <1>1 DEF TasksMove, Records, TaskStatuses

LEMMA CancelTaskMoves ==
  ASSUME TypeOK, NEW p \in Plans, NEW read, CancelTask(p, read)
  PROVE  TasksMove /\ (CanCancel(p, read) => p \notin OpenTasks')
<1>1. CASE CanCancel(p, read)
  <2>1. plans[p].tasks \in OpenStatuses  BY <1>1 DEF CanCancel, Cancelable
  <2>2. plans' = [plans EXCEPT ![p].tasks = "over"]  BY <1>1 DEF CancelTask
  <2>3. TasksMove /\ plans'[p].tasks = "over"  BY <2>1, <2>2, TaskSetMoves
  <2> QED  BY <2>3 DEF OpenTasks, OpenStatuses
<1>2. CASE ~CanCancel(p, read)
  <2>1. plans' = plans /\ plans \in [Plans -> Records]  BY <1>2, TypedParts DEF CancelTask
  <2> QED  BY <1>2, <2>1 DEF TasksMove
<1> QED  BY <1>1, <1>2

-----------------------------------------------------------------------------
(* What each step does *)

\* Where the steps of a transition end up is among the awaits of a call.
LEMMA MovePcsAreCalls == MovePcs \subseteq CallPcs
  BY DEF MovePcs, CallPcs

LEMMA AfterMoveIsMove ==
  ASSUME NEW x \in Callers
  PROVE  AfterMove(x) \in MovePcs
  BY DEF AfterMove, MovePcs

\* The plan of a transition is one of the plans.
LEMMA MovesPlan ==
  ASSUME TypeOK, FramesHold, NEW x \in Callers, frame[x].pc \in MovePcs
  PROVE  frame[x].plan \in Plans /\ frame[x].plan \in Stored /\ frame[x].to \in PlanStatuses
  BY DEF FramesHold, FrameHolds, Stored

LEMMA MoveStep ==
  ASSUME TypeOK, FramesHold, NEW x \in Callers, Move(x)
  PROVE  /\ frame[x].pc = "move"
         /\ UNCHANGED <<phase, suspendedFrom, activePlan, sweeping, asks>>
         /\ \/ /\ Legal(x) /\ StatusSet(frame[x].plan, frame[x].to) /\ Goes(x, AfterMove(x))
               /\ chosen' = IF x \in Operators /\ frame[x].to = "active"
                            THEN chosen \cup {frame[x].plan} ELSE chosen
               /\ torn' = IF Overlapped(x) THEN torn \cup {"plans"} ELSE torn
               /\ UNCHANGED <<session, submitted, inFlight>>
            \/ /\ ~Legal(x) /\ Ends(x) /\ SessionOver(x) /\ UNCHANGED <<plans, torn, chosen>>
<1>1. frame[x].pc = "move"  BY DEF Move, At
<1>2. frame[x].plan \in Plans /\ frame[x].to \in PlanStatuses
  BY <1>1, MovesPlan DEF MovePcs
<1>3. CASE Legal(x)
  <2>1. StatusSet(frame[x].plan, frame[x].to)
    BY <1>2, <1>3, SetStatusSets DEF Move
  <2>2. Goes(x, AfterMove(x))
    BY <1>3, GotoGoes, AfterMoveIsMove, MovePcsAreCalls DEF Move
  <2> QED  BY <1>1, <1>3, <2>1, <2>2 DEF Move, runVars, coordVars
<1>4. CASE ~Legal(x)
  BY <1>1, <1>4, ReturnEnds DEF Move, runVars
<1> QED  BY <1>3, <1>4

LEMMA RetirePriorStep ==
  ASSUME TypeOK, FramesHold, NEW x \in Callers, RetirePrior(x)
  PROVE  /\ frame[x].pc = "retirePrior" /\ frame[x].prior \in Plans
         /\ UNCHANGED <<phase, suspendedFrom, activePlan, sweeping, asks, chosen>>
         /\ \/ /\ <<plans[frame[x].prior].status, "superseded">> \in PlanEdges
               /\ StatusSet(frame[x].prior, "superseded") /\ Goes(x, "point")
               /\ UNCHANGED <<session, submitted, inFlight, torn>>
            \/ /\ Ends(x) /\ SessionOver(x) /\ torn' = torn \cup {"plans"} /\ UNCHANGED plans
<1>1. frame[x].pc = "retirePrior"  BY DEF RetirePrior, At
<1>2. frame[x].prior \in Plans  BY <1>1 DEF FramesHold, FrameHolds
<1>3. CASE <<plans[frame[x].prior].status, "superseded">> \in PlanEdges
  <2>1. StatusSet(frame[x].prior, "superseded")
    BY <1>2, <1>3, SetStatusSets DEF RetirePrior, PlanStatuses
  <2>2. Goes(x, "point")
    BY <1>3, GotoGoes DEF RetirePrior, CallPcs
  <2> QED  BY <1>1, <1>2, <1>3, <2>1, <2>2 DEF RetirePrior, runVars, coordVars
<1>4. CASE ~(<<plans[frame[x].prior].status, "superseded">> \in PlanEdges)
  BY <1>1, <1>2, <1>4, ReturnEnds DEF RetirePrior, runVars
<1> QED  BY <1>3, <1>4

LEMMA PointStep ==
  ASSUME TypeOK, NEW x \in Callers, Point(x)
  PROVE  /\ frame[x].pc = "point"
         /\ UNCHANGED <<phase, suspendedFrom, plans, session, submitted, inFlight, sweeping,
                        asks, torn, chosen>>
         /\ activePlan' = IF frame[x].to = "active" THEN frame[x].plan ELSE NoPlan
         /\ Goes(x, IF frame[x].to = "active" THEN "approval" ELSE "couple")
<1>1. (IF frame[x].to = "active" THEN "approval" ELSE "couple") \in CallPcs
  BY DEF CallPcs
<1> QED  BY <1>1, GotoGoes DEF Point, At, coordVars

\* The steps that change nothing but the approvals and the frame of x.
Quiet(x) ==
  /\ LooksSame /\ plans' \in [Plans -> Records]
  /\ UNCHANGED <<phase, suspendedFrom, activePlan, sweeping, asks, chosen>>
  /\ \/ UNCHANGED <<session, submitted, inFlight>> /\ torn' = torn
     \/ Ends(x) /\ SessionOver(x) /\ torn' = torn \cup {"plans"}

LEMMA LooksUnchanged ==
  ASSUME TypeOK, UNCHANGED plans
  PROVE  LooksSame /\ plans' \in [Plans -> Records]
  BY TypedParts DEF LooksSame

\* The frame of a call that goes on to resolve an approval object, or to
\* retire the open tasks, is a frame, and the rest of it stays.
LEMMA FrameResolves ==
  ASSUME NEW f \in Frames, NEW p \in Plans
  PROVE  LET next == [f EXCEPT !.pc = "resolve", !.object = p]
         IN  /\ next \in Frames /\ next.pc = "resolve" /\ next.object = p
             /\ next.plan = f.plan /\ next.to = f.to /\ next.prior = f.prior
             /\ next.version = f.version /\ next.pattern = f.pattern
  BY DEF Frames, CallPcs

LEMMA FrameRetires ==
  ASSUME NEW f \in Frames, NEW S \in Lists
  PROVE  LET next == [f EXCEPT !.pc = "retire", !.todo = S]
         IN  /\ next \in Frames /\ next.pc = "retire" /\ next.todo = S
             /\ next.plan = f.plan /\ next.to = f.to /\ next.prior = f.prior
             /\ next.version = f.version /\ next.pattern = f.pattern
  BY DEF Frames, CallPcs

LEMMA ApprovalHookStep ==
  ASSUME TypeOK, NEW x \in Callers, ApprovalHook(x)
  PROVE  /\ frame[x].pc = "approval" /\ Quiet(x) /\ UNCHANGED <<session, submitted, inFlight, torn, plans>>
         /\ frame' \in [Callers -> Frames] /\ OthersStay(x) /\ Carries(x)
         /\ \/ frame'[x].pc \in {"request", "couple"}
            \/ frame'[x].pc = "resolve" /\ frame'[x].object \in Plans
<1>1. frame \in [Callers -> Frames]  BY TypedParts
<1>2. PendingApprovals \subseteq Plans  BY DEF PendingApprovals
<1>3. PendingApprovals # {} => (CHOOSE p \in PendingApprovals : TRUE) \in Plans
  BY <1>2
<1> DEFINE one == CHOOSE p \in PendingApprovals : TRUE
<1>4. LooksSame /\ plans' \in [Plans -> Records]
  BY LooksUnchanged DEF ApprovalHook
<1>5. frame[x].pc = "approval"
      /\ UNCHANGED <<phase, suspendedFrom, activePlan, plans, session, submitted, inFlight, sweeping, asks, torn, chosen>>
  BY DEF ApprovalHook, At, runVars, coordVars
<1>6. CASE frame[x].to = "awaiting-approval" /\ PendingApprovals = {}
  <2>1. frame' = [frame EXCEPT ![x].pc = "request"]  BY <1>1, <1>6 DEF ApprovalHook
  <2> QED  BY <1>1, <1>4, <1>5, <2>1 DEF Frames, CallPcs, OthersStay, Carries, Quiet
<1>7. CASE /\ \/ frame[x].to = "awaiting-approval" /\ PendingApprovals # {}
              \/ frame[x].to # "awaiting-approval" /\ PendingApprovals = {}
  <2>1. frame' = [frame EXCEPT ![x].pc = "couple"]  BY <1>1, <1>7 DEF ApprovalHook
  <2> QED  BY <1>1, <1>4, <1>5, <2>1 DEF Frames, CallPcs, OthersStay, Carries, Quiet
<1>8. CASE frame[x].to # "awaiting-approval" /\ PendingApprovals # {}
  <2>1. frame' = [frame EXCEPT ![x].pc = "resolve", ![x].object = one]
    BY <1>1, <1>8 DEF ApprovalHook
  <2>2. one \in Plans  BY <1>3, <1>8
  <2> DEFINE next == [frame[x] EXCEPT !.pc = "resolve", !.object = one]
  <2> HIDE DEF one
  <2>a. frame[x] \in Frames  BY <1>1
  <2>3. next \in Frames /\ next.pc = "resolve" /\ next.object = one /\ next.plan = frame[x].plan
        /\ next.to = frame[x].to /\ next.prior = frame[x].prior
        /\ next.version = frame[x].version /\ next.pattern = frame[x].pattern
    BY ONLY <2>2, <2>a, FrameResolves
  <2>4. frame' = [frame EXCEPT ![x] = next]  BY <1>1, <2>1 DEF Frames
  <2> HIDE DEF next
  <2>5. frame' \in [Callers -> Frames] /\ OthersStay(x) /\ frame'[x] = next
    BY <1>1, <2>3, <2>4 DEF OthersStay
  <2> QED  BY <1>4, <1>5, <2>2, <2>3, <2>5 DEF Carries, Quiet
<1> QED  BY <1>6, <1>7, <1>8

LEMMA RequestApprovalStep ==
  ASSUME TypeOK, FramesHold, NEW x \in Callers, RequestApproval(x)
  PROVE  frame[x].pc = "request" /\ Quiet(x) /\ UNCHANGED <<session, submitted, inFlight, torn>> /\ Goes(x, "couple")
<1>1. frame[x].pc = "request"  BY DEF RequestApproval, At
<1>2. frame[x].plan \in Plans  BY <1>1, MovesPlan DEF MovePcs
<1>3. LooksSame /\ plans' \in [Plans -> Records]
  BY <1>2, SetApprovalSame DEF RequestApproval
<1>4. Goes(x, "couple")  BY GotoGoes DEF RequestApproval, CallPcs
<1> QED  BY <1>1, <1>3, <1>4 DEF RequestApproval, Quiet, runVars, coordVars

LEMMA ResolveApprovalStep ==
  ASSUME TypeOK, FramesHold, NEW x \in Callers, ResolveApproval(x)
  PROVE  /\ frame[x].pc = "resolve" /\ Quiet(x)
         /\ \/ Goes(x, "couple") /\ UNCHANGED <<session, submitted, inFlight, torn>>
            \/ Ends(x) /\ SessionOver(x) /\ torn' = torn \cup {"plans"}
<1>1. frame[x].pc = "resolve"  BY DEF ResolveApproval, At
<1>2. frame[x].object \in Plans  BY <1>1 DEF FramesHold, FrameHolds
<1>3. CASE frame[x].object \in PendingApprovals
  <2>1. LooksSame /\ plans' \in [Plans -> Records]
    BY <1>2, <1>3, SetApprovalSame DEF ResolveApproval
  <2>2. Goes(x, "couple")  BY <1>3, GotoGoes DEF ResolveApproval, CallPcs
  <2> QED  BY <1>1, <1>3, <2>1, <2>2 DEF ResolveApproval, Quiet, runVars, coordVars
<1>4. CASE frame[x].object \notin PendingApprovals
  <2>1. LooksSame /\ plans' \in [Plans -> Records]
    BY <1>4, LooksUnchanged DEF ResolveApproval
  <2>2. Ends(x) /\ SessionOver(x)  BY <1>4, ReturnEnds DEF ResolveApproval
  <2> QED  BY <1>1, <1>4, <2>1, <2>2 DEF ResolveApproval, Quiet, runVars
<1> QED  BY <1>3, <1>4

LEMMA CoupleStep ==
  ASSUME TypeOK, NEW x \in Callers, Couple(x)
  PROVE  /\ frame[x].pc = "couple" /\ Quiet(x) /\ UNCHANGED <<session, submitted, inFlight, torn, plans>>
         /\ Goes(x, IF GuardAllows(frame[x].to) THEN "phase" ELSE "handle")
<1>1. (IF GuardAllows(frame[x].to) THEN "phase" ELSE "handle") \in CallPcs  BY DEF CallPcs
<1>2. LooksSame /\ plans' \in [Plans -> Records]  BY LooksUnchanged DEF Couple
<1> QED  BY <1>1, <1>2, GotoGoes DEF Couple, At, Quiet, runVars, coordVars

LEMMA CouplePhaseStep ==
  ASSUME TypeOK, NEW x \in Callers, CouplePhase(x)
  PROVE  /\ frame[x].pc = "phase" /\ Goes(x, "handle")
         /\ TransitionRun(FollowPhase(frame[x].to))
         /\ torn' = IF \E y \in Callers \ {x} : frame[y].pc = "phase" /\ FollowPhase(frame[y].to) = phase'
                    THEN torn \cup {"phase"} ELSE torn
         /\ UNCHANGED <<activePlan, plans, session, submitted, inFlight, asks, chosen>>
  BY GotoGoes DEF CouplePhase, At, CallPcs, coordVars

LEMMA HandlePlanStatusStep ==
  ASSUME TypeOK, NEW x \in Callers, HandlePlanStatus(x)
  PROVE  /\ frame[x].pc = "handle"
         /\ UNCHANGED <<phase, suspendedFrom, activePlan, plans, sweeping, asks, torn, chosen>>
         /\ \/ /\ activePlan = frame[x].plan
               /\ frame' \in [Callers -> Frames] /\ OthersStay(x) /\ Carries(x)
               /\ frame'[x].pc = "retire" /\ frame'[x].todo = TaskList
               /\ UNCHANGED <<session, submitted, inFlight>>
            \/ /\ ~(activePlan = frame[x].plan /\ frame[x].to \in {"active", "superseded", "completed"})
               /\ Ends(x) /\ SessionOver(x)
<1>1. frame \in [Callers -> Frames]  BY TypedParts
<1>2. TaskList \in Lists  BY ListsTyped
<1>3. CASE activePlan = frame[x].plan /\ frame[x].to \in {"active", "superseded", "completed"}
  <2>1. frame' = [frame EXCEPT ![x].pc = "retire", ![x].todo = TaskList]
    BY <1>3 DEF HandlePlanStatus, TasksToRetire
  <2> DEFINE next == [frame[x] EXCEPT !.pc = "retire", !.todo = TaskList]
  <2>a. frame[x] \in Frames  BY <1>1
  <2>2. next \in Frames /\ next.pc = "retire" /\ next.todo = TaskList /\ next.plan = frame[x].plan
        /\ next.to = frame[x].to /\ next.prior = frame[x].prior
        /\ next.version = frame[x].version /\ next.pattern = frame[x].pattern
    BY ONLY <1>2, <2>a, FrameRetires
  <2>3. frame' = [frame EXCEPT ![x] = next]  BY <1>1, <2>1 DEF Frames
  <2> HIDE DEF next
  <2>4. /\ frame' \in [Callers -> Frames] /\ OthersStay(x) /\ Carries(x)
        /\ frame'[x].pc = "retire" /\ frame'[x].todo = TaskList
    BY <1>1, <2>2, <2>3 DEF OthersStay, Carries
  <2> QED  BY <1>3, <2>4 DEF HandlePlanStatus, At, runVars, coordVars
<1>4. CASE ~(activePlan = frame[x].plan /\ frame[x].to \in {"active", "superseded", "completed"})
  BY <1>4, ReturnEnds DEF HandlePlanStatus, At, runVars
<1> QED  BY <1>3, <1>4

LEMMA RetireTaskStep ==
  ASSUME TypeOK, NEW x \in Callers, NEW p \in Plans, RetireTask(x, p)
  PROVE  /\ frame[x].pc = "retire"
         /\ UNCHANGED <<phase, suspendedFrom, activePlan, session, submitted, inFlight, sweeping,
                        asks, torn, chosen>>
         /\ TasksMove /\ p \notin OpenTasks' \ spared'
         /\ frame' \in [Callers -> Frames] /\ OthersStay(x) /\ Carries(x)
         /\ frame'[x].pc = "retire" /\ Listed(frame'[x].todo) = Listed(frame[x].todo) \ {p}
<1>1. frame \in [Callers -> Frames]  BY TypedParts
<1> DEFINE read == frame[x].todo[p]
           list == [frame[x].todo EXCEPT ![p] = "none"]
           next == [frame[x] EXCEPT !.todo = list]
<1>2. frame[x] \in Frames /\ frame[x].todo \in Lists  BY <1>1 DEF Frames
<1>3. list \in Lists /\ Listed(list) = Listed(frame[x].todo) \ {p}  BY <1>2 DEF Lists, Listed
<1>4. frame' = [frame EXCEPT ![x] = next]  BY <1>1 DEF RetireTask, Frames
<1> HIDE DEF list
<1>5. /\ next \in Frames /\ next.todo = list /\ next.pc = frame[x].pc /\ next.plan = frame[x].plan
      /\ next.to = frame[x].to /\ next.prior = frame[x].prior
      /\ next.version = frame[x].version /\ next.pattern = frame[x].pattern
  BY <1>2, <1>3 DEF Frames
<1> HIDE DEF next
<1>6. /\ frame' \in [Callers -> Frames] /\ OthersStay(x) /\ Carries(x) /\ frame'[x] = next
  BY <1>1, <1>4, <1>5 DEF OthersStay, Carries
<1>7. TasksMove /\ (CanCancel(p, read) => p \notin OpenTasks')  BY CancelTaskMoves DEF RetireTask
<1>8. ~CanCancel(p, read) => p \in spared'  BY DEF RetireTask
<1>9. frame[x].pc = "retire"  BY DEF RetireTask, At
<1> QED  BY <1>3, <1>5, <1>6, <1>7, <1>8, <1>9 DEF RetireTask, runVars, coordVars

LEMMA MaterializeStep ==
  ASSUME TypeOK, FramesHold, NEW x \in Callers, Materialize(x)
  PROVE  /\ frame[x].pc = "retire" /\ Listed(frame[x].todo) = {}
         /\ UNCHANGED <<phase, suspendedFrom, activePlan, sweeping, asks, torn, chosen>>
         /\ Ends(x) /\ SessionOver(x)
         /\ TasksSet(IF frame[x].to = "active" /\ plans[frame[x].plan].pattern = "orchestrated"
                     THEN {frame[x].plan} ELSE {}, "pending")
<1>1. plans \in [Plans -> Records]  BY TypedParts
<1>2. frame[x].plan \in Plans  BY MovesPlan DEF Materialize, At, MovePcs
<1>3. TasksSet(IF frame[x].to = "active" /\ plans[frame[x].plan].pattern = "orchestrated"
               THEN {frame[x].plan} ELSE {}, "pending")
  BY <1>1, <1>2 DEF Materialize, TasksSet, Records, TaskStatuses, OpenStatuses
<1> QED  BY <1>3, ReturnEnds DEF Materialize, At, runVars

-----------------------------------------------------------------------------
(* How many plans are stored *)

LEMMA StoredCounted ==
  ASSUME InPlaces
  PROVE  /\ Cardinality(Stored) \in 0..MaxPlans
         /\ Stored = 1..Cardinality(Stored)
<1>1. PICK n \in 0..MaxPlans : Stored = 1..n  BY DEF InPlaces
<1>2. Cardinality(1..n) = n  BY FS_Interval, PlanAssumptions
<1> QED  BY <1>1, <1>2

LEMMA InsertingCounted ==
  /\ IsFiniteSet(Inserting) /\ Cardinality(Inserting) \in Nat
  /\ Inserting # {} => Cardinality(Inserting) >= 1
<1>1. IsFiniteSet(Callers)  BY FS_Union, PlanAssumptions DEF Callers
<1>2. Inserting \in SUBSET Callers  BY DEF Inserting
<1>3. IsFiniteSet(Inserting)  BY <1>1, <1>2, FS_Subset
<1>4. Cardinality(Inserting) \in Nat  BY <1>3, FS_CardinalityType
<1>5. Cardinality(Inserting) = 0 <=> Inserting = {}  BY <1>3, FS_EmptySet
<1> QED  BY <1>3, <1>4, <1>5

\* The largest of some numbers up to n.
LEMMA Largest ==
  ASSUME NEW n \in Nat, NEW S, S \subseteq 0..n, S # {}
  PROVE  \E v \in S : \A w \in S : w <= v
<1> DEFINE T == {n - v : v \in S}
<1>1. T \subseteq Nat /\ T # {}
  <2>1. \A v \in S : v \in 0..n  OBVIOUS
  <2>2. \A v \in S : n - v \in Nat  BY <2>1
  <2>3. T \subseteq Nat  BY <2>2
  <2>4. T # {}  OBVIOUS
  <2> QED  BY <2>3, <2>4
<1>2. IsWellFoundedOn(OpToRel(<, Nat), Nat)  BY NatLessThanWellFounded
<1>3. \E x \in T : \A y \in T : ~(<<y, x>> \in OpToRel(<, Nat))  BY <1>1, <1>2, WFMin
<1>4. PICK x \in T : \A y \in T : ~(<<y, x>> \in OpToRel(<, Nat))  BY <1>3, Zenon
<1>5. PICK v \in S : x = n - v  BY <1>4
<1>6. ASSUME NEW w \in S, w > v PROVE FALSE
  <2>1. n - w \in T /\ n - w < x  BY <1>5, <1>6
  <2>2. <<n - w, x>> \in Nat \X Nat  BY <1>1, <1>4, <2>1
  <2>3. <<n - w, x>>[1] < <<n - w, x>>[2]  BY <2>1
  <2>4. <<n - w, x>> \in OpToRel(<, Nat)  BY <2>2, <2>3, Zenon DEF OpToRel
  <2> QED  BY <1>4, <2>1, <2>4, Zenon
<1> QED  BY <1>6

LEMMA LastVersionIs ==
  ASSUME TypeOK, InPlaces, NumberedInPlace
  PROVE  /\ LastVersion \in 0..Cardinality(Stored)
         /\ (\A p \in Stored : plans[p].version = p) => LastVersion = Cardinality(Stored)
<1> DEFINE vs == {plans[p].version : p \in Stored} \cup {0}
           n == Cardinality(Stored)
<1>1. n \in Nat /\ Stored = 1..n  BY StoredCounted, PlanAssumptions
<1>2. vs \subseteq 0..n /\ vs # {}
  BY <1>1 DEF NumberedInPlace
<1>3. \E v \in vs : \A w \in vs : w <= v
  <2> HIDE DEF vs
  <2> QED  BY <1>1, <1>2, Largest
<1>4. LastVersion = CHOOSE v \in vs : \A w \in vs : w <= v
  BY DEF LastVersion
<1>5. LastVersion \in vs /\ \A w \in vs : w <= LastVersion
  <2> HIDE DEF vs
  <2> QED  BY <1>3, <1>4
<1>6. ASSUME \A p \in Stored : plans[p].version = p
      PROVE  LastVersion = n
  <2>1. n \in vs  BY <1>1, <1>6
  <2>2. LastVersion <= n /\ n <= LastVersion
    <3> HIDE DEF vs
    <3> QED  BY <1>1, <1>2, <1>5, <2>1
  <2>3. LastVersion \in Nat
    <3> HIDE DEF vs
    <3> QED  BY <1>1, <1>2, <1>5
  <2> QED  BY <1>1, <2>2, <2>3
<1> QED  BY <1>1, <1>2, <1>5, <1>6

-----------------------------------------------------------------------------
(* What each step does, continued: creations, coordinations, requests *)

LEMMA CreatePlanStep ==
  ASSUME TypeOK, InPlaces, NumberedInPlace, NEW x \in Callers, NEW pattern \in Patterns,
         CreatePlan(x, pattern)
  PROVE  /\ UNCHANGED <<phase, suspendedFrom, activePlan, plans, session, submitted, inFlight,
                        sweeping, chosen>>
         /\ MayReplan(LastVersion)
         /\ Cardinality(Stored) + Cardinality(Inserting) < MaxPlans
         /\ torn' = IF Inserting # {} THEN torn \cup {"versions"} ELSE torn
         /\ frame' \in [Callers -> Frames] /\ OthersStay(x)
         /\ frame'[x].pc = "insert" /\ frame'[x].version = LastVersion + 1
         /\ frame'[x].pattern = pattern /\ frame'[x].to = "none"
<1>1. frame \in [Callers -> Frames]  BY TypedParts
<1> DEFINE next == [Idle EXCEPT !.pc = "insert", !.version = LastVersion + 1, !.pattern = pattern]
           last == LastVersion
<1>2. frame' = [frame EXCEPT ![x] = next]  BY DEF CreatePlan
<1>3. {y \in Callers : At(y, "insert")} = Inserting  BY DEF At, Inserting
<1>4. Cardinality(Stored) + Cardinality(Inserting) < MaxPlans
  BY <1>3 DEF CreatePlan
<1>5. last \in Nat /\ last <= Cardinality(Stored) /\ Cardinality(Stored) \in Nat
  BY LastVersionIs, StoredCounted, PlanAssumptions
<1>6. last + 1 \in 0..MaxPlans
  BY <1>4, <1>5, InsertingCounted, PlanAssumptions
<1> HIDE DEF last
<1>7. /\ next \in Frames /\ next.pc = "insert" /\ next.version = last + 1
      /\ next.pattern = pattern /\ next.to = "none"
  <2>1. next = [Idle EXCEPT !.pc = "insert", !.version = last + 1, !.pattern = pattern]
    BY DEF last
  <2> DEFINE v == last + 1
  <2> HIDE DEF next, v
  <2>2. next = [Idle EXCEPT !.pc = "insert", !.version = v, !.pattern = pattern]
    BY <2>1 DEF v
  <2>3. v \in 0..MaxPlans  BY <1>6 DEF v
  <2>4. /\ next \in Frames /\ next.pc = "insert" /\ next.version = v
        /\ next.pattern = pattern /\ next.to = "none"
    BY <2>2, <2>3, PlanAssumptions, ListsTyped DEF Idle, Frames, CallPcs, Plans
  <2> QED  BY <2>4 DEF v
<1>8. next.version = LastVersion + 1  BY <1>7 DEF last
<1> HIDE DEF next
<1>9. frame' \in [Callers -> Frames] /\ OthersStay(x) /\ frame'[x] = next
  BY <1>1, <1>2, <1>7 DEF OthersStay
<1>10. torn' = IF Inserting # {} THEN torn \cup {"versions"} ELSE torn
  BY <1>3 DEF CreatePlan
<1>11. /\ UNCHANGED <<phase, suspendedFrom, activePlan, plans, session, submitted, inFlight, sweeping, chosen>>
       /\ MayReplan(LastVersion)
  BY DEF CreatePlan, runVars, coordVars
<1> QED  BY <1>4, <1>7, <1>8, <1>9, <1>10, <1>11

\* The plan of a put is the next one, and there is room for it.
LEMMA InsertStep ==
  ASSUME TypeOK, InPlaces, RoomLeft, FramesHold, NEW x \in Callers, Insert(x)
  PROVE  LET p == Cardinality(Stored) + 1 IN
         /\ frame[x].pc = "insert" /\ p \in Plans \ Stored
         /\ plans' \in [Plans -> Records]
         /\ \A q \in Plans \ {p} : plans'[q] = plans[q]
         /\ plans'[p].status = "draft" /\ plans'[p].version = frame[x].version
         /\ plans'[p].pattern = frame[x].pattern /\ plans'[p].tasks = "none"
         /\ Ends(x)
         /\ submitted' \in [Coordinators -> Plans \cup {NoPlan}]
         /\ \A c \in Coordinators : submitted'[c] = IF c = x THEN p ELSE submitted[c]
         /\ UNCHANGED <<phase, suspendedFrom, activePlan, session, inFlight, sweeping, asks, torn, chosen>>
<1> DEFINE p == Cardinality(Stored) + 1
           new == [NoRecord EXCEPT !.status = "draft", !.version = frame[x].version,
                                   !.pattern = frame[x].pattern]
<1>1. plans \in [Plans -> Records] /\ frame \in [Callers -> Frames]  BY TypedParts
<1>2. frame[x].pc = "insert" /\ x \in Inserting  BY DEF Insert, At, Inserting
<1>3. p \in Plans \ Stored
  <2>1. Cardinality(Stored) \in Nat /\ Stored = 1..Cardinality(Stored)
    BY StoredCounted, PlanAssumptions
  <2>2. Cardinality(Inserting) \in Nat /\ Cardinality(Inserting) >= 1
    BY <1>2, InsertingCounted
  <2>3. Cardinality(Stored) + Cardinality(Inserting) <= MaxPlans  BY DEF RoomLeft
  <2> DEFINE n == Cardinality(Stored)
             k == Cardinality(Inserting)
  <2>4. n + 1 \in 1..MaxPlans /\ n + 1 \notin 1..n
    <3>1. n \in Nat /\ k \in Nat /\ k >= 1 /\ n + k <= MaxPlans  BY <2>1, <2>2, <2>3
    <3> HIDE DEF n, k
    <3> QED  BY <3>1, PlanAssumptions
  <2> QED  BY <2>1, <2>4 DEF Plans
<1>4. new \in Records /\ new.status = "draft" /\ new.version = frame[x].version
      /\ new.pattern = frame[x].pattern /\ new.tasks = "none"
  <2>1. frame[x].version \in 0..MaxPlans /\ frame[x].pattern \in Patterns \cup {"none"}
    BY <1>1 DEF Frames
  <2> QED  BY <2>1 DEF NoRecord, Records, TaskStatuses, PlanStatuses
<1>5. plans' = [plans EXCEPT ![p] = new]  BY DEF Insert
<1>6. /\ submitted' = IF x \in Coordinators THEN [submitted EXCEPT ![x] = p] ELSE submitted
      /\ UNCHANGED <<phase, suspendedFrom, activePlan, session, inFlight, sweeping, asks, torn, chosen>>
  BY DEF Insert, runVars
<1> HIDE DEF new, p
<1>7. plans' \in [Plans -> Records] /\ plans'[p] = new /\ \A q \in Plans \ {p} : plans'[q] = plans[q]
  BY <1>1, <1>3, <1>4, <1>5
<1>8. /\ submitted' \in [Coordinators -> Plans \cup {NoPlan}]
      /\ \A c \in Coordinators : submitted'[c] = IF c = x THEN p ELSE submitted[c]
  BY <1>3, <1>6 DEF TypeOK
<1>9. Ends(x)  BY IdleEnds DEF Insert
<1>10. /\ frame[x].pc = "insert" /\ p \in Plans \ Stored
       /\ plans' \in [Plans -> Records]
       /\ \A q \in Plans \ {p} : plans'[q] = plans[q]
       /\ plans'[p].status = "draft" /\ plans'[p].version = frame[x].version
       /\ plans'[p].pattern = frame[x].pattern /\ plans'[p].tasks = "none"
  BY <1>2, <1>3, <1>4, <1>7
<1> QED  BY <1>6, <1>8, <1>9, <1>10 DEF p

\* The steps of the tasks themselves, and of the retirement that goes with a
\* cancellation of the run.
TaskSteps(p) == SweepTask(p) \/ TaskReady(p) \/ TaskBegins(p) \/ TaskSettles(p)

LEMMA MoveTaskMoves ==
  ASSUME TypeOK, NEW p \in Plans, NEW from \in OpenStatuses, NEW to \in OpenStatuses \cup {"over"},
         MoveTask(p, from, to)
  PROVE  /\ TasksMove
         /\ UNCHANGED <<phase, suspendedFrom, activePlan, frame, session, submitted, inFlight,
                        sweeping, torn, chosen, spared>>
  BY TaskSetMoves DEF MoveTask, runVars, coordVars

LEMMA TaskStepsStep ==
  ASSUME TypeOK, NEW p \in Plans, TaskSteps(p)
  PROVE  /\ TasksMove /\ sweeping' \in Lists
         /\ UNCHANGED <<phase, suspendedFrom, activePlan, frame, session, submitted, inFlight,
                        asks, torn, chosen, spared>>
<1>1. CASE SweepTask(p)
  <2>1. sweeping' \in Lists  BY <1>1 DEF SweepTask, TypeOK, Lists
  <2> QED  BY <1>1, <2>1, CancelTaskMoves DEF SweepTask, runVars, coordVars
<1>2. sweeping \in Lists  BY DEF TypeOK
<1>3. {"pending", "ready", "running", "failed"} = OpenStatuses  BY DEF OpenStatuses
<1>4. CASE TaskReady(p)  BY <1>2, <1>3, <1>4, MoveTaskMoves DEF TaskReady
<1>5. CASE TaskBegins(p)  BY <1>2, <1>3, <1>5, MoveTaskMoves DEF TaskBegins
<1>6. CASE TaskSettles(p)
  <2>1. PICK to \in {"ready", "failed", "over"} : MoveTask(p, "running", to)  BY <1>6 DEF TaskSettles
  <2>2. UNCHANGED asks  BY <1>6 DEF TaskSettles
  <2> QED  BY <1>2, <1>3, <2>1, <2>2, MoveTaskMoves
<1> QED  BY <1>1, <1>4, <1>5, <1>6 DEF TaskSteps

\* The status of one coordination changes.
SessionSet(c, to) ==
  /\ session' \in [Coordinators -> SessionStates]
  /\ session'[c] = to /\ \A d \in Coordinators \ {c} : session'[d] = session[d]

LEMMA CoordinateStep ==
  ASSUME TypeOK, NEW c \in Coordinators, Coordinate(c)
  PROVE  /\ session[c] = "off" /\ MayCoordinate /\ SessionSet(c, "starting")
         /\ Goes(c, IF phase = "created" THEN "start" ELSE "register")
         /\ torn' = IF \E d \in Coordinators : session[d] = "starting"
                    THEN torn \cup {"sessions"} ELSE torn
         /\ asks' \in 0..MaxAsks
         /\ UNCHANGED <<phase, suspendedFrom, activePlan, plans, submitted, inFlight, sweeping, chosen>>
<1>1. c \in Callers /\ (IF phase = "created" THEN "start" ELSE "register") \in CallPcs
  BY DEF Callers, CallPcs
<1>2. SessionSet(c, "starting")
  BY DEF Coordinate, SessionSet, TypeOK, SessionStates
<1>3. Goes(c, IF phase = "created" THEN "start" ELSE "register")
  BY <1>1, GotoGoes DEF Coordinate
<1>4. asks' \in 0..MaxAsks  BY PlanAssumptions DEF Coordinate, Ask, TypeOK
<1> QED  BY <1>2, <1>3, <1>4 DEF Coordinate, runVars

LEMMA StartPlanningStep ==
  ASSUME TypeOK, NEW c \in Coordinators, StartPlanning(c)
  PROVE  /\ frame[c].pc = "start"
         /\ UNCHANGED <<activePlan, plans, submitted, inFlight, asks, torn, chosen>>
         /\ \/ CanMove(phase, suspendedFrom, "planning") /\ TransitionRun("planning") /\ Goes(c, "register")
               /\ UNCHANGED session
            \/ Ends(c) /\ SessionSet(c, "off") /\ UNCHANGED <<phase, suspendedFrom, sweeping>>
<1>1. c \in Callers  BY DEF Callers
<1>2. /\ frame[c].pc = "start"
      /\ UNCHANGED <<activePlan, plans, submitted, inFlight, asks, torn, chosen>>
  BY DEF StartPlanning, At
<1>3. CASE CanMove(phase, suspendedFrom, "planning")
  BY <1>1, <1>2, <1>3, GotoGoes DEF StartPlanning, CallPcs
<1>4. CASE ~CanMove(phase, suspendedFrom, "planning")
  <2>1. SessionSet(c, "off")  BY <1>4 DEF StartPlanning, SessionSet, TypeOK, SessionStates
  <2>2. Ends(c)  BY <1>1, <1>4, IdleEnds DEF StartPlanning
  <2> QED  BY <1>2, <1>4, <2>1, <2>2 DEF StartPlanning
<1> QED  BY <1>3, <1>4

LEMMA RegisterStep ==
  ASSUME TypeOK, NEW c \in Coordinators, Register(c)
  PROVE  /\ frame[c].pc = "register" /\ Ends(c) /\ SessionSet(c, "live") /\ inFlight' = c
         /\ UNCHANGED <<phase, suspendedFrom, activePlan, plans, submitted, sweeping, asks, torn, chosen>>
<1>1. c \in Callers  BY DEF Callers
<1>2. Ends(c)  BY <1>1, IdleEnds DEF Register
<1>3. SessionSet(c, "live")  BY DEF Register, SessionSet, TypeOK, SessionStates
<1> QED  BY <1>2, <1>3 DEF Register, At, runVars

\* A transition begins.
Begins(x, p, to) ==
  /\ frame' \in [Callers -> Frames] /\ OthersStay(x)
  /\ frame'[x].pc = "move" /\ frame'[x].plan = p /\ frame'[x].to = to
  /\ frame'[x].prior = activePlan

LEMMA BeginBegins ==
  ASSUME TypeOK, NEW x \in Callers, NEW p \in Stored, NEW to \in PlanStatuses, Begin(x, p, to)
  PROVE  Begins(x, p, to)
<1>1. plans \in [Plans -> Records] /\ frame \in [Callers -> Frames]  BY TypedParts
<1>2. p \in Plans /\ plans[p].status \in PlanStatuses /\ activePlan \in Plans \cup {NoPlan}
  BY <1>1 DEF Stored, Records, TypeOK
<1> DEFINE st == plans[p].status
           next == [Idle EXCEPT !.pc = "move", !.plan = p, !.to = to, !.from = st,
                                !.prior = activePlan]
<1>3. frame' = [frame EXCEPT ![x] = next]  BY DEF Begin
<1>4. st \in PlanStatuses  BY <1>2
<1> HIDE DEF st
<1>5. next \in Frames /\ next.pc = "move" /\ next.plan = p /\ next.to = to /\ next.prior = activePlan
  BY <1>2, <1>4, IdleTyped DEF Frames, CallPcs
<1> HIDE DEF next
<1> QED  BY <1>1, <1>3, <1>5 DEF Begins, OthersStay

LEMMA SessionEndsStep ==
  ASSUME TypeOK, SessionsFollow, NEW c \in Coordinators, NEW completed \in BOOLEAN, SessionEnds(c, completed)
  PROVE  /\ session[c] = "live" /\ frame[c].pc = "idle"
         /\ UNCHANGED <<phase, suspendedFrom, activePlan, plans, sweeping, asks, torn, chosen>>
         /\ \/ Ends(c) /\ SessionOver(c)
            \/ /\ submitted[c] \in Stored /\ SettleAs(submitted[c]) \in PlanStatuses
               /\ Begins(c, submitted[c], SettleAs(submitted[c]))
               /\ SessionSet(c, "settling") /\ UNCHANGED <<submitted, inFlight>>
            \/ Goes(c, "block") /\ SessionSet(c, "settling") /\ UNCHANGED <<submitted, inFlight>>
<1>1. c \in Callers  BY DEF Callers
<1>2. /\ session[c] = "live" /\ frame[c].pc = "idle"
      /\ UNCHANGED <<phase, suspendedFrom, activePlan, plans, sweeping, asks, torn, chosen>>
  BY DEF SessionEnds, At, runVars
<1>3. CASE completed /\ submitted[c] # NoPlan /\ Refused(SettleAs(submitted[c]))
  BY <1>1, <1>2, <1>3, ReturnEnds DEF SessionEnds
<1>4. CASE completed /\ submitted[c] # NoPlan /\ ~Refused(SettleAs(submitted[c]))
  <2>1. submitted[c] \in Stored  BY <1>4 DEF SessionsFollow
  <2>2. SettleAs(submitted[c]) \in PlanStatuses  BY DEF SettleAs, PlanStatuses
  <2>3. Begin(c, submitted[c], SettleAs(submitted[c]))  BY <1>4 DEF SessionEnds
  <2>4. Begins(c, submitted[c], SettleAs(submitted[c]))  BY <1>1, <2>1, <2>2, <2>3, BeginBegins
  <2>5. SessionSet(c, "settling")  BY <1>4 DEF SessionEnds, SessionSet, TypeOK, SessionStates
  <2> QED  BY <1>2, <1>4, <2>1, <2>2, <2>4, <2>5 DEF SessionEnds
<1>5. CASE ~(completed /\ submitted[c] # NoPlan)
  <2>1. Goes(c, "block")  BY <1>1, <1>5, GotoGoes DEF SessionEnds, CallPcs
  <2>2. SessionSet(c, "settling")  BY <1>5 DEF SessionEnds, SessionSet, TypeOK, SessionStates
  <2> QED  BY <1>2, <1>5, <2>1, <2>2 DEF SessionEnds
<1> QED  BY <1>3, <1>4, <1>5

LEMMA BlockStep ==
  ASSUME TypeOK, NEW c \in Coordinators, Block(c)
  PROVE  /\ frame[c].pc = "block" /\ TransitionRun("blocked") /\ Ends(c) /\ SessionOver(c)
         /\ UNCHANGED <<activePlan, plans, asks, torn, chosen>>
<1>1. c \in Callers  BY DEF Callers
<1> QED  BY <1>1, ReturnEnds DEF Block, At

LEMMA OperatorTransitionStep ==
  ASSUME TypeOK, NEW o \in Operators, NEW p \in Plans, NEW to \in PlanStatuses,
         OperatorTransition(o, p, to)
  PROVE  /\ frame[o].pc = "idle" /\ p \in Stored /\ Begins(o, p, to) /\ asks' \in 0..MaxAsks
         /\ UNCHANGED <<phase, suspendedFrom, activePlan, plans, session, submitted, inFlight,
                        sweeping, torn, chosen>>
<1>1. o \in Callers  BY DEF Callers
<1>2. p \in Stored /\ Begin(o, p, to)  BY DEF OperatorTransition
<1>3. asks' \in 0..MaxAsks  BY PlanAssumptions DEF OperatorTransition, Ask, TypeOK
<1> QED  BY <1>1, <1>2, <1>3, BeginBegins DEF OperatorTransition, At, runVars, coordVars

LEMMA OperatorMovesRunStep ==
  ASSUME TypeOK, NEW to \in RunTargets, OperatorMovesRun(to)
  PROVE  /\ CanMove(phase, suspendedFrom, to) /\ TransitionRun(to) /\ asks' \in 0..MaxAsks /\ asks' > asks
         /\ torn' = IF \E x \in Callers : frame[x].pc \in {"start", "phase"}
                    THEN torn \cup {"phase"} ELSE torn
         /\ UNCHANGED <<activePlan, plans, frame, session, submitted, inFlight, chosen>>
  BY PlanAssumptions DEF OperatorMovesRun, Ask, TypeOK, Looked, At, coordVars

LEMMA OperatorResolvesStep ==
  ASSUME TypeOK, NEW p \in Plans, OperatorResolves(p)
  PROVE  /\ LooksSame /\ plans' \in [Plans -> Records] /\ asks' \in 0..MaxAsks
         /\ UNCHANGED <<phase, suspendedFrom, activePlan, frame, session, submitted, inFlight,
                        sweeping, torn, chosen>>
<1>1. asks' \in 0..MaxAsks  BY PlanAssumptions DEF OperatorResolves, Ask, TypeOK
<1>2. LooksSame /\ plans' \in [Plans -> Records]
  BY SetApprovalSame DEF OperatorResolves
<1> QED  BY <1>1, <1>2 DEF OperatorResolves, runVars, coordVars

LEMMA OperatorRetriesStep ==
  ASSUME TypeOK, NEW p \in Plans, OperatorRetries(p)
  PROVE  /\ TasksMove /\ asks' \in 0..MaxAsks
         /\ UNCHANGED <<phase, suspendedFrom, activePlan, frame, session, submitted, inFlight,
                        sweeping, torn, chosen, spared>>
<1>1. asks' \in 0..MaxAsks  BY PlanAssumptions DEF OperatorRetries, Ask, TypeOK
<1>2. MoveTask(p, "failed", "ready") /\ "failed" \in OpenStatuses /\ "ready" \in OpenStatuses
  BY DEF OperatorRetries, OpenStatuses
<1> QED  BY <1>1, <1>2, MoveTaskMoves

LEMMA RestartStep ==
  ASSUME TypeOK, Restart
  PROVE  /\ frame' \in [Callers -> Frames]
         /\ \A x \in Callers : frame'[x].pc = "idle" /\ frame'[x].to = "none"
         /\ session' \in [Coordinators -> SessionStates] /\ \A c \in Coordinators : session'[c] = "off"
         /\ submitted' \in [Coordinators -> Plans \cup {NoPlan}]
         /\ \A c \in Coordinators : submitted'[c] = NoPlan
         /\ inFlight' = NoCaller /\ sweeping' = Nothing /\ asks' \in 0..MaxAsks
         /\ torn' = torn \cup {"restart"} \cup IF \E x \in Callers : Unfinished(x) THEN {"plans"} ELSE {}
         /\ UNCHANGED <<phase, suspendedFrom, activePlan, plans, chosen>>
<1>1. frame' \in [Callers -> Frames] /\ \A x \in Callers : frame'[x].pc = "idle" /\ frame'[x].to = "none"
  BY IdleTyped DEF Restart, Idle
<1>2. asks' \in 0..MaxAsks  BY PlanAssumptions DEF Restart, Ask, TypeOK
<1> QED  BY <1>1, <1>2 DEF Restart, SessionStates, runVars

-----------------------------------------------------------------------------
(* The stored plans *)

\* What the steps but a put make of the plans: their numbers and patterns
\* stay, and their status takes an edge of the plan machine.
PlansMove ==
  /\ plans' \in [Plans -> Records]
  /\ \A q \in Plans :
       /\ plans'[q].version = plans[q].version /\ plans'[q].pattern = plans[q].pattern
       /\ \/ plans'[q].status = plans[q].status
          \/ <<plans[q].status, plans'[q].status>> \in PlanEdges

\* A call of an operator or a session that creates a plan.
Creating(x, pattern) ==
  /\ CreatePlan(x, pattern) /\ frame[x].pc = "idle" /\ asks' \in 0..MaxAsks
  /\ x \in Coordinators => session[x] = "live"

LEMMA OperatorCreateStep ==
  ASSUME TypeOK, NEW o \in Operators, NEW pattern, OperatorCreate(o, pattern)
  PROVE  o \in Callers /\ Creating(o, pattern)
  BY PlanAssumptions DEF OperatorCreate, Creating, Ask, TypeOK, At, Callers

LEMMA SubmitPlanStep ==
  ASSUME TypeOK, NEW c \in Coordinators, NEW pattern, SubmitPlan(c, pattern)
  PROVE  c \in Callers /\ Creating(c, pattern)
  BY DEF SubmitPlan, Creating, TypeOK, At, Callers

LEMMA PlansStep ==
  ASSUME PlanIInv, Next
  PROVE  PlansMove \/ \E x \in Callers : Insert(x)
<1>1. TypeOK /\ FramesHold /\ SessionsFollow /\ InPlaces /\ NumberedInPlace  BY DEF PlanIInv
<1>2. ASSUME LooksSame /\ plans' \in [Plans -> Records] PROVE PlansMove
  BY <1>2 DEF LooksSame, PlansMove
<1>3. ASSUME UNCHANGED plans PROVE PlansMove
  BY <1>1, <1>2, <1>3, LooksUnchanged
<1>4. (\A S, to : TasksSet(S, to) => PlansMove) /\ (TasksMove => PlansMove)
  BY DEF TasksSet, TasksMove, PlansMove
<1>5. ASSUME NEW p \in Plans, NEW to, StatusSet(p, to), <<plans[p].status, to>> \in PlanEdges
      PROVE  PlansMove
  BY <1>5 DEF StatusSet, PlansMove
<1>6. ASSUME NEW x \in Callers, CallSteps(x) PROVE PlansMove \/ Insert(x)
  <2>1. CASE Move(x)
    <3>1. CASE UNCHANGED plans  BY <1>3, <3>1
    <3>2. CASE StatusSet(frame[x].plan, frame[x].to) /\ Legal(x)
      <4>1. frame[x].plan \in Plans  BY <1>1, <2>1, MoveStep, MovesPlan DEF MovePcs
      <4> QED  BY <1>5, <3>2, <4>1 DEF Legal
    <3> QED  BY <1>1, <2>1, <3>1, <3>2, MoveStep
  <2>2. CASE RetirePrior(x)
    <3>1. CASE UNCHANGED plans  BY <1>3, <3>1
    <3>2. CASE /\ StatusSet(frame[x].prior, "superseded")
               /\ <<plans[frame[x].prior].status, "superseded">> \in PlanEdges
      BY <1>1, <1>5, <2>2, <3>2, RetirePriorStep
    <3> QED  BY <1>1, <2>2, <3>1, <3>2, RetirePriorStep
  <2>3. CASE Point(x)  BY <1>1, <1>3, <2>3, PointStep
  <2>4. CASE ApprovalHook(x)  BY <1>1, <1>2, <2>4, ApprovalHookStep DEF Quiet
  <2>5. CASE RequestApproval(x)  BY <1>1, <1>2, <2>5, RequestApprovalStep DEF Quiet
  <2>6. CASE ResolveApproval(x)  BY <1>1, <1>2, <2>6, ResolveApprovalStep DEF Quiet
  <2>7. CASE Couple(x)  BY <1>1, <1>2, <2>7, CoupleStep DEF Quiet
  <2>8. CASE CouplePhase(x)  BY <1>1, <1>3, <2>8, CouplePhaseStep
  <2>9. CASE HandlePlanStatus(x)  BY <1>1, <1>3, <2>9, HandlePlanStatusStep
  <2>10. ASSUME NEW p \in Plans, RetireTask(x, p) PROVE PlansMove
    BY <1>1, <1>4, <2>10, RetireTaskStep
  <2>11. CASE Materialize(x)  BY <1>1, <1>4, <2>11, MaterializeStep
  <2> QED  BY <1>6, <2>1, <2>2, <2>3, <2>4, <2>5, <2>6, <2>7, <2>8, <2>9, <2>10, <2>11
           DEF CallSteps, TransitionSteps
<1>7. ASSUME NEW c \in Coordinators, CoordinatorSteps(c) PROVE PlansMove
  BY <1>1, <1>3, <1>7, StartPlanningStep, RegisterStep, BlockStep DEF CoordinatorSteps
<1>8. ASSUME NEW c \in Coordinators, NEW pattern \in Patterns, SubmitPlan(c, pattern) PROVE PlansMove
  BY <1>3, <1>8 DEF SubmitPlan, CreatePlan
<1>9. ASSUME NEW c \in Coordinators, NEW b \in BOOLEAN, SessionEnds(c, b) PROVE PlansMove
  BY <1>1, <1>3, <1>9, SessionEndsStep
<1>10. ASSUME NEW p \in Plans, TaskSteps(p) PROVE PlansMove
  BY <1>1, <1>4, <1>10, TaskStepsStep
<1>11. CASE Requests
  <2>1. ASSUME NEW p \in Plans, OperatorResolves(p) \/ OperatorRetries(p) PROVE PlansMove
    BY <1>1, <1>2, <1>4, <2>1, OperatorResolvesStep, OperatorRetriesStep
  <2>2. CASE UNCHANGED plans  BY <1>3, <2>2
  <2> QED  BY <1>11, <2>1, <2>2
           DEF Requests, Coordinate, OperatorCreate, CreatePlan, OperatorTransition, OperatorMovesRun, Restart
<1> QED  BY <1>6, <1>7, <1>8, <1>9, <1>10, <1>11 DEF Next, TaskSteps

\* Nobody takes a stored plan away, and only a put stores one.
LEMMA StoredStays ==
  ASSUME PlansMove
  PROVE  Stored' = Stored
<1>1. ASSUME NEW q \in Plans PROVE plans'[q].status = "absent" <=> plans[q].status = "absent"
  BY DEF PlansMove, PlanEdges
<1> QED  BY <1>1 DEF Stored

LEMMA StoredGrows ==
  ASSUME PlanIInv, NEW x \in Callers, Insert(x)
  PROVE  /\ Stored' = Stored \cup {Cardinality(Stored) + 1}
         /\ Stored' = 1..(Cardinality(Stored) + 1)
         /\ Cardinality(Stored') = Cardinality(Stored) + 1
         /\ Cardinality(Stored) + 1 \in Plans \ Stored
         /\ \A q \in Stored : plans'[q] = plans[q]
<1> DEFINE n == Cardinality(Stored)
<1>1. TypeOK /\ InPlaces /\ RoomLeft /\ FramesHold  BY DEF PlanIInv
<1>2. n \in 0..MaxPlans /\ Stored = 1..n  BY <1>1, StoredCounted
<1>3. /\ n + 1 \in Plans \ Stored
      /\ \A q \in Plans \ {n + 1} : plans'[q] = plans[q]
      /\ plans'[n + 1].status = "draft"
  BY <1>1, InsertStep
<1> DEFINE m == n + 1
<1>4. n \in Nat /\ m \in Nat /\ m = n + 1 /\ 1..m = (1..n) \cup {m}
  <2> HIDE DEF n
  <2> QED  BY <1>2, PlanAssumptions
<1>5. Stored' = Stored \cup {m}
  <2> HIDE DEF m
  <2> QED  BY <1>3, <1>4 DEF Stored
<1>6. Stored' = 1..m
  <2> HIDE DEF m
  <2> QED  BY <1>2, <1>4, <1>5
<1>7. Cardinality(1..m) = m
  <2> HIDE DEF m
  <2>1. \A i, j \in Int : Cardinality(i..j) = IF i > j THEN 0 ELSE j - i + 1  BY FS_Interval
  <2>2. 1 \in Int /\ m \in Int /\ ~(1 > m)  BY <1>4
  <2> QED  BY <1>4, <2>1, <2>2
<1>8. Cardinality(Stored') = m
  <2> HIDE DEF m
  <2> QED  BY <1>6, <1>7
<1>9. \A q \in Stored : plans'[q] = plans[q]
  BY <1>3 DEF Stored
<1> QED  BY <1>3, <1>5, <1>6, <1>8, <1>9, Zenon

LEMMA InPlacesKept ==
  ASSUME PlanIInv, Next
  PROVE  /\ InPlaces' /\ NumberedInPlace' /\ Stored \subseteq Stored'
         /\ Cardinality(Stored) \in Nat /\ Cardinality(Stored)' \in Nat
         /\ Cardinality(Stored)' >= Cardinality(Stored)
<1>1. TypeOK /\ InPlaces /\ NumberedInPlace /\ RoomLeft /\ FramesHold  BY DEF PlanIInv
<1>2. Cardinality(Stored) \in 0..MaxPlans /\ Cardinality(Stored) \in Nat /\ Stored = 1..Cardinality(Stored)
  BY <1>1, StoredCounted, PlanAssumptions
<1>3. CASE PlansMove
  <2>1. Stored' = Stored  BY <1>3, StoredStays
  <2>2. Cardinality(Stored)' = Cardinality(Stored)  BY <2>1
  <2>3. InPlaces'  BY <1>1, <2>1 DEF InPlaces
  <2>4. NumberedInPlace'
    BY <1>1, <1>3, <2>1 DEF NumberedInPlace, PlansMove, Stored
  <2> QED  BY <1>2, <2>1, <2>2, <2>3, <2>4
<1>4. ASSUME NEW x \in Callers, Insert(x)
      PROVE  /\ InPlaces' /\ NumberedInPlace' /\ Stored \subseteq Stored'
             /\ Cardinality(Stored)' = Cardinality(Stored) + 1
  <2> DEFINE m == Cardinality(Stored) + 1
  <2>1. /\ Stored' = Stored \cup {m} /\ Stored' = 1..m /\ Cardinality(Stored)' = m
        /\ m \in Plans /\ \A q \in Stored : plans'[q] = plans[q]
    BY <1>4, StoredGrows
  <2>2. plans'[m].version = frame[x].version /\ plans'[m].pattern = frame[x].pattern
        /\ frame[x].pc = "insert"
    BY <1>1, <1>4, InsertStep
  <2>3. frame[x].version \in 1..m /\ frame[x].pattern \in Patterns
    BY <1>1, <2>2 DEF FramesHold, FrameHolds
  <2> HIDE DEF m
  <2>4. InPlaces'  BY <2>1, PlanAssumptions DEF InPlaces, Plans
  <2>5. NumberedInPlace'
    BY <1>1, <2>1, <2>2, <2>3 DEF NumberedInPlace
  <2> QED  BY <2>1, <2>4, <2>5 DEF m
<1> QED  BY <1>2, <1>3, <1>4, PlansStep

-----------------------------------------------------------------------------
(* The queued puts *)

\* A creation that is queued keeps what it computed, and leaves with its put.
PutsStay ==
  /\ \A y \in Inserting' : y \in Inserting /\ frame'[y] = frame[y]
  /\ Inserting' \subseteq Inserting

\* Where a call goes that is past no put.
LEMMA PutsStayWith ==
  ASSUME NEW x \in Callers, OthersStay(x), frame'[x].pc # "insert"
  PROVE  PutsStay
  BY DEF PutsStay, Inserting, OthersStay

LEMMA MovePcsArePuts == "insert" \notin MovePcs
  BY DEF MovePcs

LEMMA PutsStep ==
  ASSUME PlanIInv, Next
  PROVE  /\ torn \subseteq torn'
         /\ \/ PlansMove /\ PutsStay
            \/ \E x \in Callers, pattern \in Patterns : Creating(x, pattern)
            \/ \E x \in Callers : Insert(x)
<1>1. TypeOK /\ FramesHold /\ SessionsFollow /\ InPlaces /\ NumberedInPlace  BY DEF PlanIInv
<1>2. SUFFICES ASSUME ~\E x \in Callers, pattern \in Patterns : Creating(x, pattern),
                      ~\E x \in Callers : Insert(x)
               PROVE  torn \subseteq torn' /\ PutsStay
  <2>1. ASSUME NEW x \in Callers, NEW pattern \in Patterns, Creating(x, pattern)
        PROVE  torn \subseteq torn'
    BY <2>1 DEF Creating, CreatePlan
  <2>2. ASSUME NEW x \in Callers, Insert(x) PROVE torn \subseteq torn'
    BY <2>2 DEF Insert
  <2> QED  BY <2>1, <2>2, PlansStep
<1>3. ASSUME UNCHANGED frame PROVE PutsStay
  BY <1>3 DEF PutsStay, Inserting
<1>4. ASSUME NEW x \in Callers, Ends(x) PROVE PutsStay
  BY <1>4, PutsStayWith DEF Ends
<1>5. ASSUME NEW x \in Callers, NEW pc, pc # "insert", Goes(x, pc) PROVE PutsStay
  BY <1>5, PutsStayWith DEF Goes
<1>6. ASSUME NEW x \in Callers, CallSteps(x) PROVE torn \subseteq torn' /\ PutsStay
  <2>1. CASE Move(x)
    <3>1. AfterMove(x) # "insert"  BY AfterMoveIsMove, MovePcsArePuts
    <3> QED  BY <1>1, <1>4, <1>5, <2>1, <3>1, MoveStep
  <2>2. CASE RetirePrior(x)  BY <1>1, <1>4, <1>5, <2>2, RetirePriorStep
  <2>3. CASE Point(x)  BY <1>1, <1>5, <2>3, PointStep
  <2>4. CASE ApprovalHook(x)  BY <1>1, <2>4, ApprovalHookStep, PutsStayWith
  <2>5. CASE RequestApproval(x)  BY <1>1, <1>5, <2>5, RequestApprovalStep
  <2>6. CASE ResolveApproval(x)  BY <1>1, <1>4, <1>5, <2>6, ResolveApprovalStep
  <2>7. CASE Couple(x)  BY <1>1, <1>5, <2>7, CoupleStep
  <2>8. CASE CouplePhase(x)  BY <1>1, <1>5, <2>8, CouplePhaseStep
  <2>9. CASE HandlePlanStatus(x)  BY <1>1, <1>4, <2>9, HandlePlanStatusStep, PutsStayWith
  <2>10. ASSUME NEW p \in Plans, RetireTask(x, p) PROVE torn \subseteq torn' /\ PutsStay
    BY <1>1, <2>10, RetireTaskStep, PutsStayWith
  <2>11. CASE Materialize(x)  BY <1>1, <1>4, <2>11, MaterializeStep
  <2> QED  BY <1>2, <1>6, <2>1, <2>2, <2>3, <2>4, <2>5, <2>6, <2>7, <2>8, <2>9, <2>10, <2>11
           DEF CallSteps, TransitionSteps
<1>7. ASSUME NEW c \in Coordinators
      PROVE  /\ c \in Callers
             /\ CoordinatorSteps(c) => torn \subseteq torn' /\ PutsStay
             /\ Coordinate(c) => torn \subseteq torn' /\ PutsStay
             /\ \A b \in BOOLEAN : SessionEnds(c, b) => torn \subseteq torn' /\ PutsStay
  <2>1. c \in Callers  BY DEF Callers
  <2>2. CASE StartPlanning(c)  BY <1>1, <1>4, <1>5, <2>1, <2>2, StartPlanningStep
  <2>3. CASE Register(c)  BY <1>1, <1>4, <2>1, <2>3, RegisterStep
  <2>4. CASE Block(c)  BY <1>1, <1>4, <2>1, <2>4, BlockStep
  <2>5. CASE Coordinate(c)
    <3>1. (IF phase = "created" THEN "start" ELSE "register") # "insert"  OBVIOUS
    <3> QED  BY <1>1, <1>5, <2>1, <2>5, <3>1, CoordinateStep
  <2>6. ASSUME NEW b \in BOOLEAN, SessionEnds(c, b) PROVE torn \subseteq torn' /\ PutsStay
    <3>1. ASSUME NEW p, NEW to, Begins(c, p, to) PROVE PutsStay
      BY <2>1, <3>1, PutsStayWith DEF Begins
    <3> QED  BY <1>1, <1>4, <1>5, <2>1, <2>6, <3>1, SessionEndsStep
  <2> QED  BY <2>1, <2>2, <2>3, <2>4, <2>5, <2>6 DEF CoordinatorSteps
<1>8. ASSUME NEW c \in Coordinators, NEW pattern \in Patterns, SubmitPlan(c, pattern) PROVE FALSE
  BY <1>1, <1>2, <1>8, SubmitPlanStep
<1>9. ASSUME NEW p \in Plans, TaskSteps(p) PROVE torn \subseteq torn' /\ PutsStay
  BY <1>1, <1>3, <1>9, TaskStepsStep
<1>10. CASE Requests
  <2>1. ASSUME NEW o \in Operators, NEW pattern \in Patterns, OperatorCreate(o, pattern) PROVE FALSE
    BY <1>1, <1>2, <2>1, OperatorCreateStep
  <2>2. ASSUME NEW o \in Operators, NEW p \in Plans, NEW to \in PlanStatuses, OperatorTransition(o, p, to)
        PROVE  torn \subseteq torn' /\ PutsStay
    <3>1. o \in Callers  BY DEF Callers
    <3> QED  BY <1>1, <2>2, <3>1, OperatorTransitionStep, PutsStayWith DEF Begins
  <2>3. ASSUME NEW to \in RunTargets, OperatorMovesRun(to) PROVE torn \subseteq torn' /\ PutsStay
    BY <1>1, <1>3, <2>3, OperatorMovesRunStep
  <2>4. ASSUME NEW p \in Plans, OperatorResolves(p) \/ OperatorRetries(p) PROVE torn \subseteq torn' /\ PutsStay
    BY <1>1, <1>3, <2>4, OperatorResolvesStep, OperatorRetriesStep
  <2>5. CASE Restart
    BY <1>1, <2>5, RestartStep DEF PutsStay, Inserting
  <2> QED  BY <1>7, <1>10, <2>1, <2>2, <2>3, <2>4, <2>5 DEF Requests
<1> QED  BY <1>6, <1>7, <1>8, <1>9, <1>10 DEF Next, TaskSteps

\* A creation joins the queue, a put leaves it.
LEMMA CreatingJoins ==
  ASSUME PlanIInv, NEW x \in Callers, NEW pattern \in Patterns, Creating(x, pattern)
  PROVE  /\ x \notin Inserting /\ Inserting' = Inserting \cup {x}
         /\ \A y \in Inserting : frame'[y] = frame[y]
         /\ Cardinality(Inserting') = Cardinality(Inserting) + 1
<1>1. TypeOK /\ InPlaces /\ NumberedInPlace  BY DEF PlanIInv
<1>2. frame[x].pc = "idle" /\ OthersStay(x) /\ frame'[x].pc = "insert"
  BY <1>1, CreatePlanStep DEF Creating
<1>3. x \notin Inserting /\ Inserting' = Inserting \cup {x} /\ \A y \in Inserting : frame'[y] = frame[y]
  BY <1>2 DEF Inserting, OthersStay
<1>4. Cardinality(Inserting \cup {x}) = Cardinality(Inserting) + 1
  BY <1>3, InsertingCounted, FS_AddElement
<1> QED  BY <1>3, <1>4

LEMMA InsertLeaves ==
  ASSUME PlanIInv, NEW x \in Callers, Insert(x)
  PROVE  /\ x \in Inserting /\ Inserting' = Inserting \ {x}
         /\ \A y \in Inserting' : frame'[y] = frame[y]
         /\ Cardinality(Inserting') = Cardinality(Inserting) - 1
<1>1. TypeOK /\ InPlaces /\ RoomLeft /\ FramesHold  BY DEF PlanIInv
<1>2. frame[x].pc = "insert" /\ OthersStay(x) /\ frame'[x].pc = "idle"
  BY <1>1, InsertStep DEF Ends
<1>3. x \in Inserting /\ Inserting' = Inserting \ {x} /\ \A y \in Inserting' : frame'[y] = frame[y]
  BY <1>2 DEF Inserting, OthersStay
<1>4. Cardinality(Inserting \ {x}) = Cardinality(Inserting) - 1
  BY <1>3, InsertingCounted, FS_RemoveElement
<1> QED  BY <1>3, <1>4

LEMMA RoomLeftKept ==
  ASSUME PlanIInv, Next
  PROVE  RoomLeft'
<1>1. TypeOK /\ InPlaces /\ NumberedInPlace /\ RoomLeft  BY DEF PlanIInv
<1> DEFINE n == Cardinality(Stored)
           k == Cardinality(Inserting)
           m == Cardinality(Stored')
           l == Cardinality(Inserting')
<1>2. n \in Nat /\ k \in Nat /\ n + k <= MaxPlans /\ MaxPlans \in Nat
  BY <1>1, StoredCounted, InsertingCounted, PlanAssumptions DEF RoomLeft
<1>3. CASE PlansMove /\ PutsStay
  <2>1. m = n  BY <1>3, StoredStays
  <2>2. l \in Nat /\ l <= k
    <3>1. Inserting' \subseteq Inserting /\ IsFiniteSet(Inserting)
      BY <1>3, InsertingCounted DEF PutsStay
    <3>2. IsFiniteSet(Inserting') /\ l <= k  BY <3>1, FS_Subset
    <3> QED  BY <3>2, FS_CardinalityType
  <2> HIDE DEF n, k, m, l
  <2>3. m + l <= MaxPlans  BY <1>2, <2>1, <2>2
  <2> QED  BY <2>3 DEF RoomLeft, m, l
<1>4. ASSUME NEW x \in Callers, NEW pattern \in Patterns, Creating(x, pattern) PROVE RoomLeft'
  <2>1. UNCHANGED plans /\ n + k < MaxPlans  BY <1>1, <1>4, CreatePlanStep DEF Creating
  <2>2. Stored' = Stored  BY <2>1 DEF Stored
  <2>3. m = n /\ l = k + 1  BY <1>4, <2>2, CreatingJoins
  <2> HIDE DEF n, k, m, l
  <2>4. m + l <= MaxPlans  BY <1>2, <2>1, <2>3
  <2> QED  BY <2>4 DEF RoomLeft, m, l
<1>5. ASSUME NEW x \in Callers, Insert(x) PROVE RoomLeft'
  <2>1. m = n + 1 /\ l = k - 1  BY <1>5, StoredGrows, InsertLeaves
  <2> HIDE DEF n, k, m, l
  <2>2. m + l <= MaxPlans  BY <1>2, <2>1
  <2> QED  BY <2>2 DEF RoomLeft, m, l
<1> QED  BY <1>3, <1>4, <1>5, PutsStep

LEMMA NumbersInOrderKept ==
  ASSUME PlanIInv, Next
  PROVE  NumbersInOrder'
<1>1. TypeOK /\ InPlaces /\ NumberedInPlace /\ RoomLeft /\ FramesHold /\ NumbersInOrder  BY DEF PlanIInv
<1> DEFINE n == Cardinality(Stored)
           m == Cardinality(Stored')
           full == IF MaxReplans = 0 THEN 1 ELSE MaxReplans
<1>2. SUFFICES ASSUME "versions" \notin torn'
               PROVE  /\ \A p \in Stored' : plans'[p].version = p
                      /\ \A x \in Inserting' :
                           /\ \A y \in Inserting' : y = x
                           /\ frame'[x].version = m + 1
                           /\ MayReplan(m)
                      /\ m <= full
  BY DEF NumbersInOrder, MayReplan
<1>3. "versions" \notin torn  BY <1>2, PutsStep
<1>4. /\ \A p \in Stored : plans[p].version = p
      /\ \A x \in Inserting :
           /\ \A y \in Inserting : y = x
           /\ frame[x].version = n + 1
           /\ MayReplan(n)
      /\ n <= full /\ n \in Nat
  BY <1>1, <1>3, StoredCounted, PlanAssumptions DEF NumbersInOrder
<1>5. CASE PlansMove /\ PutsStay
  <2>1. Stored' = Stored /\ m = n  BY <1>5, StoredStays
  <2>2. \A p \in Stored' : plans'[p].version = p  BY <1>4, <1>5, <2>1 DEF PlansMove, Stored
  <2> HIDE DEF n, m
  <2>3. \A x \in Inserting' : x \in Inserting /\ frame'[x] = frame[x]  BY <1>5 DEF PutsStay
  <2> QED  BY <1>4, <2>1, <2>2, <2>3
<1>6. ASSUME NEW x \in Callers, NEW pattern \in Patterns, Creating(x, pattern)
      PROVE  /\ \A p \in Stored' : plans'[p].version = p
             /\ \A y \in Inserting' :
                  /\ \A z \in Inserting' : z = y
                  /\ frame'[y].version = m + 1
                  /\ MayReplan(m)
             /\ m <= full
  <2>1. /\ UNCHANGED plans /\ torn' = IF Inserting # {} THEN torn \cup {"versions"} ELSE torn
        /\ MayReplan(LastVersion) /\ frame'[x].version = LastVersion + 1
    BY <1>1, <1>6, CreatePlanStep DEF Creating
  <2>2. Stored' = Stored /\ m = n  BY <2>1 DEF Stored
  <2>3. Inserting' = {x}  BY <1>2, <1>6, <2>1, CreatingJoins
  <2>4. LastVersion = n  BY <1>1, <1>4, LastVersionIs
  <2> HIDE DEF n, m
  <2> QED  BY <1>4, <2>1, <2>2, <2>3, <2>4
<1>7. ASSUME NEW x \in Callers, Insert(x)
      PROVE  /\ \A p \in Stored' : plans'[p].version = p
             /\ Inserting' = {}
             /\ m <= full
  <2>1. x \in Inserting /\ Inserting' = Inserting \ {x}  BY <1>7, InsertLeaves
  <2>2. frame[x].version = n + 1 /\ MayReplan(n) /\ Inserting' = {}  BY <1>4, <2>1
  <2>3. /\ Stored' = Stored \cup {n + 1} /\ m = n + 1
        /\ \A q \in Stored : plans'[q] = plans[q]
    BY <1>7, StoredGrows
  <2>4. plans'[n + 1].version = frame[x].version  BY <1>1, <1>7, InsertStep
  <2> HIDE DEF n, m
  <2>5. m <= full
    <3>1. n \in Nat /\ (n = 0 \/ n < MaxReplans) /\ m = n + 1 /\ MaxReplans \in Nat
      BY <1>4, <2>2, <2>3, PlanAssumptions DEF MayReplan
    <3> QED  BY <3>1
  <2> QED  BY <1>4, <2>2, <2>3, <2>4, <2>5
<1> QED  BY <1>5, <1>6, <1>7, PutsStep

-----------------------------------------------------------------------------
(* What the frames hold *)

\* The frames of the calls that do not step.
LEMMA OthersHold ==
  ASSUME PlanIInv, Next, NEW x \in Callers, OthersStay(x), FrameHolds(x)'
  PROVE  FramesHold'
<1>1. /\ Stored \subseteq Stored' /\ Cardinality(Stored) \in Nat /\ Cardinality(Stored)' \in Nat
      /\ Cardinality(Stored)' >= Cardinality(Stored)
  BY InPlacesKept
<1>2. FramesHold /\ TypeOK  BY DEF PlanIInv
<1>3. ASSUME NEW y \in Callers, y # x PROVE FrameHolds(y)'
  <2> DEFINE n == Cardinality(Stored)
             m == Cardinality(Stored)'
  <2>1. frame'[y] = frame[y]  BY <1>3 DEF OthersStay
  <2>2. n \in Nat /\ m \in Nat /\ m >= n  BY <1>1
  <2>3. 1..(n + 1) \subseteq 1..(m + 1)
    <3> HIDE DEF n, m
    <3> QED  BY <2>2
  <2> QED  BY <1>1, <1>2, <2>1, <2>3 DEF FramesHold, FrameHolds
<1> QED  BY <1>3 DEF FramesHold

LEMMA FramesHoldKept ==
  ASSUME PlanIInv, Next
  PROVE  FramesHold'
<1>1. TypeOK /\ FramesHold /\ SessionsFollow /\ InPlaces /\ NumberedInPlace /\ RoomLeft  BY DEF PlanIInv
<1>2. /\ Stored \subseteq Stored' /\ Cardinality(Stored) \in Nat /\ Cardinality(Stored)' \in Nat
      /\ Cardinality(Stored)' >= Cardinality(Stored)
  BY InPlacesKept
<1>3. ASSUME UNCHANGED frame PROVE FramesHold'
  <2> DEFINE n == Cardinality(Stored)
             m == Cardinality(Stored)'
  <2>1. 1..(n + 1) \subseteq 1..(m + 1)
    <3>1. n \in Nat /\ m \in Nat /\ m >= n  BY <1>2
    <3> HIDE DEF n, m
    <3> QED  BY <3>1
  <2> QED  BY <1>1, <1>2, <1>3, <2>1 DEF FramesHold, FrameHolds
\* A call whose transition goes on to an await that needs no more.
<1>4. ASSUME NEW x \in Callers, OthersStay(x), Carries(x), frame[x].pc \in MovePcs,
             frame'[x].pc \in MovePcs \ {"retirePrior", "point", "resolve"}
      PROVE  FramesHold'
  <2>1. FrameHolds(x)'  BY <1>1, <1>2, <1>4 DEF FramesHold, FrameHolds, Carries, MovePcs
  <2> QED  BY <1>4, <2>1, OthersHold
<1>5. ASSUME NEW x \in Callers, OthersStay(x),
             frame'[x].pc \in {"idle", "start", "register", "block"}
      PROVE  FramesHold'
  <2>1. FrameHolds(x)'  BY <1>5 DEF FrameHolds, MovePcs
  <2> QED  BY <1>5, <2>1, OthersHold
<1>6. ASSUME NEW x \in Callers, NEW p \in Stored, NEW to \in PlanStatuses, Begins(x, p, to)
      PROVE  FramesHold'
  <2>1. FrameHolds(x)'  BY <1>2, <1>6 DEF Begins, FrameHolds
  <2> QED  BY <1>6, <2>1, OthersHold DEF Begins
<1>7. ASSUME NEW x \in Callers, Ends(x) PROVE FramesHold'  BY <1>5, <1>7 DEF Ends
<1>8. ASSUME NEW x \in Callers, NEW pattern \in Patterns, Creating(x, pattern) PROVE FramesHold'
  <2>1. /\ OthersStay(x) /\ frame'[x].pc = "insert" /\ frame'[x].version = LastVersion + 1
        /\ frame'[x].pattern = pattern /\ UNCHANGED plans
    BY <1>1, <1>8, CreatePlanStep DEF Creating
  <2>2. LastVersion \in 0..Cardinality(Stored) /\ Cardinality(Stored)' = Cardinality(Stored)
    BY <1>1, <2>1, LastVersionIs DEF Stored
  <2> DEFINE n == Cardinality(Stored)
             v == LastVersion + 1
  <2>3. v \in 1..(n + 1)
    <3>1. n \in Nat /\ LastVersion \in 0..n  BY <1>2, <2>2
    <3> DEFINE last == LastVersion
    <3> HIDE DEF n, last
    <3>2. last + 1 \in 1..(n + 1)  BY <3>1 DEF last
    <3> QED  BY <3>2 DEF last
  <2> HIDE DEF v
  <2>4. frame'[x].version = v  BY <2>1 DEF v
  <2>5. FrameHolds(x)'  BY <2>1, <2>2, <2>3, <2>4 DEF FrameHolds, MovePcs
  <2> QED  BY <2>1, <2>5, OthersHold
<1>9. ASSUME NEW x \in Callers, CallSteps(x) PROVE FramesHold'
  <2>1. CASE Move(x)
    <3>1. CASE Ends(x)  BY <1>7, <3>1
    <3>2. CASE Goes(x, AfterMove(x))
      <4>1. frame[x].pc = "move"  BY <1>1, <2>1, MoveStep
      <4>2. frame[x].plan \in Stored /\ frame[x].to \in PlanStatuses /\ frame[x].prior \in Plans \cup {NoPlan}
        BY <1>1, <4>1, MovesPlan, TypedParts DEF MovePcs, Frames
      <4>3. FrameHolds(x)'
        BY <1>2, <3>2, <4>2 DEF Goes, Carries, AfterMove, FrameHolds
      <4> QED  BY <3>2, <4>3, OthersHold DEF Goes
    <3> QED  BY <1>1, <2>1, <3>1, <3>2, MoveStep
  <2>2. CASE RetirePrior(x)
    <3>1. CASE Ends(x)  BY <1>7, <3>1
    <3>2. CASE Goes(x, "point")
      <4>1. frame[x].pc = "retirePrior"  BY <1>1, <2>2, RetirePriorStep
      <4>2. frame[x].plan \in Stored /\ frame[x].to = "active"
        BY <1>1, <4>1 DEF FramesHold, FrameHolds, MovePcs
      <4>3. FrameHolds(x)'  BY <1>2, <3>2, <4>2 DEF Goes, Carries, FrameHolds, PlanStatuses
      <4> QED  BY <3>2, <4>3, OthersHold DEF Goes
    <3> QED  BY <1>1, <2>2, <3>1, <3>2, RetirePriorStep
  <2>3. CASE Point(x)  BY <1>1, <1>4, <2>3, PointStep DEF Goes, MovePcs
  <2>4. CASE ApprovalHook(x)
    <3>1. frame[x].pc = "approval" /\ OthersStay(x) /\ Carries(x)
      BY <1>1, <2>4, ApprovalHookStep
    <3>2. CASE frame'[x].pc \in {"request", "couple"}  BY <1>4, <3>1, <3>2 DEF MovePcs
    <3>3. CASE frame'[x].pc = "resolve" /\ frame'[x].object \in Plans
      <4>1. FrameHolds(x)'
        BY <1>1, <1>2, <3>1, <3>3 DEF FramesHold, FrameHolds, Carries, MovePcs
      <4> QED  BY <3>1, <4>1, OthersHold
    <3> QED  BY <1>1, <2>4, <3>2, <3>3, ApprovalHookStep
  <2>5. CASE RequestApproval(x)  BY <1>1, <1>4, <2>5, RequestApprovalStep DEF Goes, MovePcs
  <2>6. CASE ResolveApproval(x)  BY <1>1, <1>4, <1>7, <2>6, ResolveApprovalStep DEF Goes, MovePcs
  <2>7. CASE Couple(x)  BY <1>1, <1>4, <2>7, CoupleStep DEF Goes, MovePcs
  <2>8. CASE CouplePhase(x)  BY <1>1, <1>4, <2>8, CouplePhaseStep DEF Goes, MovePcs
  <2>9. CASE HandlePlanStatus(x)  BY <1>1, <1>4, <1>7, <2>9, HandlePlanStatusStep DEF MovePcs
  <2>10. ASSUME NEW p \in Plans, RetireTask(x, p) PROVE FramesHold'
    BY <1>1, <1>4, <2>10, RetireTaskStep DEF MovePcs
  <2>11. CASE Materialize(x)  BY <1>1, <1>7, <2>11, MaterializeStep
  <2>12. CASE Insert(x)  BY <1>1, <1>7, <2>12, InsertStep
  <2> QED  BY <1>9, <2>1, <2>2, <2>3, <2>4, <2>5, <2>6, <2>7, <2>8, <2>9, <2>10, <2>11, <2>12
           DEF CallSteps, TransitionSteps
<1>10. ASSUME NEW c \in Coordinators
       PROVE  /\ CoordinatorSteps(c) => FramesHold'
              /\ Coordinate(c) => FramesHold'
              /\ \A b \in BOOLEAN : SessionEnds(c, b) => FramesHold'
  <2>1. c \in Callers  BY DEF Callers
  <2>2. CASE StartPlanning(c)  BY <1>1, <1>5, <1>7, <2>1, <2>2, StartPlanningStep DEF Goes
  <2>3. CASE Register(c)  BY <1>1, <1>7, <2>1, <2>3, RegisterStep
  <2>4. CASE Block(c)  BY <1>1, <1>7, <2>1, <2>4, BlockStep
  <2>5. CASE Coordinate(c)  BY <1>1, <1>5, <2>1, <2>5, CoordinateStep DEF Goes
  <2>6. ASSUME NEW b \in BOOLEAN, SessionEnds(c, b) PROVE FramesHold'
    BY <1>1, <1>5, <1>6, <1>7, <2>1, <2>6, SessionEndsStep DEF Goes
  <2> QED  BY <2>2, <2>3, <2>4, <2>5, <2>6 DEF CoordinatorSteps
<1>11. ASSUME NEW c \in Coordinators, NEW pattern \in Patterns, SubmitPlan(c, pattern) PROVE FramesHold'
  BY <1>1, <1>8, <1>11, SubmitPlanStep
<1>12. ASSUME NEW p \in Plans, TaskSteps(p) PROVE FramesHold'
  BY <1>1, <1>3, <1>12, TaskStepsStep
<1>13. CASE Requests
  <2>1. ASSUME NEW o \in Operators, NEW pattern \in Patterns, OperatorCreate(o, pattern) PROVE FramesHold'
    BY <1>1, <1>8, <2>1, OperatorCreateStep
  <2>2. ASSUME NEW o \in Operators, NEW p \in Plans, NEW to \in PlanStatuses, OperatorTransition(o, p, to)
        PROVE  FramesHold'
    <3>1. o \in Callers  BY DEF Callers
    <3> QED  BY <1>1, <1>6, <2>2, <3>1, OperatorTransitionStep
  <2>3. ASSUME NEW to \in RunTargets, OperatorMovesRun(to) PROVE FramesHold'
    BY <1>1, <1>3, <2>3, OperatorMovesRunStep
  <2>4. ASSUME NEW p \in Plans, OperatorResolves(p) \/ OperatorRetries(p) PROVE FramesHold'
    BY <1>1, <1>3, <2>4, OperatorResolvesStep, OperatorRetriesStep
  <2>5. CASE Restart
    BY <1>1, <2>5, RestartStep DEF FramesHold, FrameHolds, MovePcs
  <2> QED  BY <1>10, <1>13, <2>1, <2>2, <2>3, <2>4, <2>5 DEF Requests
<1> QED  BY <1>9, <1>10, <1>11, <1>12, <1>13 DEF Next, TaskSteps

-----------------------------------------------------------------------------
(* The coordinations *)

\* The frames and sessions of all other coordinations stay.
LEMMA OthersFollow ==
  ASSUME PlanIInv, Next, NEW x \in Callers, OthersStay(x),
         \A c \in Coordinators \ {x} : session'[c] = session[c] /\ submitted'[c] = submitted[c],
         x \in Coordinators => session'[x] \in SessionAt(x)' /\ (submitted'[x] # NoPlan => submitted'[x] \in Stored'),
         x \in Operators => frame'[x].pc \notin {"start", "register", "block"}
  PROVE  SessionsFollow'
<1>1. SessionsFollow /\ Stored \subseteq Stored'  BY InPlacesKept DEF PlanIInv
<1>2. ASSUME NEW c \in Coordinators, c # x
      PROVE  session'[c] \in SessionAt(c)' /\ (submitted'[c] # NoPlan => submitted'[c] \in Stored')
  BY <1>1, <1>2 DEF SessionsFollow, SessionAt, OthersStay, Callers
<1>3. ASSUME NEW o \in Operators PROVE frame'[o].pc \notin {"start", "register", "block"}
  BY <1>1, <1>3 DEF SessionsFollow, OthersStay, Callers
<1> QED  BY <1>2, <1>3 DEF SessionsFollow

LEMMA SessionsFollowKept ==
  ASSUME PlanIInv, Next
  PROVE  SessionsFollow'
<1>1. TypeOK /\ FramesHold /\ SessionsFollow /\ InPlaces /\ NumberedInPlace /\ RoomLeft  BY DEF PlanIInv
<1>2. Stored \subseteq Stored' /\ Operators \cap Coordinators = {}
  BY InPlacesKept, PlanAssumptions
<1>3. ASSUME UNCHANGED <<frame, session, submitted>> PROVE SessionsFollow'
  BY <1>1, <1>2, <1>3 DEF SessionsFollow, SessionAt
\* A call whose transition goes on.
<1>4. ASSUME NEW x \in Callers, OthersStay(x), frame[x].pc \in MovePcs, frame'[x].pc \in MovePcs,
             UNCHANGED <<session, submitted>>
      PROVE  SessionsFollow'
  <2>1. x \in Coordinators => session'[x] \in SessionAt(x)' /\ (submitted'[x] # NoPlan => submitted'[x] \in Stored')
    BY <1>1, <1>2, <1>4 DEF SessionsFollow, SessionAt, MovePcs
  <2>2. frame'[x].pc \notin {"start", "register", "block"}  BY <1>4 DEF MovePcs
  <2> QED  BY <1>4, <2>1, <2>2, OthersFollow
<1>5. ASSUME NEW x \in Callers, Ends(x), SessionOver(x) PROVE SessionsFollow'
  <2>1. x \in Coordinators => session'[x] \in SessionAt(x)' /\ (submitted'[x] # NoPlan => submitted'[x] \in Stored')
    BY <1>5 DEF Ends, SessionOver, SessionAt
  <2>2. \A c \in Coordinators \ {x} : session'[c] = session[c] /\ submitted'[c] = submitted[c]
    BY <1>5 DEF SessionOver, Callers, coordVars
  <2> QED  BY <1>5, <2>1, <2>2, OthersFollow DEF Ends
\* A coordination on its way.
<1>6. ASSUME NEW c \in Coordinators, OthersStay(c), NEW to, SessionSet(c, to), UNCHANGED submitted,
             to \in SessionAt(c)'
      PROVE  SessionsFollow'
  <2>1. c \in Callers /\ c \notin Operators  BY <1>2 DEF Callers
  <2>2. session'[c] \in SessionAt(c)' /\ (submitted'[c] # NoPlan => submitted'[c] \in Stored')
    BY <1>1, <1>2, <1>6 DEF SessionSet, SessionsFollow
  <2>3. \A d \in Coordinators \ {c} : session'[d] = session[d] /\ submitted'[d] = submitted[d]
    BY <1>6 DEF SessionSet
  <2> QED  BY <1>6, <2>1, <2>2, <2>3, OthersFollow
<1>7. ASSUME NEW x \in Callers, NEW pattern \in Patterns, Creating(x, pattern) PROVE SessionsFollow'
  <2>1. /\ OthersStay(x) /\ frame'[x].pc = "insert" /\ UNCHANGED <<session, submitted>>
        /\ x \in Coordinators => session[x] = "live"
    BY <1>1, <1>7, CreatePlanStep DEF Creating
  <2>2. x \in Coordinators => session'[x] \in SessionAt(x)' /\ (submitted'[x] # NoPlan => submitted'[x] \in Stored')
    BY <1>1, <1>2, <2>1 DEF SessionsFollow, SessionAt
  <2> QED  BY <2>1, <2>2, OthersFollow
<1>8. ASSUME NEW x \in Callers, CallSteps(x) PROVE SessionsFollow'
  <2>1. CASE Move(x)
    <3>1. AfterMove(x) \in MovePcs  BY AfterMoveIsMove
    <3>2. frame[x].pc \in MovePcs  BY <1>1, <2>1, MoveStep DEF MovePcs
    <3> QED  BY <1>1, <1>4, <1>5, <2>1, <3>1, <3>2, MoveStep DEF Goes
  <2>2. CASE RetirePrior(x)  BY <1>1, <1>4, <1>5, <2>2, RetirePriorStep DEF Goes, MovePcs
  <2>3. CASE Point(x)  BY <1>1, <1>4, <2>3, PointStep DEF Goes, MovePcs
  <2>4. CASE ApprovalHook(x)  BY <1>1, <1>4, <2>4, ApprovalHookStep DEF MovePcs
  <2>5. CASE RequestApproval(x)  BY <1>1, <1>4, <2>5, RequestApprovalStep DEF Goes, MovePcs
  <2>6. CASE ResolveApproval(x)  BY <1>1, <1>4, <1>5, <2>6, ResolveApprovalStep DEF Goes, MovePcs
  <2>7. CASE Couple(x)  BY <1>1, <1>4, <2>7, CoupleStep DEF Goes, MovePcs
  <2>8. CASE CouplePhase(x)  BY <1>1, <1>4, <2>8, CouplePhaseStep DEF Goes, MovePcs
  <2>9. CASE HandlePlanStatus(x)  BY <1>1, <1>4, <1>5, <2>9, HandlePlanStatusStep DEF MovePcs
  <2>10. ASSUME NEW p \in Plans, RetireTask(x, p) PROVE SessionsFollow'
    BY <1>1, <1>4, <2>10, RetireTaskStep DEF MovePcs
  <2>11. CASE Materialize(x)  BY <1>1, <1>5, <2>11, MaterializeStep
  <2>12. CASE Insert(x)
    <3> DEFINE p == Cardinality(Stored) + 1
    <3>1. /\ frame[x].pc = "insert" /\ Ends(x) /\ UNCHANGED session
          /\ \A c \in Coordinators : submitted'[c] = IF c = x THEN p ELSE submitted[c]
      BY <1>1, <2>12, InsertStep
    <3>2. p \in Stored'  BY <2>12, StoredGrows
    <3> HIDE DEF p
    <3>3. x \in Coordinators => session'[x] \in SessionAt(x)' /\ (submitted'[x] # NoPlan => submitted'[x] \in Stored')
      BY <1>1, <3>1, <3>2 DEF SessionsFollow, SessionAt, Ends
    <3> QED  BY <3>1, <3>3, OthersFollow DEF Ends
  <2> QED  BY <1>8, <2>1, <2>2, <2>3, <2>4, <2>5, <2>6, <2>7, <2>8, <2>9, <2>10, <2>11, <2>12
           DEF CallSteps, TransitionSteps
<1>9. ASSUME NEW c \in Coordinators
       PROVE  /\ CoordinatorSteps(c) => SessionsFollow'
              /\ Coordinate(c) => SessionsFollow'
              /\ \A b \in BOOLEAN : SessionEnds(c, b) => SessionsFollow'
  <2>1. c \in Callers  BY DEF Callers
  <2>2. CASE StartPlanning(c)
    <3>1. CASE Goes(c, "register") /\ UNCHANGED <<session, submitted>>
      <4>1. frame[c].pc = "start"  BY <1>1, <2>2, StartPlanningStep
      <4>2. session'[c] \in SessionAt(c)'  BY <1>1, <3>1, <4>1 DEF SessionsFollow, SessionAt, Goes
      <4>3. submitted'[c] # NoPlan => submitted'[c] \in Stored'  BY <1>1, <1>2, <3>1 DEF SessionsFollow
      <4> QED  BY <1>2, <2>1, <3>1, <4>2, <4>3, OthersFollow DEF Goes
    <3>2. CASE Ends(c) /\ SessionSet(c, "off") /\ UNCHANGED submitted
      BY <1>6, <3>2 DEF Ends, SessionAt
    <3> QED  BY <1>1, <2>2, <3>1, <3>2, StartPlanningStep
  <2>3. CASE Register(c)  BY <1>1, <1>6, <2>3, RegisterStep DEF Ends, SessionAt
  <2>4. CASE Block(c)  BY <1>1, <1>5, <2>1, <2>4, BlockStep
  <2>5. CASE Coordinate(c)  BY <1>1, <1>6, <2>5, CoordinateStep DEF Goes, SessionAt
  <2>6. ASSUME NEW b \in BOOLEAN, SessionEnds(c, b) PROVE SessionsFollow'
    <3>1. CASE Ends(c) /\ SessionOver(c)  BY <1>5, <2>1, <3>1
    <3>2. CASE /\ Begins(c, submitted[c], SettleAs(submitted[c]))
               /\ SessionSet(c, "settling") /\ UNCHANGED submitted
      BY <1>6, <3>2 DEF Begins, SessionAt
    <3>3. CASE Goes(c, "block") /\ SessionSet(c, "settling") /\ UNCHANGED submitted
      BY <1>6, <3>3 DEF Goes, SessionAt
    <3> QED  BY <1>1, <2>6, <3>1, <3>2, <3>3, SessionEndsStep
  <2> QED  BY <2>2, <2>3, <2>4, <2>5, <2>6 DEF CoordinatorSteps
<1>10. ASSUME NEW c \in Coordinators, NEW pattern \in Patterns, SubmitPlan(c, pattern) PROVE SessionsFollow'
  BY <1>1, <1>7, <1>10, SubmitPlanStep
<1>11. ASSUME NEW p \in Plans, TaskSteps(p) PROVE SessionsFollow'
  BY <1>1, <1>3, <1>11, TaskStepsStep
<1>12. CASE Requests
  <2>1. ASSUME NEW o \in Operators, NEW pattern \in Patterns, OperatorCreate(o, pattern) PROVE SessionsFollow'
    BY <1>1, <1>7, <2>1, OperatorCreateStep
  <2>2. ASSUME NEW o \in Operators, NEW p \in Plans, NEW to \in PlanStatuses, OperatorTransition(o, p, to)
        PROVE  SessionsFollow'
    <3>1. o \in Callers /\ o \notin Coordinators  BY <1>2 DEF Callers
    <3>2. Begins(o, p, to) /\ UNCHANGED <<session, submitted>>  BY <1>1, <2>2, OperatorTransitionStep
    <3> QED  BY <3>1, <3>2, OthersFollow DEF Begins
  <2>3. ASSUME NEW to \in RunTargets, OperatorMovesRun(to) PROVE SessionsFollow'
    BY <1>1, <1>3, <2>3, OperatorMovesRunStep
  <2>4. ASSUME NEW p \in Plans, OperatorResolves(p) \/ OperatorRetries(p) PROVE SessionsFollow'
    BY <1>1, <1>3, <2>4, OperatorResolvesStep, OperatorRetriesStep
  <2>5. CASE Restart
    <3>1. /\ \A x \in Callers : frame'[x].pc = "idle"
          /\ \A c \in Coordinators : session'[c] = "off" /\ submitted'[c] = NoPlan
      BY <1>1, <2>5, RestartStep
    <3> QED  BY <3>1 DEF SessionsFollow, SessionAt, Callers
  <2> QED  BY <1>9, <1>12, <2>1, <2>2, <2>3, <2>4, <2>5 DEF Requests
<1> QED  BY <1>8, <1>9, <1>10, <1>11, <1>12 DEF Next, TaskSteps

\* What a step makes of the coordinations: c is the one it is about.
SessionsGo(c) ==
  \/ /\ session[c] = "off" /\ inFlight = NoCaller
     /\ SessionSet(c, "starting") /\ UNCHANGED inFlight
     /\ torn' = IF \E d \in Coordinators : session[d] = "starting" THEN torn \cup {"sessions"} ELSE torn
  \/ session[c] = "starting" /\ SessionSet(c, "off") /\ UNCHANGED inFlight
  \/ session[c] = "starting" /\ SessionSet(c, "live") /\ inFlight' = c
  \/ session[c] = "live" /\ SessionSet(c, "settling") /\ UNCHANGED inFlight
  \/ session[c] \in {"live", "settling"} /\ SessionSet(c, "off") /\ inFlight' = NoCaller

LEMMA SessionsStep ==
  ASSUME PlanIInv, Next
  PROVE  \/ UNCHANGED <<session, inFlight>>
         \/ \E c \in Coordinators : SessionsGo(c)
         \/ (\A c \in Coordinators : session'[c] = "off") /\ inFlight' = NoCaller
<1>1. TypeOK /\ FramesHold /\ SessionsFollow /\ InPlaces /\ NumberedInPlace /\ RoomLeft  BY DEF PlanIInv
<1>2. SUFFICES ASSUME ~UNCHANGED <<session, inFlight>>, ~\E c \in Coordinators : SessionsGo(c)
               PROVE  (\A c \in Coordinators : session'[c] = "off") /\ inFlight' = NoCaller
  OBVIOUS
<1>3. ASSUME NEW x \in Callers, Ends(x), SessionOver(x), frame[x].pc \in MovePcs \cup {"block"} PROVE FALSE
  <2>1. x \in Coordinators  BY <1>2, <1>3 DEF SessionOver, Callers, coordVars
  <2>2. session[x] = "settling"  BY <1>1, <1>3, <2>1 DEF SessionsFollow, SessionAt, MovePcs
  <2>3. SessionsGo(x)  BY <1>3, <2>1, <2>2 DEF SessionOver, SessionsGo, SessionSet
  <2> QED  BY <1>2, <2>1, <2>3
<1>4. ASSUME NEW x \in Callers, CallSteps(x) PROVE FALSE
  <2>1. CASE Move(x)  BY <1>1, <1>2, <1>3, <2>1, MoveStep DEF MovePcs
  <2>2. CASE RetirePrior(x)  BY <1>1, <1>2, <1>3, <2>2, RetirePriorStep DEF MovePcs
  <2>3. CASE Point(x)  BY <1>1, <1>2, <2>3, PointStep
  <2>4. CASE ApprovalHook(x)  BY <1>1, <1>2, <2>4, ApprovalHookStep
  <2>5. CASE RequestApproval(x)  BY <1>1, <1>2, <2>5, RequestApprovalStep
  <2>6. CASE ResolveApproval(x)  BY <1>1, <1>2, <1>3, <2>6, ResolveApprovalStep DEF MovePcs
  <2>7. CASE Couple(x)  BY <1>1, <1>2, <2>7, CoupleStep
  <2>8. CASE CouplePhase(x)  BY <1>1, <1>2, <2>8, CouplePhaseStep
  <2>9. CASE HandlePlanStatus(x)  BY <1>1, <1>2, <1>3, <2>9, HandlePlanStatusStep DEF MovePcs
  <2>10. ASSUME NEW p \in Plans, RetireTask(x, p) PROVE FALSE
    BY <1>1, <1>2, <2>10, RetireTaskStep
  <2>11. CASE Materialize(x)  BY <1>1, <1>3, <2>11, MaterializeStep DEF MovePcs
  <2>12. CASE Insert(x)  BY <1>1, <1>2, <2>12, InsertStep
  <2> QED  BY <1>4, <2>1, <2>2, <2>3, <2>4, <2>5, <2>6, <2>7, <2>8, <2>9, <2>10, <2>11, <2>12
           DEF CallSteps, TransitionSteps
<1>5. ASSUME NEW c \in Coordinators
      PROVE  /\ ~CoordinatorSteps(c) /\ ~Coordinate(c)
             /\ \A b \in BOOLEAN : ~SessionEnds(c, b)
  <2>1. c \in Callers /\ session[c] \in SessionAt(c)  BY <1>1 DEF Callers, SessionsFollow
  <2>2. ASSUME StartPlanning(c) PROVE FALSE
    <3>1. session[c] = "starting"  BY <1>1, <2>1, <2>2, StartPlanningStep DEF SessionAt
    <3> QED  BY <1>1, <1>2, <2>2, <3>1, StartPlanningStep DEF SessionsGo
  <2>3. ASSUME Register(c) PROVE FALSE
    <3>1. session[c] = "starting"  BY <1>1, <2>1, <2>3, RegisterStep DEF SessionAt
    <3> QED  BY <1>1, <1>2, <2>3, <3>1, RegisterStep DEF SessionsGo
  <2>4. ASSUME Block(c) PROVE FALSE  BY <1>1, <1>3, <2>1, <2>4, BlockStep
  <2>5. ASSUME Coordinate(c) PROVE FALSE
    BY <1>1, <1>2, <2>5, CoordinateStep DEF SessionsGo, MayCoordinate
  <2>6. ASSUME NEW b \in BOOLEAN, SessionEnds(c, b) PROVE FALSE
    <3>1. session[c] = "live"  BY <1>1, <2>6, SessionEndsStep
    <3>2. CASE SessionOver(c)
      <4>1. SessionsGo(c)  BY <3>1, <3>2 DEF SessionOver, SessionsGo, SessionSet
      <4> QED  BY <1>2, <4>1
    <3>3. CASE SessionSet(c, "settling") /\ UNCHANGED inFlight
      BY <1>2, <3>1, <3>3 DEF SessionsGo
    <3> QED  BY <1>1, <2>6, <3>2, <3>3, SessionEndsStep
  <2> QED  BY <2>2, <2>3, <2>4, <2>5, <2>6 DEF CoordinatorSteps
<1>6. ASSUME NEW c \in Coordinators, NEW pattern \in Patterns, SubmitPlan(c, pattern) PROVE FALSE
  BY <1>2, <1>6 DEF SubmitPlan, CreatePlan, coordVars
<1>7. ASSUME NEW p \in Plans, TaskSteps(p) PROVE FALSE
  BY <1>1, <1>2, <1>7, TaskStepsStep
<1>8. ASSUME Requests, ~Restart PROVE FALSE
  BY <1>2, <1>5, <1>8
     DEF Requests, OperatorCreate, CreatePlan, OperatorTransition, OperatorMovesRun,
         OperatorResolves, OperatorRetries, MoveTask, coordVars
<1>9. CASE Restart  BY <1>1, <1>9, RestartStep
<1> QED  BY <1>4, <1>5, <1>6, <1>7, <1>8, <1>9 DEF Next, TaskSteps

LEMMA OneCoordinationKept ==
  ASSUME PlanIInv, Next
  PROVE  OneStarts' /\ OneCoordination'
<1>1. TypeOK /\ OneStarts /\ OneCoordination  BY DEF PlanIInv
<1>2. SUFFICES ASSUME "sessions" \notin torn'
               PROVE  OneStarts' /\ OneCoordination'
  BY DEF OneStarts, OneCoordination
<1>3. "sessions" \notin torn  BY <1>2, PutsStep
<1>4. \A c \in Coordinators : session[c] = "starting" => \A d \in Coordinators \ {c} : session[d] = "off"
  BY <1>1, <1>3 DEF OneStarts
<1>5. \A c \in Coordinators : session[c] \in {"live", "settling"} =>
        /\ inFlight = c
        /\ \A d \in Coordinators \ {c} : session[d] = "off"
  BY <1>1, <1>3 DEF OneCoordination
<1>6. NoCaller \notin Coordinators  BY PlanAssumptions DEF Callers
<1>7. session \in [Coordinators -> SessionStates]  BY <1>1 DEF TypeOK
<1>8. CASE UNCHANGED <<session, inFlight>>
  BY <1>4, <1>5, <1>8 DEF OneStarts, OneCoordination
<1>9. ASSUME NEW c \in Coordinators, SessionsGo(c) PROVE OneStarts' /\ OneCoordination'
  <2>1. \A d \in Coordinators \ {c} : session[d] = "off"
    <3>1. CASE session[c] # "off"  BY <1>4, <1>5, <1>7, <3>1 DEF SessionStates
    <3>2. CASE session[c] = "off"
      <4>1. /\ inFlight = NoCaller
            /\ torn' = IF \E d \in Coordinators : session[d] = "starting" THEN torn \cup {"sessions"} ELSE torn
        BY <1>9, <3>2 DEF SessionsGo
      <4> QED  BY <1>2, <1>5, <1>6, <1>7, <4>1 DEF SessionStates
    <3> QED  BY <3>1, <3>2
  <2>2. \A d \in Coordinators \ {c} : session'[d] = "off"
    BY <1>9, <2>1 DEF SessionsGo, SessionSet
  <2>3. session'[c] \in {"live", "settling"} => inFlight' = c
    BY <1>5, <1>9 DEF SessionsGo, SessionSet
  <2> QED  BY <2>2, <2>3 DEF OneStarts, OneCoordination
<1>10. CASE \A c \in Coordinators : session'[c] = "off"
  BY <1>10 DEF OneStarts, OneCoordination
<1> QED  BY <1>8, <1>9, <1>10, SessionsStep

-----------------------------------------------------------------------------
(* The gate *)

LEMMA PatternsStay ==
  ASSUME PlanIInv, Next
  PROVE  \A q \in Stored : plans'[q].pattern = plans[q].pattern
<1>1. CASE PlansMove  BY <1>1 DEF PlansMove, Stored
<1>2. ASSUME NEW x \in Callers, Insert(x) PROVE \A q \in Stored : plans'[q] = plans[q]
  BY <1>2, StoredGrows
<1> QED  BY <1>1, <1>2, PlansStep

\* How the transition of a call may begin and go on: an operator begins any,
\* a session only one that the gate lets through, and an operator that moved a
\* plan to active has it on record.
Passes(x) ==
  \/ frame'[x].pc \notin MovePcs
  \/ frame'[x] = frame[x]
  \/ frame'[x].pc = "move" /\ frame'[x].plan \in Stored
       /\ (x \in Operators \/ frame'[x].to # "active" \/ ~PlanGated
             \/ plans[frame'[x].plan].pattern = "direct")
  \/ /\ frame[x].pc \in MovePcs /\ frame'[x].to = frame[x].to /\ frame'[x].plan = frame[x].plan
     /\ (frame[x].pc # "move" \/ (x \in Operators /\ frame[x].to = "active" => frame[x].plan \in chosen'))

LEMMA PassesStep ==
  ASSUME PlanIInv, Next
  PROVE  chosen \subseteq chosen' /\ \A x \in Callers : Passes(x)
<1>1. TypeOK /\ FramesHold /\ SessionsFollow /\ InPlaces /\ NumberedInPlace /\ RoomLeft  BY DEF PlanIInv
<1>2. Operators \cap Coordinators = {}  BY PlanAssumptions
<1> DEFINE Goal == chosen \subseteq chosen' /\ \A x \in Callers : Passes(x)
<1>3. ASSUME UNCHANGED <<frame, chosen>> PROVE Goal
  BY <1>3 DEF Passes
<1>4. ASSUME NEW x \in Callers, OthersStay(x), Passes(x), chosen \subseteq chosen' PROVE Goal
  BY <1>4 DEF Passes, OthersStay
<1>5. ASSUME NEW x \in Callers, OthersStay(x), frame'[x].pc \notin MovePcs, UNCHANGED chosen PROVE Goal
  <2>1. Passes(x)  BY <1>5 DEF Passes
  <2> QED  BY <1>4, <1>5, <2>1
<1>6. ASSUME NEW x \in Callers, Ends(x), UNCHANGED chosen PROVE Goal
  BY <1>5, <1>6 DEF Ends, MovePcs
<1>7. ASSUME NEW x \in Callers, OthersStay(x), Carries(x), frame[x].pc \in MovePcs \ {"move"}, UNCHANGED chosen
      PROVE  Goal
  <2>1. Passes(x)  BY <1>7 DEF Passes, Carries
  <2> QED  BY <1>4, <1>7, <2>1
<1> HIDE DEF Goal
<1>8. ASSUME NEW x \in Callers, CallSteps(x) PROVE Goal
  <2>1. CASE Move(x)
    <3>1. CASE Ends(x) /\ UNCHANGED chosen  BY <1>6, <3>1
    <3>2. CASE /\ Goes(x, AfterMove(x))
               /\ chosen' = IF x \in Operators /\ frame[x].to = "active"
                            THEN chosen \cup {frame[x].plan} ELSE chosen
      <4>1. frame[x].pc \in MovePcs  BY <1>1, <2>1, MoveStep DEF MovePcs
      <4>2. Passes(x)  BY <3>2, <4>1 DEF Goes, Carries, Passes
      <4> QED  BY <1>4, <3>2, <4>2 DEF Goes
    <3> QED  BY <1>1, <2>1, <3>1, <3>2, MoveStep
  <2>2. CASE RetirePrior(x)  BY <1>1, <1>6, <1>7, <2>2, RetirePriorStep DEF Goes, MovePcs
  <2>3. CASE Point(x)  BY <1>1, <1>7, <2>3, PointStep DEF Goes, MovePcs
  <2>4. CASE ApprovalHook(x)  BY <1>1, <1>7, <2>4, ApprovalHookStep DEF MovePcs, Quiet
  <2>5. CASE RequestApproval(x)  BY <1>1, <1>7, <2>5, RequestApprovalStep DEF Goes, MovePcs, Quiet
  <2>6. CASE ResolveApproval(x)  BY <1>1, <1>6, <1>7, <2>6, ResolveApprovalStep DEF Goes, MovePcs, Quiet
  <2>7. CASE Couple(x)  BY <1>1, <1>7, <2>7, CoupleStep DEF Goes, MovePcs, Quiet
  <2>8. CASE CouplePhase(x)  BY <1>1, <1>7, <2>8, CouplePhaseStep DEF Goes, MovePcs
  <2>9. CASE HandlePlanStatus(x)  BY <1>1, <1>6, <1>7, <2>9, HandlePlanStatusStep DEF MovePcs
  <2>10. ASSUME NEW p \in Plans, RetireTask(x, p) PROVE Goal
    BY <1>1, <1>7, <2>10, RetireTaskStep DEF MovePcs
  <2>11. CASE Materialize(x)  BY <1>1, <1>6, <2>11, MaterializeStep
  <2>12. CASE Insert(x)  BY <1>1, <1>6, <2>12, InsertStep
  <2> QED  BY <1>8, <2>1, <2>2, <2>3, <2>4, <2>5, <2>6, <2>7, <2>8, <2>9, <2>10, <2>11, <2>12
           DEF CallSteps, TransitionSteps
<1>9. ASSUME NEW c \in Coordinators
      PROVE  /\ CoordinatorSteps(c) => Goal
             /\ Coordinate(c) => Goal
             /\ \A b \in BOOLEAN : SessionEnds(c, b) => Goal
  <2>1. c \in Callers  BY DEF Callers
  <2>2. CASE StartPlanning(c)  BY <1>1, <1>5, <1>6, <2>1, <2>2, StartPlanningStep DEF Goes, MovePcs
  <2>3. CASE Register(c)  BY <1>1, <1>6, <2>1, <2>3, RegisterStep
  <2>4. CASE Block(c)  BY <1>1, <1>6, <2>1, <2>4, BlockStep
  <2>5. CASE Coordinate(c)  BY <1>1, <1>5, <2>1, <2>5, CoordinateStep DEF Goes, MovePcs
  <2>6. ASSUME NEW b \in BOOLEAN, SessionEnds(c, b) PROVE Goal
    <3>1. UNCHANGED chosen  BY <1>1, <2>6, SessionEndsStep
    <3>2. CASE Ends(c)  BY <1>6, <2>1, <3>1, <3>2
    <3>3. CASE Begins(c, submitted[c], SettleAs(submitted[c])) /\ submitted[c] \in Stored
      <4>1. Passes(c)  BY <3>3 DEF Begins, SettleAs, Passes
      <4> QED  BY <1>4, <2>1, <3>1, <3>3, <4>1 DEF Begins
    <3>4. CASE Goes(c, "block")  BY <1>5, <2>1, <3>1, <3>4 DEF Goes, MovePcs
    <3> QED  BY <1>1, <2>6, <3>2, <3>3, <3>4, SessionEndsStep
  <2> QED  BY <2>2, <2>3, <2>4, <2>5, <2>6 DEF CoordinatorSteps
<1>10. ASSUME NEW x \in Callers, NEW pattern \in Patterns, Creating(x, pattern) PROVE Goal
  <2>1. OthersStay(x) /\ frame'[x].pc = "insert" /\ UNCHANGED chosen
    BY <1>1, <1>10, CreatePlanStep DEF Creating
  <2> QED  BY <1>5, <2>1 DEF MovePcs
<1>11. ASSUME NEW c \in Coordinators, NEW pattern \in Patterns, SubmitPlan(c, pattern) PROVE Goal
  BY <1>1, <1>10, <1>11, SubmitPlanStep
<1>12. ASSUME NEW p \in Plans, TaskSteps(p) PROVE Goal
  BY <1>1, <1>3, <1>12, TaskStepsStep
<1>13. CASE Requests
  <2>1. ASSUME NEW o \in Operators, NEW pattern \in Patterns, OperatorCreate(o, pattern) PROVE Goal
    BY <1>1, <1>10, <2>1, OperatorCreateStep
  <2>2. ASSUME NEW o \in Operators, NEW p \in Plans, NEW to \in PlanStatuses, OperatorTransition(o, p, to)
        PROVE  Goal
    <3>1. o \in Callers  BY DEF Callers
    <3>2. Begins(o, p, to) /\ p \in Stored /\ UNCHANGED chosen  BY <1>1, <2>2, OperatorTransitionStep
    <3>3. Passes(o)  BY <3>2 DEF Begins, Passes
    <3> QED  BY <1>4, <3>1, <3>2, <3>3 DEF Begins
  <2>3. ASSUME NEW to \in RunTargets, OperatorMovesRun(to) PROVE Goal
    BY <1>1, <1>3, <2>3, OperatorMovesRunStep
  <2>4. ASSUME NEW p \in Plans, OperatorResolves(p) \/ OperatorRetries(p) PROVE Goal
    BY <1>1, <1>3, <2>4, OperatorResolvesStep, OperatorRetriesStep
  <2>5. CASE Restart
    <3>1. (\A x \in Callers : frame'[x].pc = "idle") /\ UNCHANGED chosen
      BY <1>1, <2>5, RestartStep
    <3>2. \A x \in Callers : Passes(x)  BY <3>1 DEF Passes, MovePcs
    <3> QED  BY <3>1, <3>2
  <2> QED  BY <1>9, <1>13, <2>1, <2>2, <2>3, <2>4, <2>5 DEF Requests, Goal
<1> QED  BY <1>8, <1>9, <1>11, <1>12, <1>13 DEF Next, TaskSteps, Goal

LEMMA GatedMovesKept ==
  ASSUME PlanIInv, Next
  PROVE  GatedMoves'
<1>1. GatedMoves /\ FramesHold  BY DEF PlanIInv
<1>2. /\ chosen \subseteq chosen' /\ \A q \in Stored : plans'[q].pattern = plans[q].pattern
  BY PassesStep, PatternsStay
<1>3. SUFFICES ASSUME PlanGated, NEW x \in Callers, frame'[x].to = "active", frame'[x].pc \in MovePcs,
                      plans'[frame'[x].plan].pattern = "orchestrated"
               PROVE  x \in Operators /\ (frame'[x].pc # "move" => frame'[x].plan \in chosen')
  BY DEF GatedMoves, PlanGated
<1>4. Passes(x)  BY PassesStep
<1>5. frame[x].pc \in MovePcs => frame[x].plan \in Stored  BY <1>1 DEF FramesHold, FrameHolds
<1>6. CASE frame[x].pc \in MovePcs /\ frame[x].to = "active" /\ frame'[x].plan = frame[x].plan
  <2>1. plans[frame[x].plan].pattern = "orchestrated"  BY <1>2, <1>3, <1>5, <1>6
  <2>2. x \in Operators /\ (frame[x].pc # "move" => frame[x].plan \in chosen)
    BY <1>1, <1>3, <1>6, <2>1 DEF GatedMoves
  <2> QED  BY <1>2, <1>3, <1>4, <1>6, <2>2 DEF Passes
<1>7. CASE frame'[x].pc = "move" /\ frame'[x].plan \in Stored
             /\ (x \in Operators \/ plans[frame'[x].plan].pattern = "direct")
  BY <1>2, <1>3, <1>7
<1> QED  BY <1>3, <1>4, <1>6, <1>7 DEF Passes

LEMMA GateHoldsKept ==
  ASSUME PlanIInv, Next
  PROVE  GateHolds'
<1>1. TypeOK /\ FramesHold /\ SessionsFollow /\ InPlaces /\ NumberedInPlace /\ RoomLeft /\ GateHolds /\ GatedMoves
  BY DEF PlanIInv
<1>2. chosen \subseteq chosen'  BY PassesStep
<1>3. ASSUME \A q \in Plans : plans'[q].tasks # "none" => plans[q].tasks # "none" \/ (PlanGated => q \in chosen)
      PROVE  GateHolds'
  BY <1>1, <1>2, <1>3 DEF GateHolds, PlanGated
<1>4. ASSUME UNCHANGED plans PROVE GateHolds'  BY <1>3, <1>4
<1>5. ASSUME LooksSame PROVE GateHolds'  BY <1>3, <1>5 DEF LooksSame
<1>6. ASSUME NEW p, NEW to, StatusSet(p, to) PROVE GateHolds'  BY <1>3, <1>6 DEF StatusSet
<1>7. ASSUME TasksMove PROVE GateHolds'
  BY <1>3, <1>7 DEF TasksMove, OpenStatuses
<1>8. ASSUME NEW x \in Callers, CallSteps(x) PROVE GateHolds'
  <2>1. CASE Move(x)  BY <1>1, <1>4, <1>6, <2>1, MoveStep
  <2>2. CASE RetirePrior(x)  BY <1>1, <1>4, <1>6, <2>2, RetirePriorStep
  <2>3. CASE Point(x)  BY <1>1, <1>4, <2>3, PointStep
  <2>4. CASE ApprovalHook(x)  BY <1>1, <1>5, <2>4, ApprovalHookStep DEF Quiet
  <2>5. CASE RequestApproval(x)  BY <1>1, <1>5, <2>5, RequestApprovalStep DEF Quiet
  <2>6. CASE ResolveApproval(x)  BY <1>1, <1>5, <2>6, ResolveApprovalStep DEF Quiet
  <2>7. CASE Couple(x)  BY <1>1, <1>5, <2>7, CoupleStep DEF Quiet
  <2>8. CASE CouplePhase(x)  BY <1>1, <1>4, <2>8, CouplePhaseStep
  <2>9. CASE HandlePlanStatus(x)  BY <1>1, <1>4, <2>9, HandlePlanStatusStep
  <2>10. ASSUME NEW p \in Plans, RetireTask(x, p) PROVE GateHolds'
    BY <1>1, <1>7, <2>10, RetireTaskStep
  <2>11. CASE Materialize(x)
    <3>1. frame[x].pc = "retire"
          /\ TasksSet(IF frame[x].to = "active" /\ plans[frame[x].plan].pattern = "orchestrated"
                      THEN {frame[x].plan} ELSE {}, "pending")
      BY <1>1, <2>11, MaterializeStep
    <3>2. frame[x].to = "active" /\ plans[frame[x].plan].pattern = "orchestrated" /\ PlanGated
            => frame[x].plan \in chosen
      BY <1>1, <3>1 DEF GatedMoves, MovePcs
    <3> QED  BY <1>3, <3>1, <3>2 DEF TasksSet
  <2>12. CASE Insert(x)
    <3>1. /\ \A q \in Plans \ {Cardinality(Stored) + 1} : plans'[q] = plans[q]
          /\ plans'[Cardinality(Stored) + 1].tasks = "none"
      BY <1>1, <2>12, InsertStep
    <3> QED  BY <1>3, <3>1
  <2> QED  BY <1>8, <2>1, <2>2, <2>3, <2>4, <2>5, <2>6, <2>7, <2>8, <2>9, <2>10, <2>11, <2>12
           DEF CallSteps, TransitionSteps
<1>9. ASSUME NEW c \in Coordinators, CoordinatorSteps(c) PROVE GateHolds'
  BY <1>1, <1>4, <1>9, StartPlanningStep, RegisterStep, BlockStep DEF CoordinatorSteps
<1>10. ASSUME NEW c \in Coordinators, NEW pattern \in Patterns, SubmitPlan(c, pattern) PROVE GateHolds'
  BY <1>4, <1>10 DEF SubmitPlan, CreatePlan
<1>11. ASSUME NEW c \in Coordinators, NEW b \in BOOLEAN, SessionEnds(c, b) PROVE GateHolds'
  BY <1>1, <1>4, <1>11, SessionEndsStep
<1>12. ASSUME NEW p \in Plans, TaskSteps(p) PROVE GateHolds'
  BY <1>1, <1>7, <1>12, TaskStepsStep
<1>13. CASE Requests
  <2>1. ASSUME NEW p \in Plans, OperatorResolves(p) \/ OperatorRetries(p) PROVE GateHolds'
    BY <1>1, <1>5, <1>7, <2>1, OperatorResolvesStep, OperatorRetriesStep
  <2>2. CASE UNCHANGED plans  BY <1>4, <2>2
  <2> QED  BY <1>13, <2>1, <2>2
           DEF Requests, Coordinate, OperatorCreate, CreatePlan, OperatorTransition, OperatorMovesRun, Restart
<1> QED  BY <1>8, <1>9, <1>10, <1>11, <1>12, <1>13 DEF Next, TaskSteps

-----------------------------------------------------------------------------
(* The plan the run names, and its tasks *)

LEMMA ActiveStoredKept ==
  ASSUME PlanIInv, Next
  PROVE  ActiveStored'
<1>1. TypeOK /\ FramesHold /\ SessionsFollow /\ InPlaces /\ NumberedInPlace /\ RoomLeft /\ ActiveStored
  BY DEF PlanIInv
<1>2. Stored \subseteq Stored'  BY InPlacesKept
<1>3. CASE UNCHANGED activePlan  BY <1>1, <1>2, <1>3 DEF ActiveStored
<1>4. ASSUME NEW x \in Callers, Point(x) PROVE ActiveStored'
  <2>1. frame[x].pc = "point" /\ activePlan' = IF frame[x].to = "active" THEN frame[x].plan ELSE NoPlan
    BY <1>1, <1>4, PointStep
  <2>2. frame[x].plan \in Stored  BY <1>1, <2>1 DEF FramesHold, FrameHolds, MovePcs
  <2> QED  BY <1>2, <2>1, <2>2 DEF ActiveStored
<1>5. ASSUME NEW x \in Callers, CallSteps(x), ~Point(x) PROVE UNCHANGED activePlan
  BY <1>5 DEF CallSteps, Insert, TransitionSteps, Move, RetirePrior, ApprovalHook, RequestApproval,
              ResolveApproval, Couple, CouplePhase, HandlePlanStatus, RetireTask, Materialize, runVars
<1>6. ASSUME NEW c \in Coordinators, CoordinatorSteps(c) PROVE UNCHANGED activePlan
  BY <1>6 DEF CoordinatorSteps, StartPlanning, Register, Block, runVars
<1>7. ASSUME Requests PROVE UNCHANGED activePlan
  BY <1>7 DEF Requests, Coordinate, OperatorCreate, CreatePlan, OperatorTransition, OperatorMovesRun,
              OperatorResolves, OperatorRetries, MoveTask, Restart, runVars
<1> QED  BY <1>3, <1>4, <1>5, <1>6, <1>7
         DEF Next, SubmitPlan, CreatePlan, SessionEnds, SweepTask, TaskReady, TaskBegins, TaskSettles, MoveTask, runVars

\* A step of no consequence for which plan is active and whose tasks are open.
CalmFor(x) ==
  /\ Acting(x)' => Acting(x) /\ frame'[x].to = frame[x].to /\ frame'[x].plan = frame[x].plan
  /\ Activating(x) => Activating(x)'
  /\ Pointing(x) \/ Pointing(x)' => frame'[x] = frame[x]
  /\ Activating(x)' /\ frame'[x].pc = "retire" => frame'[x] = frame[x]

PlansCalm ==
  /\ activePlan' = activePlan
  /\ ActivePlans' \subseteq ActivePlans /\ OpenTasks' \subseteq OpenTasks
  /\ \A q \in Stored : plans'[q].tasks # plans[q].tasks => plans'[q].tasks # "none"

Calm == PlansCalm /\ \A x \in Callers : CalmFor(x)

LEMMA CalmPlans ==
  ASSUME PlanIInv, UNCHANGED activePlan
  PROVE  /\ UNCHANGED plans => PlansCalm
         /\ LooksSame => PlansCalm
         /\ TasksMove => PlansCalm
  BY DEF PlansCalm, LooksSame, TasksMove, ActivePlans, OpenTasks, OpenStatuses, Stored

\* A call that is not unfinished after the step, and was not before, or that
\* goes on without coming to or from one of the awaits that count.
LEMMA CalmCalls ==
  ASSUME PlansCalm, NEW x \in Callers, OthersStay(x),
         \/ ~Unfinished(x) /\ ~Unfinished(x)'
         \/ ~Unfinished(x) /\ frame'[x].to \notin {"active", "superseded"} /\ ~Pointing(x)'
         \/ Unfinished(x) /\ ~Unfinished(x)' /\ ~Activating(x) /\ ~Pointing(x)
         \/ Unfinished(x) /\ Unfinished(x)' /\ Carries(x)
            /\ ~Pointing(x) /\ ~Pointing(x)' /\ frame'[x].pc # "retire"
  PROVE  Calm
<1>1. CalmFor(x)  BY DEF CalmFor, Acting, Activating, Pointing, Unfinished, Carries
<1>2. ASSUME NEW y \in Callers, y # x PROVE CalmFor(y)
  BY <1>2 DEF CalmFor, OthersStay, Acting, Activating, Pointing, Unfinished
<1> QED  BY <1>1, <1>2 DEF Calm

LEMMA FramesUnchanged ==
  ASSUME PlansCalm, UNCHANGED frame
  PROVE  Calm
  BY DEF Calm, CalmFor, Acting, Activating, Pointing, Unfinished

\* The steps that matter to them.
MattersFor(x) ==
  \/ Move(x) /\ Legal(x) /\ frame[x].to \in {"active", "superseded"}
  \/ RetirePrior(x)
  \/ Point(x)
  \/ HandlePlanStatus(x) /\ frame'[x].pc = "retire"
  \/ \E p \in Plans : RetireTask(x, p)
  \/ Materialize(x) /\ frame[x].to = "active"

LEMMA CalmStep ==
  ASSUME PlanIInv, Next, "plans" \notin torn'
  PROVE  Calm \/ \E x \in Callers : MattersFor(x)
<1>1. TypeOK /\ FramesHold /\ SessionsFollow /\ InPlaces /\ NumberedInPlace /\ RoomLeft /\ OneActing
  BY DEF PlanIInv
<1>2. Undisturbed  BY PutsStep DEF Undisturbed
<1>3. SUFFICES ASSUME ~\E x \in Callers : MattersFor(x) PROVE Calm
  OBVIOUS
<1>4. ASSUME NEW x \in Callers, Ends(x), PlansCalm, frame[x].pc \in {"idle", "insert", "start", "register", "block", "move"}
      PROVE  Calm
  <2>1. ~Unfinished(x) /\ ~Unfinished(x)'  BY <1>4 DEF Ends, Unfinished
  <2> QED  BY <1>4, <2>1, CalmCalls DEF Ends
<1>5. ASSUME NEW x \in Callers, Goes(x, "start") \/ Goes(x, "register") \/ Goes(x, "block"), PlansCalm,
             frame[x].pc \in {"idle", "start"}
      PROVE  Calm
  <2>1. ~Unfinished(x) /\ ~Unfinished(x)'  BY <1>5 DEF Goes, Unfinished
  <2> QED  BY <1>5, <2>1, CalmCalls DEF Goes
<1>6. ASSUME NEW x \in Callers, OthersStay(x), Carries(x), PlansCalm,
             frame[x].pc \in {"approval", "request", "resolve", "couple", "phase"},
             frame'[x].pc \in {"request", "resolve", "couple", "phase", "handle"}
      PROVE  Calm
  <2>1. Unfinished(x) /\ Unfinished(x)' /\ ~Pointing(x) /\ ~Pointing(x)' /\ frame'[x].pc # "retire"
    BY <1>6 DEF Unfinished, Pointing
  <2> QED  BY <1>6, <2>1, CalmCalls
<1>7. ASSUME NEW x \in Callers, Ends(x), PlansCalm, frame[x].pc \in {"handle", "retire"}, ~Activating(x)
      PROVE  Calm
  <2>1. Unfinished(x) /\ ~Unfinished(x)' /\ ~Pointing(x)
    BY <1>7 DEF Ends, Unfinished, Pointing
  <2> QED  BY <1>7, <2>1, CalmCalls DEF Ends
<1>8. ASSUME NEW x \in Callers, CallSteps(x) PROVE Calm
  <2>1. CASE Move(x)
    <3>1. frame[x].pc = "move" /\ UNCHANGED activePlan  BY <1>1, <2>1, MoveStep
    <3>2. CASE Ends(x) /\ UNCHANGED plans  BY <1>4, <3>1, <3>2, CalmPlans
    <3>3. CASE Legal(x) /\ StatusSet(frame[x].plan, frame[x].to) /\ Goes(x, AfterMove(x))
      <4>1. frame[x].to \notin {"active", "superseded"}  BY <1>3, <2>1, <3>3 DEF MattersFor
      <4>2. AfterMove(x) \in {"approval", "couple"}  BY <4>1 DEF AfterMove
      <4>3. ~Unfinished(x) /\ frame'[x].to \notin {"active", "superseded"} /\ ~Pointing(x)'
        BY <3>1, <3>3, <4>1, <4>2 DEF Unfinished, Pointing, Goes, Carries
      <4>4. PlansCalm  BY <3>1, <3>3, <4>1 DEF StatusSet, PlansCalm, ActivePlans, OpenTasks, Stored
      <4> QED  BY <3>3, <4>3, <4>4, CalmCalls DEF Goes
    <3> QED  BY <1>1, <2>1, <3>2, <3>3, MoveStep
  <2>2. CASE RetirePrior(x) \/ Point(x) \/ \E p \in Plans : RetireTask(x, p)
    BY <1>3, <2>2 DEF MattersFor
  <2>3. CASE ApprovalHook(x)
    <3>1. PlansCalm  BY <1>1, <2>3, ApprovalHookStep, CalmPlans DEF Quiet
    <3> QED  BY <1>1, <1>6, <2>3, <3>1, ApprovalHookStep
  <2>4. CASE RequestApproval(x)
    <3>1. PlansCalm  BY <1>1, <2>4, RequestApprovalStep, CalmPlans DEF Quiet
    <3> QED  BY <1>1, <1>6, <2>4, <3>1, RequestApprovalStep DEF Goes
  <2>5. CASE ResolveApproval(x)
    <3>1. PlansCalm  BY <1>1, <2>5, ResolveApprovalStep, CalmPlans DEF Quiet
    <3>2. frame[x].pc = "resolve" /\ Goes(x, "couple")  BY <1>1, <2>5, ResolveApprovalStep
    <3> QED  BY <1>6, <3>1, <3>2 DEF Goes
  <2>6. CASE Couple(x)
    <3>1. PlansCalm  BY <1>1, <2>6, CoupleStep, CalmPlans DEF Quiet
    <3> QED  BY <1>1, <1>6, <2>6, <3>1, CoupleStep DEF Goes
  <2>7. CASE CouplePhase(x)
    <3>1. PlansCalm  BY <1>1, <2>7, CouplePhaseStep, CalmPlans
    <3> QED  BY <1>1, <1>6, <2>7, <3>1, CouplePhaseStep DEF Goes
  <2>8. CASE HandlePlanStatus(x)
    <3>1. PlansCalm  BY <1>1, <2>8, HandlePlanStatusStep, CalmPlans
    <3>2. frame'[x].pc # "retire"  BY <1>3, <2>8 DEF MattersFor
    <3>3. /\ frame[x].pc = "handle" /\ Ends(x)
          /\ ~(activePlan = frame[x].plan /\ frame[x].to \in {"active", "superseded", "completed"})
      BY <1>1, <2>8, <3>2, HandlePlanStatusStep
    <3>4. ~Activating(x)
      BY <1>1, <1>2, <3>3 DEF OneActing, Activating, Pointing
    <3> QED  BY <1>7, <3>1, <3>3, <3>4
  <2>9. CASE Materialize(x)
    <3>1. frame[x].to # "active"  BY <1>3, <2>9 DEF MattersFor
    <3>2. /\ frame[x].pc = "retire" /\ UNCHANGED activePlan /\ Ends(x) /\ TasksSet({}, "pending")
      BY <1>1, <2>9, <3>1, MaterializeStep
    <3>3. PlansCalm
      <4>1. LooksSame  BY <3>2 DEF TasksSet, LooksSame
      <4> QED  BY <3>2, <4>1, CalmPlans
    <3> QED  BY <1>7, <3>1, <3>2, <3>3 DEF Activating
  <2>10. CASE Insert(x)
    <3>1. /\ frame[x].pc = "insert" /\ Ends(x) /\ UNCHANGED activePlan
          /\ \A q \in Plans \ {Cardinality(Stored) + 1} : plans'[q] = plans[q]
          /\ plans'[Cardinality(Stored) + 1].status = "draft"
          /\ plans'[Cardinality(Stored) + 1].tasks = "none"
      BY <1>1, <2>10, InsertStep
    <3>2. \A q \in Stored : plans'[q] = plans[q]  BY <2>10, StoredGrows
    <3>3. PlansCalm  BY <3>1, <3>2 DEF PlansCalm, ActivePlans, OpenTasks, OpenStatuses
    <3> QED  BY <1>4, <3>1, <3>3
  <2> QED  BY <1>8, <2>1, <2>2, <2>3, <2>4, <2>5, <2>6, <2>7, <2>8, <2>9, <2>10
           DEF CallSteps, TransitionSteps
<1>9. ASSUME NEW c \in Coordinators
      PROVE  /\ CoordinatorSteps(c) => Calm
             /\ Coordinate(c) => Calm
             /\ \A b \in BOOLEAN : SessionEnds(c, b) => Calm
  <2>1. c \in Callers  BY DEF Callers
  <2>2. CASE StartPlanning(c)
    <3>1. PlansCalm  BY <1>1, <2>2, StartPlanningStep, CalmPlans
    <3> QED  BY <1>1, <1>4, <1>5, <2>1, <2>2, <3>1, StartPlanningStep
  <2>3. CASE Register(c)
    <3>1. PlansCalm  BY <1>1, <2>3, RegisterStep, CalmPlans
    <3> QED  BY <1>1, <1>4, <2>1, <2>3, <3>1, RegisterStep
  <2>4. CASE Block(c)
    <3>1. PlansCalm  BY <1>1, <2>4, BlockStep, CalmPlans
    <3> QED  BY <1>1, <1>4, <2>1, <2>4, <3>1, BlockStep
  <2>5. CASE Coordinate(c)
    <3>1. PlansCalm  BY <1>1, <2>5, CoordinateStep, CalmPlans
    <3>2. frame[c].pc = "idle"
      <4>1. session[c] = "off"  BY <1>1, <2>5, CoordinateStep
      <4> QED  BY <1>1, <4>1 DEF SessionsFollow, SessionAt
    <3> QED  BY <1>1, <1>5, <2>1, <2>5, <3>1, <3>2, CoordinateStep
  <2>6. ASSUME NEW b \in BOOLEAN, SessionEnds(c, b) PROVE Calm
    <3>1. PlansCalm /\ frame[c].pc = "idle"  BY <1>1, <2>6, SessionEndsStep, CalmPlans
    <3>2. CASE Ends(c)  BY <1>4, <2>1, <3>1, <3>2
    <3>3. CASE Begins(c, submitted[c], SettleAs(submitted[c]))
      <4>1. ~Unfinished(c) /\ ~Unfinished(c)'  BY <3>1, <3>3 DEF Begins, Unfinished
      <4> QED  BY <2>1, <3>1, <3>3, <4>1, CalmCalls DEF Begins
    <3>4. CASE Goes(c, "block")  BY <1>5, <2>1, <3>1, <3>4
    <3> QED  BY <1>1, <2>6, <3>2, <3>3, <3>4, SessionEndsStep
  <2> QED  BY <2>2, <2>3, <2>4, <2>5, <2>6 DEF CoordinatorSteps
<1>10. ASSUME NEW x \in Callers, NEW pattern \in Patterns, Creating(x, pattern) PROVE Calm
  <2>1. /\ OthersStay(x) /\ frame[x].pc = "idle" /\ frame'[x].pc = "insert" /\ UNCHANGED <<activePlan, plans>>
    BY <1>1, <1>10, CreatePlanStep DEF Creating
  <2>2. PlansCalm  BY <2>1, CalmPlans
  <2>3. ~Unfinished(x) /\ ~Unfinished(x)'  BY <2>1 DEF Unfinished
  <2> QED  BY <2>1, <2>2, <2>3, CalmCalls
<1>11. ASSUME NEW c \in Coordinators, NEW pattern \in Patterns, SubmitPlan(c, pattern) PROVE Calm
  BY <1>1, <1>10, <1>11, SubmitPlanStep
<1>12. ASSUME NEW p \in Plans, TaskSteps(p) PROVE Calm
  <2>1. PlansCalm /\ UNCHANGED frame  BY <1>1, <1>12, TaskStepsStep, CalmPlans
  <2> QED  BY <2>1, FramesUnchanged
<1>13. CASE Requests
  <2>1. ASSUME NEW o \in Operators, NEW pattern \in Patterns, OperatorCreate(o, pattern) PROVE Calm
    BY <1>1, <1>10, <2>1, OperatorCreateStep
  <2>2. ASSUME NEW o \in Operators, NEW p \in Plans, NEW to \in PlanStatuses, OperatorTransition(o, p, to)
        PROVE  Calm
    <3>1. o \in Callers  BY DEF Callers
    <3>2. frame[o].pc = "idle" /\ Begins(o, p, to) /\ PlansCalm
      BY <1>1, <2>2, OperatorTransitionStep, CalmPlans
    <3>3. ~Unfinished(o) /\ ~Unfinished(o)'  BY <3>2 DEF Begins, Unfinished
    <3> QED  BY <3>1, <3>2, <3>3, CalmCalls DEF Begins
  <2>3. ASSUME NEW to \in RunTargets, OperatorMovesRun(to) PROVE Calm
    <3>1. PlansCalm /\ UNCHANGED frame  BY <1>1, <2>3, OperatorMovesRunStep, CalmPlans
    <3> QED  BY <3>1, FramesUnchanged
  <2>4. ASSUME NEW p \in Plans, OperatorResolves(p) \/ OperatorRetries(p) PROVE Calm
    <3>1. PlansCalm /\ UNCHANGED frame  BY <1>1, <2>4, OperatorResolvesStep, OperatorRetriesStep, CalmPlans
    <3> QED  BY <3>1, FramesUnchanged
  <2>5. CASE Restart
    <3>1. PlansCalm /\ ~\E x \in Callers : Unfinished(x)
      BY <1>1, <2>5, RestartStep, CalmPlans
    <3>2. \A x \in Callers : frame'[x].pc = "idle"  BY <1>1, <2>5, RestartStep
    <3> QED  BY <3>1, <3>2 DEF Calm, CalmFor, Acting, Activating, Pointing, Unfinished
  <2> QED  BY <1>9, <1>13, <2>1, <2>2, <2>3, <2>4, <2>5 DEF Requests
<1> QED  BY <1>8, <1>9, <1>11, <1>12, <1>13 DEF Next, TaskSteps

\* A call that is about to point the run is acting.
LEMMA PointingActs ==
  ASSUME FramesHold, NEW x \in Callers, Pointing(x)
  PROVE  Acting(x)
  BY DEF FramesHold, FrameHolds, Pointing, Acting, Unfinished

\* What is true when nobody but x acts, before and after its step.
LEMMA OthersIdle ==
  ASSUME NEW x \in Callers, OthersStay(x), \A y \in Callers \ {x} : ~Acting(y), FramesHold
  PROVE  \A y \in Callers \ {x} :
           ~Acting(y) /\ ~Acting(y)' /\ ~Activating(y)' /\ ~Pointing(y) /\ ~Pointing(y)'
<1>1. ASSUME NEW y \in Callers \ {x} PROVE ~Pointing(y)  BY <1>1, PointingActs
<1>2. \A y \in Callers \ {x} : frame'[y] = frame[y]  BY DEF OthersStay
<1> QED  BY <1>1, <1>2 DEF Acting, Activating, Pointing, Unfinished

\* An undisturbed move of the active plan finds nobody else at it.
LEMMA MoveAlone ==
  ASSUME PlanIInv, NEW x \in Callers, Move(x), Legal(x), frame[x].to \in {"active", "superseded"},
         "plans" \notin torn'
  PROVE  frame[x].prior = activePlan /\ \A y \in Callers \ {x} : ~Unfinished(y)
<1>1. TypeOK /\ FramesHold  BY DEF PlanIInv
<1>2. frame[x].pc = "move" /\ torn' = IF Overlapped(x) THEN torn \cup {"plans"} ELSE torn
  BY <1>1, MoveStep
<1>3. ~Overlapped(x) /\ Moving(x)  BY <1>2 DEF Moving
<1> QED  BY <1>3 DEF Overlapped

LEMMA OneActingKept ==
  ASSUME PlanIInv, Next
  PROVE  OneActing'
<1>1. TypeOK /\ FramesHold /\ SessionsFollow /\ InPlaces /\ NumberedInPlace /\ RoomLeft /\ OneActing
  BY DEF PlanIInv
<1>2. SUFFICES ASSUME "plans" \notin torn' PROVE OneActing'
  <2>1. Undisturbed' <=> "plans" \notin torn'  BY DEF Undisturbed
  <2> QED  BY <2>1 DEF OneActing
<1>3. Undisturbed  BY <1>2, PutsStep DEF Undisturbed
<1>4. /\ \A x, y \in Callers : Acting(x) /\ Acting(y) => x = y
      /\ \A x \in Callers :
           /\ frame[x].pc = "retirePrior" =>
                /\ frame[x].prior = activePlan
                /\ ActivePlans \subseteq {activePlan, frame[x].plan}
           /\ frame[x].pc = "point" =>
                ActivePlans \subseteq IF frame[x].to = "active" THEN {frame[x].plan} ELSE {}
           /\ Activating(x) /\ ~Pointing(x) => activePlan = frame[x].plan
      /\ (\A x \in Callers : ~Pointing(x)) => ActivePlans \subseteq {activePlan}
  BY <1>1, <1>3 DEF OneActing
\* Nobody but x acts.
<1>5. ASSUME NEW x \in Callers, OthersStay(x), \A y \in Callers \ {x} : ~Acting(y),
             frame'[x].pc = "retirePrior" =>
               /\ frame'[x].prior = activePlan'
               /\ ActivePlans' \subseteq {activePlan', frame'[x].plan},
             frame'[x].pc = "point" =>
               ActivePlans' \subseteq IF frame'[x].to = "active" THEN {frame'[x].plan} ELSE {},
             Activating(x)' /\ ~Pointing(x)' => activePlan' = frame'[x].plan,
             ~Pointing(x)' => ActivePlans' \subseteq {activePlan'}
      PROVE  OneActing'
  <2>1. \A y \in Callers \ {x} :
          ~Acting(y) /\ ~Acting(y)' /\ ~Activating(y)' /\ ~Pointing(y) /\ ~Pointing(y)'
    BY <1>1, <1>5, OthersIdle
  <2> QED  BY <1>5, <2>1 DEF OneActing, Pointing
<1>6. CASE Calm
  <2>1. /\ activePlan' = activePlan /\ ActivePlans' \subseteq ActivePlans
        /\ \A x \in Callers :
             /\ Acting(x)' => Acting(x) /\ frame'[x].to = frame[x].to /\ frame'[x].plan = frame[x].plan
             /\ Pointing(x) \/ Pointing(x)' => frame'[x] = frame[x]
    BY <1>6 DEF Calm, PlansCalm, CalmFor
  <2>2. \A x, y \in Callers : Acting(x)' /\ Acting(y)' => x = y  BY <1>4, <2>1
  <2>3. ASSUME NEW x \in Callers
        PROVE  /\ frame'[x].pc = "retirePrior" =>
                    /\ frame'[x].prior = activePlan'
                    /\ ActivePlans' \subseteq {activePlan', frame'[x].plan}
               /\ frame'[x].pc = "point" =>
                    ActivePlans' \subseteq IF frame'[x].to = "active" THEN {frame'[x].plan} ELSE {}
    BY <1>4, <2>1 DEF Pointing
  <2>4. ASSUME NEW x \in Callers, Activating(x)', ~Pointing(x)'
        PROVE  activePlan' = frame'[x].plan
    <3>1. Acting(x)'  BY <2>4 DEF Activating, Acting
    <3>2. Activating(x) /\ frame'[x].plan = frame[x].plan
      BY <2>1, <2>4, <3>1 DEF Activating, Acting
    <3>3. ~Pointing(x)  BY <2>1, <2>4 DEF Pointing
    <3> QED  BY <1>4, <2>1, <3>2, <3>3
  <2>5. (\A x \in Callers : ~Pointing(x)') => ActivePlans' \subseteq {activePlan'}
    <3>1. \A x \in Callers : Pointing(x) => Pointing(x)'  BY <2>1 DEF Pointing
    <3> QED  BY <1>4, <2>1, <3>1
  <2> QED  BY <2>2, <2>3, <2>4, <2>5 DEF OneActing, Pointing
<1>7. ASSUME NEW x \in Callers, MattersFor(x) PROVE OneActing'
  <2>1. CASE Move(x) /\ Legal(x) /\ frame[x].to \in {"active", "superseded"}
    <3>1. frame[x].prior = activePlan /\ \A y \in Callers \ {x} : ~Unfinished(y)
      BY <1>2, <2>1, MoveAlone
    <3>2. /\ frame[x].pc = "move" /\ UNCHANGED activePlan
          /\ StatusSet(frame[x].plan, frame[x].to) /\ Goes(x, AfterMove(x))
      BY <1>1, <2>1, MoveStep
    <3>3. \A y \in Callers \ {x} : ~Acting(y) /\ ~Pointing(y)
      BY <1>1, <3>1, PointingActs DEF Acting
    <3>4. ActivePlans \subseteq {activePlan}
      BY <1>4, <3>2, <3>3 DEF Pointing
    <3>5. /\ ActivePlans' \subseteq ActivePlans \cup (IF frame[x].to = "active" THEN {frame[x].plan} ELSE {})
          /\ frame[x].to = "superseded" => frame[x].plan \notin ActivePlans'
      BY <3>2 DEF StatusSet, ActivePlans
    <3>6. frame'[x].pc = "retirePrior" =>
            /\ frame'[x].prior = activePlan'
            /\ ActivePlans' \subseteq {activePlan', frame'[x].plan}
      BY <3>1, <3>2, <3>4, <3>5 DEF Goes, Carries
    <3>7. frame'[x].pc = "point" =>
            ActivePlans' \subseteq IF frame'[x].to = "active" THEN {frame'[x].plan} ELSE {}
      <4>1. CASE frame[x].to = "active"
        <5>1. ASSUME frame'[x].pc = "point"
              PROVE  activePlan \in {NoPlan, frame[x].plan} \/ plans[activePlan].status # "active"
          BY <3>1, <3>2, <4>1, <5>1 DEF Goes, AfterMove
        <5>2. NoPlan \notin ActivePlans  BY PlanAssumptions DEF ActivePlans, Plans, NoPlan
        <5>3. ASSUME frame'[x].pc = "point" PROVE ActivePlans \subseteq {frame[x].plan}
          BY <3>4, <5>1, <5>2, <5>3 DEF ActivePlans
        <5> QED  BY <3>2, <3>5, <4>1, <5>3 DEF Goes, Carries
      <4>2. CASE frame[x].to = "superseded"
        <5>1. frame'[x].pc = "point" => frame[x].prior = frame[x].plan
          BY <3>2, <4>2 DEF Goes, AfterMove
        <5> QED  BY <3>1, <3>2, <3>4, <3>5, <4>2, <5>1 DEF Goes, Carries
      <4> QED  BY <2>1, <4>1, <4>2
    <3>8. frame[x].to = "active" => Pointing(x)'
      BY <3>2 DEF Goes, AfterMove, Pointing
    <3>9. Activating(x)' => frame[x].to = "active"  BY <3>2 DEF Activating, Goes, Carries
    <3>10. ~Pointing(x)' => ActivePlans' \subseteq {activePlan'}
      BY <2>1, <3>2, <3>4, <3>5, <3>8
    <3> QED  BY <1>5, <3>2, <3>3, <3>6, <3>7, <3>8, <3>9, <3>10 DEF Goes
  <2>2. CASE RetirePrior(x)
    <3>1. frame[x].pc = "retirePrior" /\ UNCHANGED activePlan /\ frame[x].to = "active"
          /\ StatusSet(frame[x].prior, "superseded") /\ Goes(x, "point")
      BY <1>1, <1>2, <2>2, RetirePriorStep DEF FramesHold, FrameHolds
    <3>2. \A y \in Callers \ {x} : ~Acting(y)
      <4>1. Acting(x)  BY <1>1, <3>1, PointingActs DEF Pointing
      <4> QED  BY <1>4, <4>1
    <3>3. ActivePlans' \subseteq {frame[x].plan}
      BY <1>4, <3>1 DEF StatusSet, ActivePlans
    <3>4. frame'[x].pc = "point" /\ frame'[x].to = "active" /\ frame'[x].plan = frame[x].plan
      BY <3>1 DEF Goes, Carries
    <3>5. Pointing(x)'  BY <3>4 DEF Pointing
    <3> QED  BY <1>5, <3>1, <3>2, <3>3, <3>4, <3>5 DEF Goes
  <2>3. CASE Point(x)
    <3>1. /\ frame[x].pc = "point" /\ UNCHANGED plans
          /\ activePlan' = IF frame[x].to = "active" THEN frame[x].plan ELSE NoPlan
          /\ Goes(x, IF frame[x].to = "active" THEN "approval" ELSE "couple")
      BY <1>1, <2>3, PointStep
    <3>2. \A y \in Callers \ {x} : ~Acting(y)
      <4>1. Acting(x)  BY <1>1, <3>1, PointingActs DEF Pointing
      <4> QED  BY <1>4, <4>1
    <3>3. ActivePlans' = ActivePlans  BY <3>1 DEF ActivePlans
    <3>4. ActivePlans' \subseteq {activePlan'}  BY <1>4, <3>1, <3>3
    <3>5. frame'[x].pc \in {"approval", "couple"} /\ frame'[x].plan = frame[x].plan
          /\ frame'[x].to = frame[x].to
      BY <3>1 DEF Goes, Carries
    <3>6. Activating(x)' => activePlan' = frame'[x].plan  BY <3>1, <3>5 DEF Activating
    <3> QED  BY <1>5, <3>1, <3>2, <3>4, <3>5, <3>6 DEF Goes
  <2>4. CASE \/ HandlePlanStatus(x) /\ frame'[x].pc = "retire"
             \/ \E p \in Plans : RetireTask(x, p)
    <3>1. /\ OthersStay(x) /\ Carries(x) /\ frame[x].pc \in {"handle", "retire"} /\ frame'[x].pc = "retire"
          /\ UNCHANGED activePlan
      <4>1. CASE HandlePlanStatus(x) /\ frame'[x].pc = "retire"
        BY <1>1, <4>1, HandlePlanStatusStep DEF Ends
      <4>2. ASSUME NEW p \in Plans, RetireTask(x, p)
            PROVE  /\ OthersStay(x) /\ Carries(x) /\ frame[x].pc = "retire" /\ frame'[x].pc = "retire"
                   /\ UNCHANGED activePlan
        BY <1>1, <4>2, RetireTaskStep
      <4> QED  BY <2>4, <4>1, <4>2
    <3>2. ActivePlans' = ActivePlans
      <4>1. CASE HandlePlanStatus(x)  BY <1>1, <4>1, HandlePlanStatusStep DEF ActivePlans
      <4>2. ASSUME NEW p \in Plans, RetireTask(x, p) PROVE ActivePlans' = ActivePlans
        BY <1>1, <4>2, RetireTaskStep DEF TasksMove, ActivePlans
      <4> QED  BY <2>4, <4>1, <4>2
    <3>3. \A y \in Callers : (Acting(y)' <=> Acting(y)) /\ (Pointing(y)' <=> Pointing(y))
                             /\ (Activating(y)' <=> Activating(y)) /\ frame'[y].plan = frame[y].plan
      BY <3>1 DEF OthersStay, Carries, Acting, Activating, Pointing, Unfinished
    <3>4. \A y \in Callers : Pointing(y)' => frame'[y] = frame[y]
      BY <3>1 DEF OthersStay, Pointing
    <3> QED  BY <1>4, <3>1, <3>2, <3>3, <3>4 DEF OneActing, Pointing
  <2>5. CASE Materialize(x) /\ frame[x].to = "active"
    <3>1. /\ frame[x].pc = "retire" /\ UNCHANGED activePlan /\ Ends(x)
      BY <1>1, <2>5, MaterializeStep
    <3>2. ActivePlans' = ActivePlans
      BY <1>1, <2>5, MaterializeStep DEF TasksSet, ActivePlans
    <3>3. Acting(x)  BY <2>5, <3>1 DEF Acting, Unfinished
    <3>4. \A y \in Callers \ {x} : ~Acting(y)  BY <1>4, <3>3
    <3>5. ~Pointing(x)' /\ ~Activating(x)' /\ frame'[x].pc = "idle"
      BY <3>1 DEF Ends, Pointing, Activating, Unfinished
    <3>6. \A y \in Callers : ~Pointing(y)
      BY <1>1, <3>1, <3>4, PointingActs DEF Pointing
    <3>7. ActivePlans' \subseteq {activePlan'}  BY <1>4, <3>1, <3>2, <3>6
    <3> QED  BY <1>5, <3>1, <3>4, <3>5, <3>7 DEF Ends
  <2> QED  BY <1>7, <2>1, <2>2, <2>3, <2>4, <2>5 DEF MattersFor
<1> QED  BY <1>2, <1>6, <1>7, CalmStep

\* A task that was passed over stays on record.
LEMMA SparedStep ==
  ASSUME Next
  PROVE  spared \subseteq spared' /\ spared' \subseteq spared \cup Plans
<1>1. ASSUME NEW x \in Callers, NEW p \in Plans, RetireTask(x, p)
      PROVE  spared \subseteq spared' /\ spared' \subseteq spared \cup Plans
  BY <1>1 DEF RetireTask
<1>2. ASSUME NEW x \in Callers, CallSteps(x), ~\E p \in Plans : RetireTask(x, p) PROVE UNCHANGED spared
  BY <1>2 DEF CallSteps, Insert, TransitionSteps, Move, RetirePrior, Point, ApprovalHook, RequestApproval,
              ResolveApproval, Couple, CouplePhase, HandlePlanStatus, Materialize
<1>3. ASSUME NEW c \in Coordinators, CoordinatorSteps(c) PROVE UNCHANGED spared
  BY <1>3 DEF CoordinatorSteps, StartPlanning, Register, Block
<1>4. ASSUME Requests PROVE UNCHANGED spared
  BY <1>4 DEF Requests, Coordinate, OperatorCreate, CreatePlan, OperatorTransition, OperatorMovesRun,
              OperatorResolves, OperatorRetries, MoveTask, Restart
<1>5. ASSUME NEW p \in Plans, TaskSteps(p) PROVE UNCHANGED spared
  BY <1>5 DEF TaskSteps, SweepTask, TaskReady, TaskBegins, TaskSettles, MoveTask
<1>6. ASSUME NEW c \in Coordinators, NEW b, SubmitPlan(c, b) \/ SessionEnds(c, b) PROVE UNCHANGED spared
  BY <1>6 DEF SubmitPlan, CreatePlan, SessionEnds
<1> QED  BY <1>1, <1>2, <1>3, <1>4, <1>5, <1>6 DEF Next, TaskSteps

LEMMA TasksFollowKept ==
  ASSUME PlanIInv, Next
  PROVE  TasksFollow'
<1>1. /\ TypeOK /\ FramesHold /\ SessionsFollow /\ InPlaces /\ NumberedInPlace /\ RoomLeft
      /\ OneActing /\ TasksFollow /\ ActiveStored
  BY DEF PlanIInv
<1>2. SUFFICES ASSUME "plans" \notin torn' PROVE TasksFollow'
  <2>1. Undisturbed' <=> "plans" \notin torn'  BY DEF Undisturbed
  <2> QED  BY <2>1 DEF TasksFollow
<1>3. Undisturbed  BY <1>2, PutsStep DEF Undisturbed
<1>4. /\ \A x \in Callers :
           Activating(x) /\ frame[x].pc = "retire" => OpenTasks \subseteq Listed(frame[x].todo) \cup spared
      /\ (activePlan # NoPlan /\ \A x \in Callers : ~Activating(x)) =>
           /\ OpenTasks \subseteq {activePlan} \cup spared
           /\ plans[activePlan].pattern = "orchestrated" => plans[activePlan].tasks # "none"
  BY <1>1, <1>3 DEF TasksFollow
<1>5. \A x, y \in Callers : Acting(x) /\ Acting(y) => x = y  BY <1>1, <1>3 DEF OneActing
<1>6. \A q \in Stored : plans'[q].pattern = plans[q].pattern  BY PatternsStay
<1>a. spared \subseteq spared'  BY SparedStep
\* What the conclusion asks, once somebody is activating or the run names no plan.
<1>7. ASSUME \A x \in Callers : Activating(x)' /\ frame'[x].pc = "retire" => OpenTasks' \subseteq Listed(frame'[x].todo) \cup spared',
             \/ activePlan' = NoPlan
             \/ \E x \in Callers : Activating(x)'
             \/ /\ OpenTasks' \subseteq {activePlan'} \cup spared'
                /\ plans'[activePlan'].pattern = "orchestrated" => plans'[activePlan'].tasks # "none"
      PROVE  TasksFollow'
  BY <1>7 DEF TasksFollow
\* The step changes no plan but its status.
<1>8. CASE Calm
  <2>1. /\ activePlan' = activePlan /\ OpenTasks' \subseteq OpenTasks
        /\ \A q \in Stored : plans'[q].tasks # plans[q].tasks => plans'[q].tasks # "none"
    BY <1>8 DEF Calm, PlansCalm
  <2>2. ASSUME NEW x \in Callers, Activating(x)', frame'[x].pc = "retire"
        PROVE  OpenTasks' \subseteq Listed(frame'[x].todo) \cup spared'
    <3>1. frame'[x] = frame[x]  BY <1>8, <2>2 DEF Calm, CalmFor
    <3>2. Activating(x) /\ frame[x].pc = "retire"  BY <2>2, <3>1 DEF Activating, Unfinished
    <3> QED  BY <1>4, <1>a, <2>1, <3>1, <3>2
  <2>3. \A x \in Callers : Activating(x) => Activating(x)'  BY <1>8 DEF Calm, CalmFor
  <2>4. CASE activePlan # NoPlan /\ \A x \in Callers : ~Activating(x)
    <3>1. activePlan \in Stored  BY <1>1, <2>4 DEF ActiveStored
    <3>2. plans'[activePlan].pattern = "orchestrated" => plans'[activePlan].tasks # "none"
      BY <1>4, <1>6, <2>1, <2>4, <3>1
    <3> QED  BY <1>4, <1>7, <1>a, <2>1, <2>2, <2>4, <3>2
  <2> QED  BY <1>7, <2>1, <2>2, <2>3, <2>4
<1>9. ASSUME NEW x \in Callers, MattersFor(x) PROVE TasksFollow'
  <2>1. CASE Move(x) /\ Legal(x) /\ frame[x].to \in {"active", "superseded"}
    <3>1. \A y \in Callers \ {x} : ~Unfinished(y)  BY <1>2, <2>1, MoveAlone
    <3>2. /\ frame[x].pc = "move" /\ UNCHANGED activePlan /\ frame[x].plan \in Plans
          /\ StatusSet(frame[x].plan, frame[x].to) /\ Goes(x, AfterMove(x))
      BY <1>1, <2>1, MoveStep, MovesPlan DEF MovePcs
    <3>3. AfterMove(x) \in {"retirePrior", "point", "couple"}  BY <2>1 DEF AfterMove
    <3>4. /\ \A q \in Plans : plans'[q].tasks = plans[q].tasks
          /\ OpenTasks' = OpenTasks
      BY <3>2 DEF StatusSet, OpenTasks
    <3>5. \A y \in Callers : Activating(y)' => y = x /\ frame'[y].pc # "retire"
      BY <3>1, <3>2, <3>3 DEF Goes, OthersStay, Activating, Unfinished
    <3>6. CASE frame[x].to = "active"
      <4>1. Activating(x)'  BY <3>2, <3>3, <3>6 DEF Activating, Unfinished, Goes, Carries
      <4> QED  BY <1>7, <3>5, <4>1
    <3>7. CASE frame[x].to = "superseded"
      <4>1. \A y \in Callers : ~Activating(y)  BY <3>1, <3>2 DEF Activating, Unfinished
      <4>2. CASE activePlan # NoPlan
        <5>1. activePlan \in Stored /\ activePlan \in Plans  BY <1>1, <4>2 DEF ActiveStored, Stored
        <5>2. plans'[activePlan].pattern = "orchestrated" => plans'[activePlan].tasks # "none"
          BY <1>4, <1>6, <3>4, <4>1, <4>2, <5>1
        <5> QED  BY <1>4, <1>7, <1>a, <3>2, <3>4, <3>5, <4>1, <4>2, <5>2
      <4> QED  BY <1>7, <3>2, <3>5, <4>2
    <3> QED  BY <2>1, <3>6, <3>7
  <2>2. CASE RetirePrior(x)
    <3>1. frame[x].pc = "retirePrior" /\ frame[x].to = "active" /\ Goes(x, "point")
      BY <1>1, <1>2, <2>2, RetirePriorStep DEF FramesHold, FrameHolds
    <3>2. Activating(x)'  BY <3>1 DEF Activating, Unfinished, Goes, Carries
    <3>3. \A y \in Callers \ {x} : ~Activating(y)'
      <4>1. Acting(x)  BY <1>1, <3>1, PointingActs DEF Pointing
      <4> QED  BY <1>1, <1>5, <3>1, <4>1, OthersIdle DEF Goes
    <3>4. frame'[x].pc # "retire"  BY <3>1 DEF Goes
    <3> QED  BY <1>7, <3>2, <3>3, <3>4
  <2>3. CASE Point(x)
    <3>1. /\ frame[x].pc = "point"
          /\ activePlan' = IF frame[x].to = "active" THEN frame[x].plan ELSE NoPlan
          /\ Goes(x, IF frame[x].to = "active" THEN "approval" ELSE "couple")
      BY <1>1, <2>3, PointStep
    <3>2. frame[x].to = "active" => Activating(x)'
      BY <3>1 DEF Activating, Unfinished, Goes, Carries
    <3>3. \A y \in Callers \ {x} : ~Activating(y)'
      <4>1. Acting(x)  BY <1>1, <3>1, PointingActs DEF Pointing
      <4> QED  BY <1>1, <1>5, <3>1, <4>1, OthersIdle DEF Goes
    <3>4. frame'[x].pc # "retire"  BY <3>1 DEF Goes
    <3> QED  BY <1>7, <3>1, <3>2, <3>3, <3>4
  <2>4. CASE HandlePlanStatus(x) /\ frame'[x].pc = "retire"
    <3>1. /\ frame[x].pc = "handle" /\ OthersStay(x) /\ Carries(x) /\ frame'[x].todo = TaskList
          /\ UNCHANGED <<activePlan, plans>>
      BY <1>1, <2>4, HandlePlanStatusStep DEF Ends
    <3>2. OpenTasks' = OpenTasks  BY <3>1 DEF OpenTasks
    <3>3. \A y \in Callers : Activating(y)' <=> Activating(y)
      BY <2>4, <3>1 DEF OthersStay, Carries, Activating, Unfinished
    <3>4. \A y \in Callers \ {x} : frame'[y] = frame[y]  BY <3>1 DEF OthersStay
    <3>5. ASSUME NEW y \in Callers, Activating(y)', frame'[y].pc = "retire"
          PROVE  OpenTasks' \subseteq Listed(frame'[y].todo) \cup spared'
      <4>1. CASE y = x  BY <3>1, <3>2, <4>1, ListsTyped
      <4>2. CASE y # x  BY <1>4, <1>a, <3>2, <3>3, <3>4, <3>5, <4>2
      <4> QED  BY <4>1, <4>2
    <3>6. CASE activePlan # NoPlan /\ \A y \in Callers : ~Activating(y)
      BY <1>4, <1>7, <1>a, <3>1, <3>2, <3>5, <3>6
    <3> QED  BY <1>7, <3>1, <3>3, <3>5, <3>6
  <2>5. ASSUME NEW p \in Plans, RetireTask(x, p) PROVE TasksFollow'
    <3>1. /\ frame[x].pc = "retire" /\ OthersStay(x) /\ Carries(x) /\ frame'[x].pc = "retire"
          /\ Listed(frame'[x].todo) = Listed(frame[x].todo) \ {p} /\ UNCHANGED activePlan
          /\ TasksMove /\ p \notin OpenTasks' \ spared'
      BY <1>1, <2>5, RetireTaskStep
    <3>2. /\ OpenTasks' \subseteq OpenTasks
          /\ \A q \in Plans : plans'[q].tasks # plans[q].tasks => plans'[q].tasks # "none"
      BY <3>1 DEF TasksMove, OpenTasks, OpenStatuses
    <3>3. \A y \in Callers : Activating(y)' <=> Activating(y)
      BY <3>1 DEF OthersStay, Carries, Activating, Unfinished
    <3>4. \A y \in Callers \ {x} : frame'[y] = frame[y]  BY <3>1 DEF OthersStay
    <3>5. \A y \in Callers : Activating(y)' /\ frame'[y].pc = "retire" => OpenTasks' \subseteq Listed(frame'[y].todo) \cup spared'
      <4>1. ASSUME NEW y \in Callers, Activating(y)', frame'[y].pc = "retire"
            PROVE  OpenTasks' \subseteq Listed(frame'[y].todo) \cup spared'
        <5>1. frame[y].pc = "retire"  BY <3>1, <3>4, <4>1
        <5>2. OpenTasks \subseteq Listed(frame[y].todo) \cup spared  BY <1>4, <3>3, <4>1, <5>1
        <5> QED  BY <1>a, <3>1, <3>2, <3>4, <5>2
      <4> QED  BY <4>1
    <3>6. CASE activePlan # NoPlan /\ \A y \in Callers : ~Activating(y)
      <4>1. activePlan \in Stored /\ activePlan \in Plans  BY <1>1, <3>6 DEF ActiveStored, Stored
      <4>2. plans'[activePlan].pattern = "orchestrated" => plans'[activePlan].tasks # "none"
        BY <1>4, <1>6, <3>2, <3>6, <4>1
      <4> QED  BY <1>4, <1>7, <1>a, <3>1, <3>2, <3>5, <3>6, <4>2
    <3> QED  BY <1>7, <3>1, <3>3, <3>5, <3>6
  <2>6. CASE Materialize(x) /\ frame[x].to = "active"
    <3>1. /\ frame[x].pc = "retire" /\ Listed(frame[x].todo) = {} /\ UNCHANGED activePlan /\ Ends(x)
          /\ TasksSet(IF plans[frame[x].plan].pattern = "orchestrated" THEN {frame[x].plan} ELSE {}, "pending")
      BY <1>1, <2>6, MaterializeStep
    <3>2. Activating(x) /\ Acting(x) /\ ~Pointing(x)
      BY <2>6, <3>1 DEF Activating, Acting, Unfinished, Pointing
    <3>3. OpenTasks \subseteq spared  BY <1>4, <3>1, <3>2
    <3>4. activePlan = frame[x].plan  BY <1>1, <1>3, <3>2 DEF OneActing
    <3>5. \A y \in Callers : ~Activating(y)'
      <4>1. \A y \in Callers \ {x} : ~Activating(y)'
        BY <1>1, <1>5, <3>1, <3>2, OthersIdle DEF Ends
      <4>2. ~Activating(x)'  BY <3>1 DEF Ends, Activating, Unfinished
      <4> QED  BY <4>1, <4>2
    <3>6. frame[x].plan \in Plans /\ frame[x].plan \in Stored
      BY <1>1, <3>1, MovesPlan DEF MovePcs
    <3>7. OpenTasks' \subseteq {activePlan} \cup spared'
      BY <1>a, <3>1, <3>3, <3>4 DEF TasksSet, OpenTasks
    <3>8. plans'[activePlan].pattern = "orchestrated" => plans'[activePlan].tasks # "none"
      BY <1>6, <3>1, <3>4, <3>6 DEF TasksSet
    <3> QED  BY <1>7, <3>1, <3>5, <3>7, <3>8
  <2> QED  BY <1>9, <2>1, <2>2, <2>3, <2>4, <2>5, <2>6 DEF MattersFor
<1> QED  BY <1>2, <1>8, <1>9, CalmStep

-----------------------------------------------------------------------------
(* The phase of the run *)

\* A step that leaves the run in its phase: whoever is about to move it now
\* has just looked.
LooksCalmFor(x) ==
  \/ frame'[x].pc \notin {"start", "phase"}
  \/ frame'[x] = frame[x]
  \/ frame'[x].pc = "start" /\ phase = "created"
  \/ frame'[x].pc = "phase" /\ GuardAllows(frame'[x].to)

LooksCalm == UNCHANGED <<phase, suspendedFrom>> /\ \A x \in Callers : LooksCalmFor(x)

MovesPhase ==
  \/ \E x \in Callers : CouplePhase(x)
  \/ \E c \in Coordinators : StartPlanning(c) \/ Block(c)
  \/ \E to \in RunTargets : OperatorMovesRun(to)

LEMMA PhaseStep ==
  ASSUME PlanIInv, Next
  PROVE  LooksCalm \/ MovesPhase
<1>1. TypeOK /\ FramesHold /\ SessionsFollow /\ InPlaces /\ NumberedInPlace /\ RoomLeft  BY DEF PlanIInv
<1>2. SUFFICES ASSUME ~MovesPhase PROVE LooksCalm
  OBVIOUS
<1>3. ASSUME UNCHANGED <<phase, suspendedFrom>>, NEW x \in Callers, OthersStay(x), LooksCalmFor(x)
      PROVE  LooksCalm
  BY <1>3 DEF LooksCalm, LooksCalmFor, OthersStay
<1>4. ASSUME UNCHANGED <<phase, suspendedFrom>>, NEW x \in Callers, OthersStay(x),
             frame'[x].pc \notin {"start", "phase"}
      PROVE  LooksCalm
  <2>1. LooksCalmFor(x)  BY <1>4 DEF LooksCalmFor
  <2> QED  BY <1>3, <1>4, <2>1
<1>5. ASSUME UNCHANGED <<phase, suspendedFrom>>, NEW x \in Callers, Ends(x) PROVE LooksCalm
  BY <1>4, <1>5 DEF Ends
<1>6. ASSUME UNCHANGED <<phase, suspendedFrom, frame>> PROVE LooksCalm
  BY <1>6 DEF LooksCalm, LooksCalmFor
<1>7. ASSUME NEW x \in Callers, CallSteps(x) PROVE LooksCalm
  <2>1. CASE Move(x)
    <3>1. AfterMove(x) \notin {"start", "phase"}  BY DEF AfterMove
    <3> QED  BY <1>1, <1>4, <1>5, <2>1, <3>1, MoveStep DEF Goes
  <2>2. CASE RetirePrior(x)  BY <1>1, <1>4, <1>5, <2>2, RetirePriorStep DEF Goes
  <2>3. CASE Point(x)  BY <1>1, <1>4, <2>3, PointStep DEF Goes
  <2>4. CASE ApprovalHook(x)  BY <1>1, <1>4, <2>4, ApprovalHookStep DEF Quiet
  <2>5. CASE RequestApproval(x)  BY <1>1, <1>4, <2>5, RequestApprovalStep DEF Quiet, Goes
  <2>6. CASE ResolveApproval(x)  BY <1>1, <1>4, <1>5, <2>6, ResolveApprovalStep DEF Quiet, Goes
  <2>7. CASE Couple(x)
    <3>1. /\ UNCHANGED <<phase, suspendedFrom>>
          /\ Goes(x, IF GuardAllows(frame[x].to) THEN "phase" ELSE "handle")
      BY <1>1, <2>7, CoupleStep DEF Quiet
    <3>2. GuardAllows(frame[x].to) => GuardAllows(frame'[x].to)  BY <3>1 DEF Goes, Carries
    <3>3. LooksCalmFor(x)  BY <3>1, <3>2 DEF LooksCalmFor, Goes
    <3> QED  BY <1>3, <3>1, <3>3 DEF Goes
  <2>8. CASE CouplePhase(x)  BY <1>2, <2>8 DEF MovesPhase
  <2>9. CASE HandlePlanStatus(x)  BY <1>1, <1>4, <1>5, <2>9, HandlePlanStatusStep
  <2>10. ASSUME NEW p \in Plans, RetireTask(x, p) PROVE LooksCalm
    BY <1>1, <1>4, <2>10, RetireTaskStep
  <2>11. CASE Materialize(x)  BY <1>1, <1>5, <2>11, MaterializeStep
  <2>12. CASE Insert(x)  BY <1>1, <1>5, <2>12, InsertStep
  <2> QED  BY <1>7, <2>1, <2>2, <2>3, <2>4, <2>5, <2>6, <2>7, <2>8, <2>9, <2>10, <2>11, <2>12
           DEF CallSteps, TransitionSteps
<1>8. ASSUME NEW c \in Coordinators
      PROVE  /\ CoordinatorSteps(c) => LooksCalm
             /\ Coordinate(c) => LooksCalm
             /\ \A b \in BOOLEAN : SessionEnds(c, b) => LooksCalm
  <2>1. c \in Callers  BY DEF Callers
  <2>2. ~StartPlanning(c) /\ ~Block(c)  BY <1>2 DEF MovesPhase
  <2>3. CASE Register(c)  BY <1>1, <1>5, <2>1, <2>3, RegisterStep
  <2>4. CASE Coordinate(c)
    <3>1. /\ UNCHANGED <<phase, suspendedFrom>>
          /\ Goes(c, IF phase = "created" THEN "start" ELSE "register")
      BY <1>1, <2>4, CoordinateStep
    <3>2. LooksCalmFor(c)  BY <3>1 DEF LooksCalmFor, Goes
    <3> QED  BY <1>3, <2>1, <3>1, <3>2 DEF Goes
  <2>5. ASSUME NEW b \in BOOLEAN, SessionEnds(c, b) PROVE LooksCalm
    BY <1>1, <1>4, <1>5, <2>1, <2>5, SessionEndsStep DEF Goes, Begins
  <2> QED  BY <2>2, <2>3, <2>4, <2>5 DEF CoordinatorSteps
<1>9. ASSUME NEW x \in Callers, NEW pattern \in Patterns, Creating(x, pattern) PROVE LooksCalm
  BY <1>1, <1>4, <1>9, CreatePlanStep DEF Creating
<1>10. ASSUME NEW c \in Coordinators, NEW pattern \in Patterns, SubmitPlan(c, pattern) PROVE LooksCalm
  BY <1>1, <1>9, <1>10, SubmitPlanStep
<1>11. ASSUME NEW p \in Plans, TaskSteps(p) PROVE LooksCalm
  BY <1>1, <1>6, <1>11, TaskStepsStep
<1>12. CASE Requests
  <2>1. ASSUME NEW o \in Operators, NEW pattern \in Patterns, OperatorCreate(o, pattern) PROVE LooksCalm
    BY <1>1, <1>9, <2>1, OperatorCreateStep
  <2>2. ASSUME NEW o \in Operators, NEW p \in Plans, NEW to \in PlanStatuses, OperatorTransition(o, p, to)
        PROVE  LooksCalm
    <3>1. o \in Callers  BY DEF Callers
    <3> QED  BY <1>1, <1>4, <2>2, <3>1, OperatorTransitionStep DEF Begins
  <2>3. ASSUME NEW to \in RunTargets, OperatorMovesRun(to) PROVE LooksCalm
    BY <1>2, <2>3 DEF MovesPhase
  <2>4. ASSUME NEW p \in Plans, OperatorResolves(p) \/ OperatorRetries(p) PROVE LooksCalm
    BY <1>1, <1>6, <2>4, OperatorResolvesStep, OperatorRetriesStep
  <2>5. CASE Restart
    <3>1. (\A x \in Callers : frame'[x].pc = "idle") /\ UNCHANGED <<phase, suspendedFrom>>
      BY <1>1, <2>5, RestartStep
    <3> QED  BY <3>1 DEF LooksCalm, LooksCalmFor
  <2> QED  BY <1>8, <1>12, <2>1, <2>2, <2>3, <2>4, <2>5 DEF Requests
<1> QED  BY <1>7, <1>8, <1>10, <1>11, <1>12 DEF Next, TaskSteps

\* A coupling moves the run to an active phase, or not at all.
LEMMA FollowMoves ==
  ASSUME NEW to, TransitionRun(FollowPhase(to))
  PROVE  \/ UNCHANGED <<phase, suspendedFrom>>
         \/ /\ phase' = FollowPhase(to) /\ phase' \in ActivePhases \ {"created"}
            /\ CanMove(phase, suspendedFrom, phase')
<1>1. CASE CanMove(phase, suspendedFrom, FollowPhase(to))
  <2>1. FollowPhase(to) # NoPhase
    BY <1>1 DEF CanMove, RunEdges, NoPhase, SuspendedPhases
  <2>2. FollowPhase(to) \in ActivePhases \ {"created"}
    BY <2>1 DEF FollowPhase, ActivePhases
  <2> QED  BY <1>1, <2>2 DEF TransitionRun
<1>2. CASE ~CanMove(phase, suspendedFrom, FollowPhase(to))
  BY <1>2 DEF TransitionRun
<1> QED  BY <1>1, <1>2

\* To block a run does not change where it stands.
LEMMA BlockingStays ==
  ASSUME phase \in Phases, suspendedFrom \in ActivePhases \cup {NoPhase}, TransitionRun("blocked")
  PROVE  Standing' = Standing /\ (phase = "created" => phase' = "created")
  BY DEF TransitionRun, CanMove, RunEdges, OriginAfter, Standing, Phases, ActivePhases, SuspendedPhases,
         TerminalPhases, NoPhase

LEMMA LooksHoldKept ==
  ASSUME PlanIInv, Next
  PROVE  LooksHold'
<1>1. /\ TypeOK /\ FramesHold /\ SessionsFollow /\ InPlaces /\ NumberedInPlace /\ RoomLeft
      /\ LooksHold /\ OneStarts /\ phase \in Phases /\ suspendedFrom \in ActivePhases \cup {NoPhase}
  BY DEF PlanIInv, TypeOK
<1>2. SUFFICES ASSUME torn' \cap {"phase", "sessions"} = {},
                      NEW x \in Callers
               PROVE  /\ frame'[x].pc = "start" => phase' = "created"
                      /\ frame'[x].pc = "phase" => Standing' \notin {"created", FollowPhase(frame'[x].to)}
  BY DEF LooksHold, Standing, FollowPhase
<1>3. "phase" \notin torn /\ "sessions" \notin torn /\ "phase" \notin torn'  BY <1>2, PutsStep
<1>4. \A y \in Callers :
        /\ frame[y].pc = "start" => phase = "created"
        /\ frame[y].pc = "phase" => Standing \notin {"created", FollowPhase(frame[y].to)}
  BY <1>1, <1>3 DEF LooksHold
<1>5. phase = "created" => Standing = "created"  BY DEF Standing, SuspendedPhases
<1>6. CASE LooksCalm
  <2>1. UNCHANGED <<phase, suspendedFrom>> /\ LooksCalmFor(x)  BY <1>6 DEF LooksCalm
  <2>2. Standing' = Standing  BY <2>1 DEF Standing
  <2>3. CASE frame'[x].pc = "phase" /\ GuardAllows(frame'[x].to)
    <3>1. Standing = phase /\ phase \notin {"created", FollowPhase(frame'[x].to)}
      BY <2>3 DEF GuardAllows, Standing, SuspendedPhases, FollowPhase
    <3> QED  BY <2>1, <2>2, <2>3, <3>1
  <2> QED  BY <1>4, <2>1, <2>2, <2>3 DEF LooksCalmFor
<1>7. ASSUME NEW y \in Callers, CouplePhase(y)
      PROVE  /\ frame'[x].pc = "start" => phase' = "created"
             /\ frame'[x].pc = "phase" => Standing' \notin {"created", FollowPhase(frame'[x].to)}
  <2>1. /\ frame[y].pc = "phase" /\ Goes(y, "handle")
        /\ TransitionRun(FollowPhase(frame[y].to))
        /\ ~\E z \in Callers \ {y} : frame[z].pc = "phase" /\ FollowPhase(frame[z].to) = phase'
    BY <1>1, <1>3, <1>7, CouplePhaseStep
  <2>2. CASE x = y  BY <2>1, <2>2 DEF Goes
  <2>3. CASE x # y /\ UNCHANGED <<phase, suspendedFrom>>
    BY <1>4, <2>1, <2>3 DEF Goes, OthersStay, Standing
  <2>4. CASE x # y /\ phase' = FollowPhase(frame[y].to) /\ phase' \in ActivePhases \ {"created"}
    <3>1. frame'[x] = frame[x]  BY <2>1, <2>4 DEF Goes, OthersStay
    <3>2. frame[x].pc # "start"  BY <1>4, <1>5, <2>1
    <3>3. Standing' = phase'  BY <2>4 DEF Standing, ActivePhases, SuspendedPhases
    <3> QED  BY <2>1, <2>4, <3>1, <3>2, <3>3
  <2> QED  BY <2>1, <2>2, <2>3, <2>4, FollowMoves
<1>8. ASSUME NEW c \in Coordinators, StartPlanning(c)
      PROVE  frame'[x].pc \notin {"start", "phase"}
  <2>1. /\ c \in Callers /\ frame[c].pc = "start" /\ OthersStay(c) /\ frame'[c].pc \notin {"start", "phase"}
    BY <1>1, <1>8, StartPlanningStep DEF Callers, Goes, Ends
  <2>2. phase = "created"  BY <1>4, <2>1
  <2>3. \A d \in Coordinators \ {c} : frame[d].pc # "start"
    <3>1. session[c] = "starting"  BY <1>1, <2>1 DEF SessionsFollow, SessionAt
    <3>2. \A d \in Coordinators \ {c} : session[d] = "off"  BY <1>1, <1>3, <3>1 DEF OneStarts
    <3> QED  BY <1>1, <3>2 DEF SessionsFollow, SessionAt
  <2>4. \A o \in Operators : frame[o].pc # "start"  BY <1>1 DEF SessionsFollow
  <2>5. CASE x # c
    <3>1. frame'[x] = frame[x] /\ frame[x].pc # "start"
      BY <2>1, <2>3, <2>4, <2>5 DEF OthersStay, Callers
    <3> QED  BY <1>4, <1>5, <2>2, <3>1
  <2> QED  BY <2>1, <2>5
<1>9. ASSUME NEW c \in Coordinators, Block(c)
      PROVE  /\ frame'[x].pc = "start" => phase' = "created"
             /\ frame'[x].pc = "phase" => Standing' \notin {"created", FollowPhase(frame'[x].to)}
  <2>1. Standing' = Standing /\ (phase = "created" => phase' = "created")
    BY <1>1, <1>9, BlockStep, BlockingStays
  <2>2. Ends(c)  BY <1>1, <1>9, BlockStep
  <2>3. frame'[x].pc = "idle" \/ frame'[x] = frame[x]  BY <2>2 DEF Ends, OthersStay
  <2> QED  BY <1>4, <2>1, <2>3
<1>10. ASSUME NEW to \in RunTargets, OperatorMovesRun(to)
       PROVE  frame'[x].pc \notin {"start", "phase"}
  BY <1>1, <1>3, <1>10, OperatorMovesRunStep
<1> QED  BY <1>6, <1>7, <1>8, <1>9, <1>10, PhaseStep DEF MovesPhase

-----------------------------------------------------------------------------
(* Type correctness *)

HistoryMarks == {"plans", "versions", "sessions", "phase", "restart"}

\* The types of everything but the plans.
RunTyped == phase \in Phases /\ suspendedFrom \in ActivePhases \cup {NoPhase} /\ sweeping \in Lists
RestTyped ==
  /\ RunTyped
  /\ activePlan \in Plans \cup {NoPlan}
  /\ frame \in [Callers -> Frames]
  /\ session \in [Coordinators -> SessionStates]
  /\ submitted \in [Coordinators -> Plans \cup {NoPlan}]
  /\ inFlight \in Coordinators \cup {NoCaller}
  /\ chosen \subseteq Plans /\ asks \in 0..MaxAsks /\ torn \subseteq HistoryMarks

LEMMA TypesTogether ==
  /\ TypeOK /\ suspendedFrom \in ActivePhases \cup {NoPhase} => RestTyped /\ plans \in [Plans -> Records]
  /\ RestTyped /\ plans \in [Plans -> Records] /\ spared \subseteq Plans => TypeOK /\ suspendedFrom \in ActivePhases \cup {NoPhase}
<1>1. ActivePhases \subseteq Phases  BY DEF Phases
<1> QED  BY <1>1 DEF TypeOK, RestTyped, RunTyped, Frames, Records, HistoryMarks

LEMMA RestTypedKept ==
  ASSUME PlanIInv, Next
  PROVE  RestTyped'
<1>1. /\ TypeOK /\ FramesHold /\ SessionsFollow /\ InPlaces /\ NumberedInPlace /\ RoomLeft
      /\ suspendedFrom \in ActivePhases \cup {NoPhase}
  BY DEF PlanIInv
<1>2. RestTyped  BY <1>1, TypesTogether
<1>3. /\ phase \in Phases /\ suspendedFrom \in ActivePhases \cup {NoPhase} /\ sweeping \in Lists
      /\ activePlan \in Plans \cup {NoPlan} /\ frame \in [Callers -> Frames]
      /\ session \in [Coordinators -> SessionStates]
      /\ submitted \in [Coordinators -> Plans \cup {NoPlan}]
      /\ inFlight \in Coordinators \cup {NoCaller}
      /\ chosen \subseteq Plans /\ asks \in 0..MaxAsks /\ torn \subseteq HistoryMarks
      /\ torn \cup {"plans"} \subseteq HistoryMarks
  BY <1>2 DEF RestTyped, RunTyped, HistoryMarks
<1>4. ASSUME NEW to, TransitionRun(to) PROVE RunTyped'
  BY <1>3, <1>4, MachineTyped DEF RunTyped
\* A step of one call that leaves the run, its budget of requests and who chose what alone.
<1>5. ASSUME UNCHANGED <<phase, suspendedFrom, activePlan, asks, chosen>>, sweeping' \in Lists,
             frame' \in [Callers -> Frames],
             torn' \in {torn, torn \cup {"plans"}},
             \/ UNCHANGED <<session, submitted, inFlight>>
             \/ \E x \in Callers : SessionOver(x)
      PROVE  RestTyped'
  BY <1>3, <1>5 DEF RestTyped, RunTyped, SessionOver
<1>6. ASSUME NEW x \in Callers, CallSteps(x) PROVE RestTyped'
  <2>1. CASE Move(x)
    <3>1. frame[x].plan \in Plans  BY <1>1, <2>1, MoveStep, MovesPlan DEF MovePcs
    <3>2. CASE Ends(x) /\ SessionOver(x) /\ UNCHANGED <<torn, chosen>>
      BY <1>1, <1>3, <1>5, <2>1, <3>2, MoveStep DEF Ends
    <3>3. CASE /\ Goes(x, AfterMove(x)) /\ UNCHANGED <<session, submitted, inFlight>>
               /\ chosen' = IF x \in Operators /\ frame[x].to = "active"
                            THEN chosen \cup {frame[x].plan} ELSE chosen
               /\ torn' = IF Overlapped(x) THEN torn \cup {"plans"} ELSE torn
      <4>1. UNCHANGED <<phase, suspendedFrom, activePlan, sweeping, asks>>  BY <1>1, <2>1, MoveStep
      <4>2. chosen' \subseteq Plans /\ torn' \subseteq HistoryMarks /\ frame' \in [Callers -> Frames]
        BY <1>3, <3>1, <3>3 DEF Goes
      <4> QED  BY <1>3, <3>3, <4>1, <4>2 DEF RestTyped, RunTyped
    <3> QED  BY <1>1, <2>1, <3>2, <3>3, MoveStep
  <2>2. CASE RetirePrior(x)  BY <1>1, <1>3, <1>5, <2>2, RetirePriorStep DEF Goes, Ends
  <2>3. CASE Point(x)
    <3>1. /\ UNCHANGED <<phase, suspendedFrom, session, submitted, inFlight, sweeping, asks, torn, chosen>>
          /\ activePlan' \in {frame[x].plan, NoPlan} /\ frame' \in [Callers -> Frames]
      BY <1>1, <2>3, PointStep DEF Goes
    <3>2. frame[x].plan \in Plans  BY <1>1, <2>3, PointStep, MovesPlan DEF MovePcs
    <3> QED  BY <1>3, <3>1, <3>2 DEF RestTyped, RunTyped
  <2>4. CASE ApprovalHook(x)  BY <1>1, <1>3, <1>5, <2>4, ApprovalHookStep DEF Quiet
  <2>5. CASE RequestApproval(x)  BY <1>1, <1>3, <1>5, <2>5, RequestApprovalStep DEF Quiet, Goes
  <2>6. CASE ResolveApproval(x)  BY <1>1, <1>3, <1>5, <2>6, ResolveApprovalStep DEF Quiet, Goes, Ends
  <2>7. CASE Couple(x)  BY <1>1, <1>3, <1>5, <2>7, CoupleStep DEF Quiet, Goes
  <2>8. CASE CouplePhase(x)
    <3>1. /\ TransitionRun(FollowPhase(frame[x].to)) /\ frame' \in [Callers -> Frames]
          /\ torn' \subseteq torn \cup {"phase"}
          /\ UNCHANGED <<activePlan, session, submitted, inFlight, asks, chosen>>
      BY <1>1, <2>8, CouplePhaseStep DEF Goes
    <3>2. RunTyped'  BY <1>4, <3>1
    <3>3. torn' \subseteq HistoryMarks  BY <1>3, <3>1 DEF HistoryMarks
    <3> QED  BY <1>3, <3>1, <3>2, <3>3 DEF RestTyped
  <2>9. CASE HandlePlanStatus(x)  BY <1>1, <1>3, <1>5, <2>9, HandlePlanStatusStep DEF Ends
  <2>10. ASSUME NEW p \in Plans, RetireTask(x, p) PROVE RestTyped'
    BY <1>1, <1>3, <1>5, <2>10, RetireTaskStep
  <2>11. CASE Materialize(x)  BY <1>1, <1>3, <1>5, <2>11, MaterializeStep DEF Ends
  <2>12. CASE Insert(x)
    <3>1. /\ UNCHANGED <<phase, suspendedFrom, activePlan, session, inFlight, sweeping, asks, torn, chosen>>
          /\ Ends(x) /\ submitted' \in [Coordinators -> Plans \cup {NoPlan}]
      BY <1>1, <2>12, InsertStep
    <3> QED  BY <1>3, <3>1 DEF RestTyped, RunTyped, Ends
  <2> QED  BY <1>6, <2>1, <2>2, <2>3, <2>4, <2>5, <2>6, <2>7, <2>8, <2>9, <2>10, <2>11, <2>12
           DEF CallSteps, TransitionSteps
<1>7. ASSUME NEW c \in Coordinators
      PROVE  /\ CoordinatorSteps(c) => RestTyped'
             /\ Coordinate(c) => RestTyped'
             /\ \A b \in BOOLEAN : SessionEnds(c, b) => RestTyped'
  <2>1. c \in Callers  BY DEF Callers
  <2>2. CASE StartPlanning(c)
    <3>1. /\ UNCHANGED <<activePlan, submitted, inFlight, asks, torn, chosen>>
          /\ frame' \in [Callers -> Frames]
          /\ UNCHANGED session \/ SessionSet(c, "off")
      BY <1>1, <2>2, StartPlanningStep DEF Goes, Ends
    <3>2. RunTyped'
      <4>1. CASE TransitionRun("planning")  BY <1>4, <4>1
      <4>2. CASE UNCHANGED <<phase, suspendedFrom, sweeping>>  BY <1>3, <4>2 DEF RunTyped
      <4> QED  BY <1>1, <2>2, <4>1, <4>2, StartPlanningStep
    <3> QED  BY <1>3, <3>1, <3>2 DEF RestTyped, SessionSet
  <2>3. CASE Register(c)
    <3>1. /\ UNCHANGED <<phase, suspendedFrom, activePlan, submitted, sweeping, asks, torn, chosen>>
          /\ Ends(c) /\ SessionSet(c, "live") /\ inFlight' = c
      BY <1>1, <2>3, RegisterStep
    <3> QED  BY <1>3, <3>1 DEF RestTyped, RunTyped, Ends, SessionSet
  <2>4. CASE Block(c)
    <3>1. /\ TransitionRun("blocked") /\ Ends(c) /\ SessionOver(c)
          /\ UNCHANGED <<activePlan, asks, torn, chosen>>
      BY <1>1, <2>4, BlockStep
    <3>2. RunTyped'  BY <1>4, <3>1
    <3> QED  BY <1>3, <3>1, <3>2 DEF RestTyped, Ends, SessionOver
  <2>5. CASE Coordinate(c)
    <3>1. /\ UNCHANGED <<phase, suspendedFrom, activePlan, submitted, inFlight, sweeping, chosen>>
          /\ SessionSet(c, "starting") /\ asks' \in 0..MaxAsks
          /\ torn' \subseteq torn \cup {"sessions"} /\ frame' \in [Callers -> Frames]
      BY <1>1, <2>5, CoordinateStep DEF Goes
    <3>2. torn' \subseteq HistoryMarks  BY <1>3, <3>1 DEF HistoryMarks
    <3> QED  BY <1>3, <3>1, <3>2 DEF RestTyped, RunTyped, SessionSet
  <2>6. ASSUME NEW b \in BOOLEAN, SessionEnds(c, b) PROVE RestTyped'
    <3>1. /\ UNCHANGED <<phase, suspendedFrom, activePlan, sweeping, asks, torn, chosen>>
          /\ frame' \in [Callers -> Frames]
          /\ SessionOver(c) \/ (SessionSet(c, "settling") /\ UNCHANGED <<submitted, inFlight>>)
      BY <1>1, <2>6, SessionEndsStep DEF Goes, Ends, Begins
    <3> QED  BY <1>3, <3>1 DEF RestTyped, RunTyped, SessionOver, SessionSet
  <2> QED  BY <2>2, <2>3, <2>4, <2>5, <2>6 DEF CoordinatorSteps
<1>8. ASSUME NEW x \in Callers, NEW pattern \in Patterns, Creating(x, pattern) PROVE RestTyped'
  <2>1. /\ UNCHANGED <<phase, suspendedFrom, activePlan, session, submitted, inFlight, sweeping, chosen>>
        /\ asks' \in 0..MaxAsks /\ torn' \subseteq torn \cup {"versions"} /\ frame' \in [Callers -> Frames]
    BY <1>1, <1>8, CreatePlanStep DEF Creating
  <2>2. torn' \subseteq HistoryMarks  BY <1>3, <2>1 DEF HistoryMarks
  <2> QED  BY <1>3, <2>1, <2>2 DEF RestTyped, RunTyped
<1>9. ASSUME NEW c \in Coordinators, NEW pattern \in Patterns, SubmitPlan(c, pattern) PROVE RestTyped'
  BY <1>1, <1>8, <1>9, SubmitPlanStep
<1>10. ASSUME NEW p \in Plans, TaskSteps(p) PROVE RestTyped'
  BY <1>1, <1>3, <1>5, <1>10, TaskStepsStep
<1>11. CASE Requests
  <2>1. ASSUME NEW o \in Operators, NEW pattern \in Patterns, OperatorCreate(o, pattern) PROVE RestTyped'
    BY <1>1, <1>8, <2>1, OperatorCreateStep
  <2>2. ASSUME NEW o \in Operators, NEW p \in Plans, NEW to \in PlanStatuses, OperatorTransition(o, p, to)
        PROVE  RestTyped'
    <3>1. /\ UNCHANGED <<phase, suspendedFrom, activePlan, session, submitted, inFlight, sweeping, torn, chosen>>
          /\ asks' \in 0..MaxAsks /\ frame' \in [Callers -> Frames]
      BY <1>1, <2>2, OperatorTransitionStep DEF Begins
    <3> QED  BY <1>3, <3>1 DEF RestTyped, RunTyped
  <2>3. ASSUME NEW to \in RunTargets, OperatorMovesRun(to) PROVE RestTyped'
    <3>1. /\ TransitionRun(to) /\ asks' \in 0..MaxAsks /\ torn' \subseteq torn \cup {"phase"}
          /\ UNCHANGED <<activePlan, frame, session, submitted, inFlight, chosen>>
      BY <1>1, <2>3, OperatorMovesRunStep
    <3>2. RunTyped'  BY <1>4, <3>1
    <3>3. torn' \subseteq HistoryMarks  BY <1>3, <3>1 DEF HistoryMarks
    <3> QED  BY <1>3, <3>1, <3>2, <3>3 DEF RestTyped
  <2>4. ASSUME NEW p \in Plans, OperatorResolves(p) \/ OperatorRetries(p) PROVE RestTyped'
    <3>1. /\ asks' \in 0..MaxAsks
          /\ UNCHANGED <<phase, suspendedFrom, activePlan, frame, session, submitted, inFlight, sweeping, torn, chosen>>
      BY <1>1, <2>4, OperatorResolvesStep, OperatorRetriesStep
    <3> QED  BY <1>3, <3>1 DEF RestTyped, RunTyped
  <2>5. CASE Restart
    <3>1. /\ UNCHANGED <<phase, suspendedFrom, activePlan, chosen>> /\ asks' \in 0..MaxAsks
          /\ frame' \in [Callers -> Frames] /\ session' \in [Coordinators -> SessionStates]
          /\ submitted' \in [Coordinators -> Plans \cup {NoPlan}] /\ inFlight' = NoCaller /\ sweeping' = Nothing
          /\ torn' \subseteq torn \cup {"restart", "plans"}
      BY <1>1, <2>5, RestartStep
    <3>2. torn' \subseteq HistoryMarks  BY <1>3, <3>1 DEF HistoryMarks
    <3> QED  BY <1>3, <3>1, <3>2, ListsTyped DEF RestTyped, RunTyped
  <2> QED  BY <1>7, <1>11, <2>1, <2>2, <2>3, <2>4, <2>5 DEF Requests
<1> QED  BY <1>6, <1>7, <1>9, <1>10, <1>11 DEF Next, TaskSteps

LEMMA TypesKept ==
  ASSUME PlanIInv, Next
  PROVE  TypeOK' /\ suspendedFrom' \in ActivePhases \cup {NoPhase}
<1>1. plans' \in [Plans -> Records]
  <2>1. ASSUME NEW x \in Callers, Insert(x) PROVE plans' \in [Plans -> Records]
    BY <2>1, InsertStep DEF PlanIInv
  <2> QED  BY <2>1, PlansStep DEF PlansMove
<1>2. RestTyped'  BY RestTypedKept
<1>3. ActivePhases \subseteq Phases  BY DEF Phases
<1>4. spared' \subseteq Plans  BY SparedStep DEF PlanIInv, TypeOK
<1> QED  BY <1>1, <1>2, <1>3, <1>4 DEF TypeOK, RestTyped, RunTyped, Frames, Records, HistoryMarks

-----------------------------------------------------------------------------
(* The theorems *)

LEMMA PlanInit ==
  ASSUME Init
  PROVE  PlanIInv
<1>1. 1 \in Plans /\ NoPlan \notin Plans /\ MaxPlans \in Nat /\ MaxPlans >= 1
  BY PlanAssumptions DEF Plans, NoPlan
<1>2. frame = [x \in Callers |-> Idle] /\ \A x \in Callers : frame[x].pc = "idle"
  BY DEF Init, Idle
<1>3. Inserting = {} /\ Cardinality(Inserting) = 0
  BY <1>2, FS_EmptySet DEF Inserting
<1>4. \A x \in Callers : ~Acting(x) /\ ~Activating(x) /\ ~Pointing(x)
  BY <1>2 DEF Acting, Activating, Pointing, Unfinished
<1> DEFINE top == IF phase = "created" THEN 0 ELSE IF MaxPlans >= 2 /\ MaxReplans > 1 THEN 2 ELSE 1
<1>5. /\ plans \in [Plans -> Records]
      /\ top \in 0..MaxPlans
      /\ \A q \in Plans : plans[q].status # "absent" <=> q <= top
      /\ \A q \in Plans : q <= top => plans[q].version = q /\ plans[q].pattern \in Patterns
      /\ activePlan = NoPlan \/ (activePlan = 1 /\ top >= 1)
      /\ ActivePlans \subseteq {activePlan} /\ OpenTasks \subseteq {activePlan} \cup spared
      /\ activePlan # NoPlan => plans[activePlan].tasks # "none"
      /\ \A q \in Plans : plans[q].tasks # "none" => q \in chosen
      /\ top <= 1 \/ top <= MaxReplans
  <2>1. CASE phase = "created" /\ activePlan = NoPlan /\ plans = [p \in Plans |-> NoRecord]
    <3>1. \A q \in Plans : plans[q] = NoRecord  BY <2>1
    <3>2. NoRecord.status = "absent" /\ NoRecord.tasks = "none"  BY DEF NoRecord
    <3>3. top = 0 /\ \A q \in Plans : ~(q <= 0)  BY <2>1 DEF Plans
    <3>4. plans \in [Plans -> Records]  BY <2>1, NoRecordTyped
    <3>5. ActivePlans = {} /\ OpenTasks = {}  BY <3>1, <3>2 DEF ActivePlans, OpenTasks, OpenStatuses
    <3> HIDE DEF top
    <3> QED  BY <1>1, <2>1, <3>1, <3>2, <3>3, <3>4, <3>5
  <2>2. CASE phase = "executing" /\ activePlan = 1 /\ chosen = {1} /\ plans = Executing
    <3> DEFINE first == [NoRecord EXCEPT !.status = "active", !.version = 1,
                                         !.pattern = "orchestrated", !.tasks = "pending"]
               second == [NoRecord EXCEPT !.status = "draft", !.version = 2, !.pattern = "orchestrated"]
    <3>1. /\ first.status = "active" /\ first.version = 1 /\ first.pattern = "orchestrated" /\ first.tasks = "pending"
          /\ second.status = "draft" /\ second.version = 2 /\ second.pattern = "orchestrated" /\ second.tasks = "none"
          /\ NoRecord.status = "absent" /\ NoRecord.tasks = "none"
      BY DEF NoRecord
    <3>2. first \in Records
      <4>1. 1 \in 0..MaxPlans  BY <1>1
      <4> QED  BY <4>1, NoRecordTyped DEF Records, TaskStatuses, OpenStatuses, Patterns, PlanStatuses
    <3>3. 2 \in Plans => second \in Records
      <4>1. 2 \in Plans => 2 \in 0..MaxPlans  BY <1>1 DEF Plans
      <4> QED  BY <4>1, NoRecordTyped DEF Records, Patterns, PlanStatuses
    <3>4. /\ plans[1] = first
          /\ \A q \in Plans \ {1} : plans[q] = IF q = 2 /\ MaxReplans > 1 THEN second ELSE NoRecord
          /\ plans = [q \in Plans |-> IF q = 1 THEN first
                                      ELSE IF q = 2 /\ MaxReplans > 1 THEN second ELSE NoRecord]
      BY <1>1, <2>2 DEF Executing
    <3> HIDE DEF first, second
    <3>5. plans \in [Plans -> Records]
      BY <3>2, <3>3, <3>4, NoRecordTyped
    <3>6. top = (IF MaxPlans >= 2 /\ MaxReplans > 1 THEN 2 ELSE 1)  BY <2>2
    <3>7. \A q \in Plans : q \in 1..MaxPlans  BY DEF Plans
    <3> HIDE DEF top
    <3>8. top \in 0..MaxPlans /\ top >= 1 /\ (top <= 1 \/ top <= MaxReplans)
      BY <1>1, <3>6, PlanAssumptions
    <3>9. \A q \in Plans : q = 1 \/ (q = 2 /\ MaxReplans > 1) <=> q <= top
      BY <1>1, <3>6, <3>7, PlanAssumptions
    <3>10. \A q \in Plans : plans[q].status # "absent" <=> q <= top
      BY <3>1, <3>4, <3>9
    <3>11. \A q \in Plans : q <= top => plans[q].version = q /\ plans[q].pattern \in Patterns
      BY <3>1, <3>4, <3>9 DEF Patterns
    <3>12. \A q \in Plans \ {1} : plans[q].status # "active" /\ plans[q].tasks = "none"
      BY <3>1, <3>4
    <3>13. ActivePlans \subseteq {1} /\ OpenTasks \subseteq {1}  BY <3>12 DEF ActivePlans, OpenTasks, OpenStatuses
    <3>14. plans[1].tasks = "pending"  BY <3>1, <3>4
    <3> QED  BY <2>2, <3>5, <3>8, <3>10, <3>11, <3>12, <3>13, <3>14
  <2> QED  BY <2>1, <2>2 DEF Init
<1> HIDE DEF top
<1>6. top \in Nat /\ top <= MaxPlans  BY <1>1, <1>5
<1>7. Stored = 1..top
  <2>1. \A q \in Plans : q \in Nat /\ q >= 1  BY DEF Plans
  <2>2. 1..top \subseteq Plans  BY <1>1, <1>6 DEF Plans
  <2> QED  BY <1>5, <1>6, <2>1, <2>2 DEF Stored
<1>8. InPlaces  BY <1>5, <1>7 DEF InPlaces
<1>9. Cardinality(Stored) = top
  <2>1. \A i, j \in Int : Cardinality(i..j) = IF i > j THEN 0 ELSE j - i + 1  BY FS_Interval
  <2>2. 1 \in Int /\ top \in Int  BY <1>6
  <2>3. Cardinality(1..top) = IF 1 > top THEN 0 ELSE top - 1 + 1  BY <2>1, <2>2
  <2> QED  BY <1>6, <1>7, <2>3
<1>10. NumberedInPlace
  <2>1. \A p \in Stored : p \in Plans /\ p \in Nat /\ p >= 1 /\ p <= top  BY <1>6, <1>7 DEF Stored
  <2>2. \A p \in Stored : p \in 1..p  BY <2>1
  <2> QED  BY <1>5, <2>1, <2>2 DEF NumberedInPlace
<1>11. ActiveStored  BY <1>5, <1>6, <1>7 DEF ActiveStored
<1>12. FramesHold  BY <1>2 DEF FramesHold, FrameHolds, MovePcs
<1>13. RoomLeft  BY <1>3, <1>6, <1>9 DEF RoomLeft
<1>14. \A c \in Coordinators : session[c] = "off" /\ submitted[c] = NoPlan  BY DEF Init
<1>15. SessionsFollow  BY <1>2, <1>14 DEF SessionsFollow, SessionAt, Callers
<1>16. OneStarts /\ OneCoordination  BY <1>14 DEF OneStarts, OneCoordination
<1>17. GatedMoves  BY <1>2 DEF GatedMoves, MovePcs
<1>18. GateHolds  BY <1>5 DEF GateHolds
<1>19. NumbersInOrder
  <2>1. \A p \in Stored : plans[p].version = p  BY <1>5, <1>6, <1>7 DEF Stored
  <2>2. top <= IF MaxReplans = 0 THEN 1 ELSE MaxReplans  BY <1>5, <1>6, PlanAssumptions
  <2> QED  BY <1>3, <1>9, <2>1, <2>2 DEF NumbersInOrder
<1>20. OneActing  BY <1>2, <1>4, <1>5 DEF OneActing
<1>21. TasksFollow  BY <1>4, <1>5 DEF TasksFollow
<1>22. LooksHold  BY <1>2 DEF LooksHold
<1>23. TypeOK /\ suspendedFrom \in ActivePhases \cup {NoPhase}
  <2>1. /\ phase \in Phases /\ suspendedFrom = NoPhase /\ sweeping = Nothing /\ asks = 0 /\ torn = {}
        /\ inFlight = NoCaller /\ chosen \subseteq Plans /\ activePlan \in Plans \cup {NoPlan}
    BY <1>1 DEF Init, Phases, ActivePhases
  <2>2. frame \in [Callers -> Frames]  BY <1>2, IdleTyped
  <2>3. session \in [Coordinators -> SessionStates] /\ submitted \in [Coordinators -> Plans \cup {NoPlan}]
    BY DEF Init, SessionStates
  <2>4. RestTyped  BY <2>1, <2>2, <2>3, PlanAssumptions, ListsTyped DEF RestTyped, RunTyped, HistoryMarks
  <2>5. spared \subseteq Plans  BY DEF Init
  <2> QED  BY <1>5, <2>4, <2>5, TypesTogether
<1> QED  BY <1>8, <1>10, <1>11, <1>12, <1>13, <1>15, <1>16, <1>17, <1>18, <1>19, <1>20, <1>21, <1>22, <1>23
         DEF PlanIInv

\* A step that changes nothing keeps it.
LEMMA PlanStutters ==
  ASSUME PlanIInv, UNCHANGED vars
  PROVE  PlanIInv'
<1>1. UNCHANGED <<phase, suspendedFrom, activePlan, plans, frame, session, submitted, inFlight,
                  sweeping, asks, torn, chosen, spared>>
  BY DEF vars, runVars, coordVars
<1>2. /\ TypeOK' /\ suspendedFrom' \in ActivePhases \cup {NoPhase}
      /\ InPlaces' /\ NumberedInPlace' /\ ActiveStored' /\ RoomLeft' /\ OneStarts' /\ OneCoordination'
  BY <1>1 DEF PlanIInv, TypeOK, InPlaces, NumberedInPlace, ActiveStored, RoomLeft, OneStarts,
              OneCoordination, Stored, Inserting
<1>3. FramesHold' /\ SessionsFollow'
  BY <1>1 DEF PlanIInv, FramesHold, FrameHolds, SessionsFollow, SessionAt, Stored
<1>4. GatedMoves' /\ GateHolds' /\ NumbersInOrder'
  BY <1>1 DEF PlanIInv, GatedMoves, GateHolds, NumbersInOrder, PlanGated, MayReplan, Inserting, Stored
<1>5. OneActing'
  BY <1>1 DEF PlanIInv, OneActing, Undisturbed, Acting, Activating, Pointing, Unfinished, ActivePlans
<1>6. TasksFollow' /\ LooksHold'
  BY <1>1 DEF PlanIInv, TasksFollow, Undisturbed, Activating, Unfinished, OpenTasks, LooksHold, Standing,
              FollowPhase
<1> QED  BY <1>2, <1>3, <1>4, <1>5, <1>6 DEF PlanIInv

\* What the awaits of the calls know holds after every step.
THEOREM PlanIInvHolds == Spec => []PlanIInv
<1>1. Init => PlanIInv  BY PlanInit
<1>2. PlanIInv /\ [Next]_vars => PlanIInv'
  <2>1. ASSUME PlanIInv, Next PROVE PlanIInv'
    <3>1. TypeOK' /\ suspendedFrom' \in ActivePhases \cup {NoPhase}  BY <2>1, TypesKept
    <3>2. InPlaces' /\ NumberedInPlace'  BY <2>1, InPlacesKept
    <3>3. ActiveStored' /\ FramesHold' /\ RoomLeft' /\ SessionsFollow'
      BY <2>1, ActiveStoredKept, FramesHoldKept, RoomLeftKept, SessionsFollowKept
    <3>4. OneStarts' /\ OneCoordination' /\ GatedMoves' /\ GateHolds' /\ NumbersInOrder'
      BY <2>1, OneCoordinationKept, GatedMovesKept, GateHoldsKept, NumbersInOrderKept
    <3>5. OneActing' /\ TasksFollow' /\ LooksHold'
      BY <2>1, OneActingKept, TasksFollowKept, LooksHoldKept
    <3> QED  BY <3>1, <3>2, <3>3, <3>4, <3>5 DEF PlanIInv
  <2> QED  BY <2>1, PlanStutters
<1> QED  BY <1>1, <1>2, PTL DEF Spec

LEMMA PlanIInvImplies ==
  ASSUME PlanIInv
  PROVE  PlansInv
<1>1. ActivePlanNamed
  <2>1. ASSUME "plans" \notin torn, ~\E x \in Callers : frame[x].pc \in {"retirePrior", "point"},
               NEW p \in Plans, plans[p].status = "active"
        PROVE  activePlan = p
    <3>1. Undisturbed /\ \A x \in Callers : ~Pointing(x)  BY <2>1 DEF Undisturbed, Pointing
    <3>2. ActivePlans \subseteq {activePlan}  BY <3>1 DEF PlanIInv, OneActing
    <3> QED  BY <2>1, <3>2 DEF ActivePlans
  <2> QED  BY <2>1 DEF ActivePlanNamed
<1>2. TasksOfActivePlan
  <2>1. ASSUME "plans" \notin torn, Settled, activePlan # NoPlan
        PROVE  /\ OpenTasks \subseteq {activePlan} \cup spared
               /\ plans[activePlan].pattern = "orchestrated" => plans[activePlan].tasks # "none"
    <3>1. \A x \in Callers : ~Activating(x)  BY <2>1 DEF Settled, At, Activating, Unfinished
    <3> QED  BY <2>1, <3>1 DEF PlanIInv, TasksFollow, Undisturbed
  <2> QED  BY <2>1 DEF TasksOfActivePlan
<1>3. VersionsInOrder
  BY DEF PlanIInv, NumbersInOrder, VersionsInOrder
<1> QED  BY <1>1, <1>2, <1>3 DEF PlanIInv, PlansInv

\* Whatever the calls, sessions, cancellations and restarts interleave to: the
\* active plan is the one the run names, the open tasks are its own, no task
\* of a gated plan exists before the operator chose it, the version numbers of
\* the chain stay apart and within the replan budget, and one coordination is
\* at work -- except for what overlapped or was cut short, as each part says.
THEOREM PlansInvHolds == Spec => []PlansInv
<1>1. Spec => []PlanIInv  BY PlanIInvHolds
<1>2. PlanIInv => PlansInv  BY PlanIInvImplies
<1> QED  BY <1>1, <1>2, PTL

LEMMA StayOverStep ==
  ASSUME PlanIInv, Next
  PROVE  PlansStayOver
<1>1. CASE PlansMove
  BY <1>1 DEF PlansMove, PlansStayOver, PlanEdges, TerminalPlanStatuses
<1>2. ASSUME NEW x \in Callers, Insert(x) PROVE PlansStayOver
  <2>1. \A q \in Stored : plans'[q] = plans[q]  BY <1>2, StoredGrows
  <2> QED  BY <2>1 DEF PlansStayOver, Stored, TerminalPlanStatuses
<1> QED  BY <1>1, <1>2, PlansStep

LEMMA ResumesStep ==
  ASSUME PlanIInv, Next
  PROVE  OperatorResumes
<1>1. /\ TypeOK /\ FramesHold /\ SessionsFollow /\ InPlaces /\ NumberedInPlace /\ RoomLeft
      /\ LooksHold /\ phase \in Phases /\ suspendedFrom \in ActivePhases \cup {NoPhase}
  BY DEF PlanIInv, TypeOK
<1>2. SUFFICES ASSUME torn \cap {"phase", "sessions"} = {}, phase \in SuspendedPhases, phase' \in ActivePhases
               PROVE  asks' > asks
  BY DEF OperatorResumes
<1>3. phase' # phase  BY <1>2 DEF SuspendedPhases, ActivePhases
<1>4. \A x \in Callers :
        /\ frame[x].pc = "start" => phase = "created"
        /\ frame[x].pc = "phase" => suspendedFrom # FollowPhase(frame[x].to)
  BY <1>1, <1>2 DEF LooksHold, Standing
<1>5. ASSUME NEW x \in Callers, CouplePhase(x) PROVE FALSE
  <2>1. frame[x].pc = "phase" /\ TransitionRun(FollowPhase(frame[x].to))  BY <1>1, <1>5, CouplePhaseStep
  <2>2. phase' = FollowPhase(frame[x].to) /\ CanMove(phase, suspendedFrom, phase')
    BY <1>3, <2>1, FollowMoves
  <2>3. phase' = suspendedFrom  BY <1>2, <2>2 DEF CanMove, ActivePhases
  <2> QED  BY <1>4, <2>1, <2>2, <2>3
<1>6. ASSUME NEW c \in Coordinators, StartPlanning(c) PROVE FALSE
  <2>1. c \in Callers /\ frame[c].pc = "start"  BY <1>1, <1>6, StartPlanningStep DEF Callers
  <2> QED  BY <1>2, <1>4, <2>1 DEF SuspendedPhases
<1>7. ASSUME NEW c \in Coordinators, Block(c) PROVE FALSE
  BY <1>1, <1>2, <1>3, <1>7, BlockStep DEF TransitionRun, ActivePhases
<1>8. ASSUME NEW to \in RunTargets, OperatorMovesRun(to) PROVE asks' > asks
  BY <1>1, <1>8, OperatorMovesRunStep
<1>9. ~LooksCalm  BY <1>3 DEF LooksCalm
<1> QED  BY <1>5, <1>6, <1>7, <1>8, <1>9, PhaseStep DEF MovesPhase

\* No late caller undoes a decision: a plan that is over stays over, whoever
\* read it before, and a run the operator paused or a session blocked goes on
\* only by a request of the operator, unless the looks of two calls crossed.
THEOREM DecisionsStandHolds == Spec => DecisionsStand
<1>1. Spec => []PlanIInv  BY PlanIInvHolds
<1>2. PlanIInv /\ [Next]_vars => [PlansStayOver /\ OperatorResumes]_vars
  BY StayOverStep, ResumesStep
<1> QED  BY <1>1, <1>2, PTL DEF Spec, DecisionsStand

-----------------------------------------------------------------------------
(* What a plan may hold *)

\* A set of numbers has a smallest one.
LEMMA SmallestNumber ==
  ASSUME NEW T, T \subseteq Nat, T # {}
  PROVE  \E x \in T : \A y \in T : x <= y
<1>1. IsWellFoundedOn(OpToRel(<, Nat), Nat)  BY NatLessThanWellFounded
<1>2. \E x \in T : \A y \in T : ~(<<y, x>> \in OpToRel(<, Nat))  BY <1>1, WFMin
<1>3. PICK x \in T : \A y \in T : ~(<<y, x>> \in OpToRel(<, Nat))  BY <1>2, Zenon
<1>4. ASSUME NEW y \in T, y < x PROVE FALSE
  <2>1. <<y, x>> \in Nat \X Nat  OBVIOUS
  <2>2. <<y, x>>[1] < <<y, x>>[2]  BY <1>4
  <2>3. <<y, x>> \in OpToRel(<, Nat)  BY <2>1, <2>2, Zenon DEF OpToRel
  <2> QED  BY <1>3, <2>3, Zenon
<1> QED  BY <1>4

-----------------------------------------------------------------------------
(* The check of a graph *)

\* The outcome of the first rounds, up to the last one.
RoundsTo(graph, last, after) ==
  after = [round \in 0..last |->
             IF round = 0 THEN [left |-> DOMAIN graph, degree |-> [k \in DOMAIN graph |-> Len(graph[k])]]
             ELSE Peeled(graph, after[round - 1])]

\* The rounds have an outcome, whatever the graph.
LEMMA RoundsExist ==
  ASSUME NEW graph, NEW n \in Nat
  PROVE  \E after : RoundsTo(graph, n, after)
<1> DEFINE Bad == {m \in Nat : ~\E after : RoundsTo(graph, m, after)}
<1>1. SUFFICES ASSUME Bad # {} PROVE FALSE  OBVIOUS
<1>2. PICK m \in Bad : \A y \in Bad : m <= y
  <2>1. Bad \subseteq Nat  OBVIOUS
  <2> HIDE DEF Bad
  <2> QED  BY <1>1, <2>1, SmallestNumber
<1>3. m \in Nat /\ ~\E after : RoundsTo(graph, m, after)  OBVIOUS
<1>4. m # 0
  <2> DEFINE start == [left |-> DOMAIN graph, degree |-> [k \in DOMAIN graph |-> Len(graph[k])]]
  <2> DEFINE f == [round \in 0..0 |-> start]
  <2> HIDE DEF start
  <2>1. f = [round \in 0..0 |-> IF round = 0 THEN start ELSE Peeled(graph, f[round - 1])]  OBVIOUS
  <2>2. RoundsTo(graph, 0, f)  BY <2>1 DEF RoundsTo, start
  <2> HIDE DEF f
  <2> QED  BY <1>3, <2>2
<1>5. m - 1 \in Nat /\ m - 1 \notin Bad  BY <1>2, <1>3, <1>4
<1>6. PICK g : RoundsTo(graph, m - 1, g)  BY <1>5
<1> HIDE DEF Bad
<1> DEFINE f == [round \in 0..m |-> IF round = m THEN Peeled(graph, g[m - 1]) ELSE g[round]]
<1> DEFINE start == [left |-> DOMAIN graph, degree |-> [k \in DOMAIN graph |-> Len(graph[k])]]
<1>7. g = [round \in 0..(m - 1) |-> IF round = 0 THEN start ELSE Peeled(graph, g[round - 1])]
  BY <1>6 DEF RoundsTo
<1> HIDE DEF start
<1>8. ASSUME NEW round \in 0..m PROVE f[round] = IF round = 0 THEN start ELSE Peeled(graph, f[round - 1])
  <2>1. CASE round = m  BY <1>3, <1>4, <2>1
  <2>2. CASE round = 0  BY <1>3, <1>4, <1>7, <2>2
  <2>3. CASE round # m /\ round # 0
    <3>1. f[round] = g[round] /\ f[round - 1] = g[round - 1]  BY <1>3, <2>3
    <3>2. round \in 0..(m - 1)  BY <1>3, <2>3
    <3>3. g[round] = Peeled(graph, g[round - 1])  BY <1>7, <2>3, <3>2
    <3> QED  BY <2>3, <3>1, <3>3
  <2> QED  BY <2>1, <2>2, <2>3
<1>9. f = [round \in 0..m |-> IF round = 0 THEN start ELSE Peeled(graph, f[round - 1])]
  <2>1. f = [round \in 0..m |-> f[round]]  OBVIOUS
  <2> HIDE DEF f
  <2> QED  BY <1>8, <2>1
<1>10. RoundsTo(graph, m, f)  BY <1>9 DEF RoundsTo, start
<1> QED  BY <1>3, <1>10

LEMMA RoundsAre ==
  ASSUME NEW graph \in Seq(Seq(Nat))
  PROVE  RoundsTo(graph, Len(graph), Rounds(graph))
<1> DEFINE after == CHOOSE after : RoundsTo(graph, Len(graph), after)
<1>1. Rounds(graph) = after  BY DEF Rounds, RoundsTo
<1>2. Len(graph) \in Nat  OBVIOUS
<1>3. \E f : RoundsTo(graph, Len(graph), f)  BY <1>2, RoundsExist
<1>4. RoundsTo(graph, Len(graph), after)  BY <1>3, Zenon
<1> QED  BY <1>1, <1>4

\* The count of a task is what it needs of the tasks that are left.
Counted(graph, s) ==
  /\ s.left \subseteq DOMAIN graph
  /\ \A k \in s.left : s.degree[k] = Among(graph[k], s.left)

Knows(graph) == \A k \in DOMAIN graph : Needs(graph[k]) \subseteq DOMAIN graph

LEMMA ElementOf ==
  ASSUME NEW S, NEW q \in Seq(S), NEW k \in 1..Len(q)
  PROVE  q[k] \in S
OBVIOUS

LEMMA CountTo ==
  ASSUME NEW n \in Nat
  PROVE  IsFiniteSet(1..n) /\ Cardinality(1..n) = n
<1>1. 1 \in Int /\ n \in Int  OBVIOUS
<1>2. IsFiniteSet(1..n) /\ Cardinality(1..n) = IF 1 > n THEN 0 ELSE n - 1 + 1  BY <1>1, FS_Interval
<1> QED  BY <1>2

LEMMA AmongPositions ==
  ASSUME NEW dependencies \in Seq(Nat), NEW done
  PROVE  /\ IsFiniteSet({d \in DOMAIN dependencies : dependencies[d] \in done})
         /\ Among(dependencies, done) \in Nat
         /\ Among(dependencies, done) = 0 <=> Needs(dependencies) \cap done = {}
         /\ Needs(dependencies) \subseteq done => Among(dependencies, done) = Len(dependencies)
<1> DEFINE places == {d \in DOMAIN dependencies : dependencies[d] \in done}
<1>1. DOMAIN dependencies = 1..Len(dependencies) /\ Len(dependencies) \in Nat  OBVIOUS
<1>2. IsFiniteSet(DOMAIN dependencies) /\ Cardinality(DOMAIN dependencies) = Len(dependencies)
  BY <1>1, CountTo
<1>3. places \subseteq DOMAIN dependencies  OBVIOUS
<1>4. IsFiniteSet(places) /\ Cardinality(places) \in Nat  BY <1>2, <1>3, FS_Subset, FS_CardinalityType
<1>5. Among(dependencies, done) = Cardinality(places)  BY DEF Among
<1>6. places = {} <=> Needs(dependencies) \cap done = {}  BY DEF Needs
<1>7. Needs(dependencies) \subseteq done => places = DOMAIN dependencies  BY DEF Needs
<1> HIDE DEF places
<1>8. Cardinality(places) = 0 <=> places = {}  BY <1>4, FS_EmptySet
<1>9. IsFiniteSet({d \in DOMAIN dependencies : dependencies[d] \in done})  BY <1>4 DEF places
<1> QED  BY <1>2, <1>4, <1>5, <1>6, <1>7, <1>8, <1>9

\* What is needed of a set less some of its elements.
LEMMA AmongFewer ==
  ASSUME NEW dependencies \in Seq(Nat), NEW left, NEW ready \in SUBSET left
  PROVE  Among(dependencies, left \ ready) = Among(dependencies, left) - Among(dependencies, ready)
<1> DEFINE at(done) == {d \in DOMAIN dependencies : dependencies[d] \in done}
<1>1. at(left \ ready) = at(left) \ at(ready) /\ at(left) \cap at(ready) = at(ready)  OBVIOUS
<1>2. IsFiniteSet(at(left))  BY AmongPositions
<1>3. Cardinality(at(left) \ at(ready)) = Cardinality(at(left)) - Cardinality(at(left) \cap at(ready))
  <2> HIDE DEF at
  <2> QED  BY <1>2, FS_Difference
<1> QED  BY <1>1, <1>3 DEF Among

Ready(graph, s) == {k \in s.left : Needs(graph[k]) \cap s.left = {}}

LEMMA PeeledCounted ==
  ASSUME NEW graph \in Seq(Seq(Nat)), NEW s, Counted(graph, s)
  PROVE  /\ Counted(graph, Peeled(graph, s))
         /\ Peeled(graph, s).left = s.left \ Ready(graph, s)
<1>1. \A k \in DOMAIN graph : graph[k] \in Seq(Nat)  OBVIOUS
<1> DEFINE ready == {k \in s.left : s.degree[k] = 0}
<1>2. ready = Ready(graph, s)
  <2>1. \A k \in s.left : s.degree[k] = 0 <=> Needs(graph[k]) \cap s.left = {}
    BY <1>1, AmongPositions DEF Counted
  <2> QED  BY <2>1 DEF Ready
<1>3. Peeled(graph, s).left = s.left \ ready  BY DEF Peeled
<1>4. ASSUME NEW k \in s.left \ ready
      PROVE  Peeled(graph, s).degree[k] = Among(graph[k], s.left \ ready)
  <2>1. k \in DOMAIN graph /\ s.degree[k] = Among(graph[k], s.left)  BY DEF Counted
  <2>2. Peeled(graph, s).degree[k] = s.degree[k] - Among(graph[k], ready)  BY <2>1 DEF Peeled
  <2>3. ready \in SUBSET s.left /\ graph[k] \in Seq(Nat)  BY <1>1, <2>1
  <2> HIDE DEF ready
  <2>4. Among(graph[k], s.left \ ready) = Among(graph[k], s.left) - Among(graph[k], ready)  BY <2>3, AmongFewer
  <2> QED  BY <2>1, <2>2, <2>4
<1> HIDE DEF ready
<1>5. s.left \ ready \subseteq DOMAIN graph  BY DEF Counted
<1> QED  BY <1>2, <1>3, <1>4, <1>5 DEF Counted

\* Every round counts right, when no task needs one that is unknown.
LEMMA RoundsCounted ==
  ASSUME NEW graph \in Seq(Seq(Nat)), Knows(graph)
  PROVE  \A r \in 0..Len(graph) : Counted(graph, Rounds(graph)[r])
<1> DEFINE after == Rounds(graph)
<1> DEFINE n == Len(graph)
<1>1. n \in Nat /\ RoundsTo(graph, n, after)  BY RoundsAre
<1> HIDE DEF n, after
<1> DEFINE Bad == {r \in 0..n : ~Counted(graph, after[r])}
<1>2. SUFFICES ASSUME Bad # {} PROVE FALSE  BY DEF n, after
<1>3. PICK m \in Bad : \A y \in Bad : m <= y
  <2>1. Bad \subseteq Nat  BY <1>1
  <2> HIDE DEF Bad
  <2> QED  BY <1>2, <2>1, SmallestNumber
<1>4. m \in 0..n /\ ~Counted(graph, after[m])  OBVIOUS
<1>5. CASE m = 0
  <2>1. after[0] = [left |-> DOMAIN graph, degree |-> [k \in DOMAIN graph |-> Len(graph[k])]]
    BY <1>1, <1>4, <1>5 DEF RoundsTo
  <2>2. \A k \in DOMAIN graph : Len(graph[k]) = Among(graph[k], DOMAIN graph)
    <3>1. \A k \in DOMAIN graph : graph[k] \in Seq(Nat) /\ Needs(graph[k]) \subseteq DOMAIN graph  BY DEF Knows
    <3> QED  BY <3>1, AmongPositions
  <2> QED  BY <1>4, <1>5, <2>1, <2>2 DEF Counted
<1>6. CASE m # 0
  <2>1. m - 1 \in 0..n /\ m - 1 \notin Bad  BY <1>1, <1>3, <1>4, <1>6
  <2>2. Counted(graph, after[m - 1])  BY <2>1
  <2>3. after[m] = Peeled(graph, after[m - 1])  BY <1>1, <1>4, <1>6 DEF RoundsTo
  <2> QED  BY <1>4, <2>2, <2>3, PeeledCounted
<1> QED  BY <1>5, <1>6

LEMMA RoundsPeel ==
  ASSUME NEW graph \in Seq(Seq(Nat)), Knows(graph), NEW r \in 1..Len(graph)
  PROVE  Rounds(graph)[r].left = Rounds(graph)[r - 1].left \ Ready(graph, Rounds(graph)[r - 1])
<1>1. RoundsTo(graph, Len(graph), Rounds(graph)) /\ Len(graph) \in Nat  BY RoundsAre
<1>2. r \in 0..Len(graph) /\ r # 0 /\ r - 1 \in 0..Len(graph)  BY <1>1
<1>4. Rounds(graph)[r] = Peeled(graph, Rounds(graph)[r - 1])
  <2> DEFINE after == Rounds(graph)
  <2> HIDE DEF after
  <2>1. RoundsTo(graph, Len(graph), after)  BY <1>1 DEF after
  <2>2. after[r] = Peeled(graph, after[r - 1])  BY <1>2, <2>1 DEF RoundsTo
  <2> QED  BY <2>2 DEF after
<1>3. Counted(graph, Rounds(graph)[r - 1])  BY <1>2, RoundsCounted
<1> QED  BY <1>3, <1>4, PeeledCounted

LEMMA RoundsBegin ==
  ASSUME NEW graph \in Seq(Seq(Nat))
  PROVE  Rounds(graph)[0].left = DOMAIN graph
BY RoundsAre DEF RoundsTo

\* A round takes a task off as long as any are left that could go.
LEMMA RoundsShrink ==
  ASSUME NEW graph \in Seq(Seq(Nat)), Knows(graph), Acyclic(graph)
  PROVE  Unresolved(graph) = {}
<1> DEFINE n == Len(graph)
<1> DEFINE left(r) == Rounds(graph)[r].left
<1> DEFINE Size(r) == Cardinality(left(r))
<1>1. n \in Nat /\ DOMAIN graph = 1..n  OBVIOUS
<1>2. IsFiniteSet(DOMAIN graph) /\ Cardinality(DOMAIN graph) = n  BY <1>1, CountTo
<1>3. \A r \in 0..n : left(r) \subseteq DOMAIN graph  BY RoundsCounted DEF Counted
<1>4. ASSUME NEW r \in 0..n PROVE IsFiniteSet(left(r)) /\ Size(r) \in Nat
  <2>1. left(r) \in SUBSET DOMAIN graph  BY <1>3
  <2> HIDE DEF left
  <2> QED  BY <1>2, <2>1, FS_Subset, FS_CardinalityType
<1>5. Unresolved(graph) = left(n)  BY DEF Unresolved
<1>6. left(0) = DOMAIN graph  BY RoundsBegin
<1>7. ASSUME NEW r \in 1..n, left(r - 1) # {} PROVE Size(r) < Size(r - 1)
  <2>1. r - 1 \in 0..n /\ r \in 0..n  BY <1>1
  <2>2. left(r) = left(r - 1) \ Ready(graph, Rounds(graph)[r - 1])  BY <1>1, RoundsPeel
  <2>3. left(r - 1) \in (SUBSET DOMAIN graph) \ {{}}  BY <1>3, <1>7, <2>1
  <2>4. PICK k \in left(r - 1) : Needs(graph[k]) \cap left(r - 1) = {}  BY <2>3 DEF Acyclic
  <2>5. k \in Ready(graph, Rounds(graph)[r - 1])  BY <2>4 DEF Ready
  <2>6. left(r) \in SUBSET left(r - 1) /\ left(r) # left(r - 1)  BY <2>2, <2>4, <2>5
  <2>7. IsFiniteSet(left(r - 1)) /\ Size(r) \in Nat /\ Size(r - 1) \in Nat  BY <1>4, <2>1
  <2> HIDE DEF left
  <2>8. Cardinality(left(r)) <= Cardinality(left(r - 1)) /\ Cardinality(left(r)) # Cardinality(left(r - 1))
    BY <2>6, <2>7, FS_Subset
  <2> QED  BY <2>7, <2>8
<1>8. \A r \in 1..n : left(r) \subseteq left(r - 1)  BY <1>1, RoundsPeel
<1> HIDE DEF left
<1> DEFINE Bad == {r \in 0..n : Size(r) > n - r}
<1>9. Bad = {}
  <2>1. SUFFICES ASSUME Bad # {} PROVE FALSE  OBVIOUS
  <2>2. PICK m \in Bad : \A y \in Bad : m <= y
    <3>1. Bad \subseteq Nat  BY <1>1
    <3> HIDE DEF Bad
    <3> QED  BY <2>1, <3>1, SmallestNumber
  <2>3. m \in 0..n /\ Size(m) > n - m  OBVIOUS
  <2>4. m # 0  BY <1>1, <1>2, <1>6, <2>3
  <2>5. m \in 1..n /\ m - 1 \in 0..n /\ m - 1 \notin Bad  BY <1>1, <2>2, <2>3, <2>4
  <2>6. Size(m - 1) <= n - (m - 1) /\ Size(m - 1) \in Nat /\ Size(m) \in Nat  BY <1>1, <1>4, <2>3, <2>5
  <2>7. CASE left(m - 1) # {}  BY <1>1, <1>7, <2>3, <2>5, <2>6, <2>7
  <2>8. CASE left(m - 1) = {}
    <3>1. left(m) = {}  BY <1>8, <2>5, <2>8
    <3>2. Size(m) = 0  BY <3>1, FS_EmptySet
    <3> QED  BY <1>1, <2>3, <3>2
  <2> QED  BY <2>7, <2>8
<1>10. Size(n) \in Nat /\ Size(n) <= 0 /\ IsFiniteSet(left(n))  BY <1>1, <1>4, <1>9
<1> QED  BY <1>5, <1>10, FS_EmptySet

\* When no task is left, any tasks had one that could go first.
LEMMA ResolvedAcyclic ==
  ASSUME NEW graph \in Seq(Seq(Nat)), Knows(graph), Unresolved(graph) = {}
  PROVE  Acyclic(graph)
<1> DEFINE n == Len(graph)
<1> DEFINE left(r) == Rounds(graph)[r].left
<1>1. n \in Nat /\ DOMAIN graph = 1..n  OBVIOUS
<1>2. left(n) = {}  BY DEF Unresolved
<1>3. left(0) = DOMAIN graph  BY RoundsBegin
<1>4. SUFFICES ASSUME NEW tasks \in SUBSET DOMAIN graph, tasks # {}
               PROVE  \E k \in tasks : Needs(graph[k]) \cap tasks = {}
  BY DEF Acyclic
<1>5. \A r \in 1..n : left(r) = left(r - 1) \ Ready(graph, Rounds(graph)[r - 1])  BY <1>1, RoundsPeel
<1> HIDE DEF left, n
<1> DEFINE Gone == {r \in 0..n : ~(tasks \subseteq left(r))}
<1>6. PICK m \in Gone : \A y \in Gone : m <= y
  <2>1. n \in Gone  BY <1>1, <1>2, <1>4
  <2>2. Gone \subseteq Nat  BY <1>1
  <2> HIDE DEF Gone
  <2> QED  BY <2>1, <2>2, SmallestNumber
<1>7. m \in 0..n /\ ~(tasks \subseteq left(m)) /\ m # 0  BY <1>3
<1>8. m \in 1..n /\ m - 1 \in 0..n /\ tasks \subseteq left(m - 1)  BY <1>1, <1>6, <1>7
<1>9. PICK k \in tasks : k \notin left(m)  BY <1>7
<1>10. k \in Ready(graph, Rounds(graph)[m - 1])  BY <1>5, <1>8, <1>9
<1>11. Needs(graph[k]) \cap left(m - 1) = {}  BY <1>10 DEF Ready, left
<1> QED  BY <1>8, <1>9, <1>11

LEMMA GraphCheckExact ==
  ASSUME NEW graph \in Seq(Seq(Nat))
  PROVE  ValidGraph(graph) <=> Knows(graph) /\ Acyclic(graph)
<1>1. ASSUME ValidGraph(graph) PROVE Knows(graph) /\ Acyclic(graph)
  <2>1. Knows(graph) /\ Unresolved(graph) = {}  BY <1>1 DEF ValidGraph, Knows
  <2> QED  BY <2>1, ResolvedAcyclic
<1>2. ASSUME Knows(graph), Acyclic(graph) PROVE ValidGraph(graph)
  <2>1. Unresolved(graph) = {}  BY <1>2, RoundsShrink
  <2>2. ASSUME NEW k \in DOMAIN graph PROVE Needs(graph[k]) \subseteq DOMAIN graph \ {k}
    <3>1. {k} \in (SUBSET DOMAIN graph) \ {{}}  OBVIOUS
    <3>2. Needs(graph[k]) \cap {k} = {}  BY <1>2, <3>1 DEF Acyclic
    <3> QED  BY <1>2, <3>2 DEF Knows
  <2> QED  BY <2>1, <2>2 DEF ValidGraph
<1> QED  BY <1>1, <1>2

\* A graph whose tasks need earlier ones only has no cycle.
LEMMA EarlierIsAcyclic ==
  ASSUME NEW graph \in Seq(Seq(Nat)),
         \A k \in DOMAIN graph : \A d \in DOMAIN graph[k] : MayDepend(k, graph[k][d])
  PROVE  ValidGraph(graph)
<1>1. \A k \in DOMAIN graph : k \in Nat /\ \A e \in Needs(graph[k]) : e \in DOMAIN graph /\ e < k
  BY DEF Needs, MayDepend
<1>2. Knows(graph)  BY <1>1 DEF Knows
<1>3. Acyclic(graph)
  <2>1. SUFFICES ASSUME NEW tasks \in SUBSET DOMAIN graph, tasks # {}
                 PROVE  \E k \in tasks : Needs(graph[k]) \cap tasks = {}
    BY DEF Acyclic
  <2>2. tasks \subseteq Nat  BY <1>1
  <2>3. PICK k \in tasks : \A y \in tasks : k <= y  BY <2>1, <2>2, SmallestNumber
  <2>4. \A e \in Needs(graph[k]) : e \notin tasks  BY <1>1, <2>2, <2>3
  <2> QED  BY <2>4
<1> QED  BY <1>2, <1>3, GraphCheckExact

-----------------------------------------------------------------------------
(* What an accepted plan is made into *)

LEMMA AcceptedStorable ==
  ASSUME NEW plan \in Submissions, Submitted(plan), NEW k \in DOMAIN Planned(plan)
  PROVE  StorableTask(Planned(plan)[k])
<1> DEFINE t == plan.tasks[k]
<1>1. k \in DOMAIN plan.tasks /\ Planned(plan)[k] = PlannedTask(k, t)  BY DEF Planned
<1>2. plan.tasks \in Seq([title : STRING, description : STRING, role : STRING,
                          criteria : Seq(STRING), dependencies : Seq(Nat)])
  BY ContentConstants
<1>3. k \in Nat \ {0}  BY <1>1, <1>2
<1>4. TaskAccepted(plan.tasks, k)  BY <1>1 DEF Submitted
<1> HIDE DEF t
<1>5. /\ Given(t.title) /\ Given(t.description) /\ Criteria(t.criteria)
      /\ \A d \in DOMAIN t.dependencies : MayDepend(k, t.dependencies[d])
  BY <1>4 DEF TaskAccepted, t
<1>6. \A d \in DOMAIN t.dependencies : t.dependencies[d] # 0  BY <1>3, <1>5 DEF MayDepend
<1>7. NoneBlank(t.criteria)  BY <1>5 DEF Criteria, Given, NoneBlank
<1> DEFINE made == PlannedTask(k, t)
<1>8. /\ made.id = k /\ made.title = t.title /\ made.description = t.description
      /\ made.role = {t.role} \ {""} /\ made.dependencies = t.dependencies /\ made.criteria = t.criteria
  BY DEF PlannedTask
<1> HIDE DEF made
<1>9. k # 0 /\ t.title # "" /\ t.description # ""  BY <1>3, <1>5 DEF Given
<1>10. StorableTask(made)  BY <1>6, <1>7, <1>8, <1>9 DEF StorableTask
<1> QED  BY <1>1, <1>10 DEF made, t

LEMMA ContentInvHolds == ContentInv
<1>1. GraphCheckIsExact
  <2>1. \A graph \in TaskGraphs : graph \in Seq(Seq(Nat))  BY ContentConstants
  <2> QED  BY <2>1, GraphCheckExact DEF GraphCheckIsExact, Knows
<1>2. ASSUME NEW plan \in Submissions, Submitted(plan)
      PROVE  ValidGraph([k \in DOMAIN Planned(plan) |-> Planned(plan)[k].dependencies])
  <2> DEFINE graph == [k \in DOMAIN Planned(plan) |-> Planned(plan)[k].dependencies]
  <2>1. plan.tasks \in Seq([title : STRING, description : STRING, role : STRING,
                            criteria : Seq(STRING), dependencies : Seq(Nat)])
    BY ContentConstants
  <2>2. /\ DOMAIN Planned(plan) = DOMAIN plan.tasks
        /\ \A k \in DOMAIN plan.tasks : Planned(plan)[k].dependencies = plan.tasks[k].dependencies
    BY DEF Planned, PlannedTask
  <2>3. /\ graph = [k \in DOMAIN plan.tasks |-> plan.tasks[k].dependencies]
        /\ \A k \in DOMAIN plan.tasks : TaskAccepted(plan.tasks, k)
    BY <1>2, <2>2 DEF Submitted
  <2> HIDE DEF graph
  <2>4. graph \in Seq(Seq(Nat))
    <3> DEFINE n == Len(plan.tasks)
    <3>1. n \in Nat /\ DOMAIN plan.tasks = 1..n  BY <2>1
    <3>2. ASSUME NEW k \in 1..n PROVE plan.tasks[k].dependencies \in Seq(Nat)
      <4> DEFINE t == plan.tasks[k]
      <4>1. t \in [title : STRING, description : STRING, role : STRING,
                   criteria : Seq(STRING), dependencies : Seq(Nat)]
        BY <2>1, ElementOf
      <4> HIDE DEF t
      <4>2. t.dependencies \in Seq(Nat)  BY <4>1
      <4> QED  BY <4>2 DEF t
    <3> HIDE DEF n
    <3>3. graph \in [1..n -> Seq(Nat)]  BY <2>3, <3>1, <3>2
    <3> QED  BY <3>1, <3>3
  <2>5. \A k \in DOMAIN graph : \A d \in DOMAIN graph[k] : MayDepend(k, graph[k][d])
    BY <2>3 DEF TaskAccepted
  <2>6. ValidGraph(graph)  BY <2>4, <2>5, EarlierIsAcyclic
  <2> QED  BY <2>6 DEF graph
<1>3. ASSUME NEW plan \in Submissions, Submitted(plan)
      PROVE  Storable(PlanRecord(plan)) <=> NoneBlank(plan.assumptions)
  <2>1. plan.rationale # "" /\ NoneBlank(plan.success) /\ (plan.later => plan.reason # "")
    BY <1>3 DEF Submitted, Given, Criteria, NoneBlank
  <2>2. \A k \in DOMAIN Planned(plan) : StorableTask(Planned(plan)[k])  BY <1>3, AcceptedStorable
  <2> QED  BY <2>1, <2>2 DEF Storable, PlanRecord
<1> QED  BY <1>1, <1>2, <1>3 DEF ContentInv, AcceptedPlanMaterializes

\* Whatever is submitted and whatever the calls do with it: the tables of plans,
\* runs and tasks agree as PlansInv says, the check of a graph of tasks refuses
\* exactly the graphs in which tasks would wait for ever, and what was accepted
\* as a plan can be made into tasks later and, if no assumption is blank, stored.
THEOREM PlanningInvHolds == Spec => []PlanningInv
<1>1. Spec => []PlansInv  BY PlansInvHolds
<1>2. PlansInv => PlanningInv  BY ContentInvHolds DEF PlanningInv
<1> QED  BY <1>1, <1>2, PTL

=============================================================================
