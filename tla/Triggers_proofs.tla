---------------------------- MODULE Triggers_proofs ----------------------------
(***************************************************************************)
(* Proofs about Triggers: for any table of triggers, any number of polls   *)
(* and pushed events, any schedules and any bounds.                        *)
(*                                                                         *)
(* The arithmetic of the schedules comes first, then the types, then the   *)
(* inductive invariant of the firings: what a fire that is under way knows *)
(* of the records it is going to write.                                    *)
(***************************************************************************)
EXTENDS Triggers, Integers, WellFoundedInduction, NaturalsInduction, TLAPS

-----------------------------------------------------------------------------
(* Numbers *)

\* The quotient, by its bounds.
LEMMA DivBounds ==
  ASSUME NEW x \in Nat, NEW n \in Nat \ {0}
  PROVE  /\ x \div n \in Nat
         /\ (x \div n) * n <= x
         /\ x < (x \div n) * n + n
  OBVIOUS

LEMMA DivUnique ==
  ASSUME NEW x \in Nat, NEW n \in Nat \ {0}, NEW q \in Nat,
         q * n <= x, x < q * n + n
  PROVE  x \div n = q
<1> DEFINE p == x \div n
<1>1. p \in Nat /\ p * n <= x /\ x < p * n + n
  BY DivBounds
<1> HIDE DEF p
<1>2. CASE p < q
  <2>1. (p + 1) * n <= q * n
    BY <1>1, <1>2
  <2> QED
    BY <1>1, <2>1
<1>3. CASE p > q
  <2>1. (q + 1) * n <= p * n
    BY <1>1, <1>3
  <2> QED
    BY <1>1, <2>1
<1> QED
  BY <1>1, <1>2, <1>3 DEF p

\* A set of numbers has a smallest one.
LEMMA Smallest ==
  ASSUME NEW T, T \subseteq Nat, T # {}
  PROVE  \E x \in T : \A y \in T : x <= y
<1>1. IsWellFoundedOn(OpToRel(<, Nat), Nat)
  BY NatLessThanWellFounded
<1>2. \E x \in T : \A y \in T : ~(<<y, x>> \in OpToRel(<, Nat))
  BY <1>1, WFMin
<1>3. PICK x \in T : \A y \in T : ~(<<y, x>> \in OpToRel(<, Nat))
  BY <1>2, Zenon
<1>4. ASSUME NEW y \in T, y < x PROVE FALSE
  <2>1. <<y, x>> \in Nat \X Nat
    OBVIOUS
  <2>2. <<y, x>>[1] < <<y, x>>[2]
    BY <1>4
  <2>3. <<y, x>> \in OpToRel(<, Nat)
    BY <2>1, <2>2, Zenon DEF OpToRel
  <2> QED
    BY <1>3, <2>3, Zenon
<1> QED
  BY <1>4

\* The minute at or before t of the hour of t.
LEMMA FloorBounds ==
  ASSUME NEW t \in Nat
  PROVE  /\ Floor(t, Hour) \in Nat
         /\ Floor(t, Hour) <= t /\ t < Floor(t, Hour) + Hour
  BY DivBounds, TriggerAssumptions DEF Floor

-----------------------------------------------------------------------------
(* Types *)

FrameType ==
  [pc : {"off", "ask", "run", "dedupe", "stamp", "edit"},
   at : 0..Len(KindOf), key : AllKeys, run : 0..MaxRuns, seen : SUBSET Records]

\* Whoever is at a trigger is at one of the table, only the operator edits, and
\* what is about to be put has a schedule that was accepted.
Placed(x, f) ==
  /\ f.pc \in IF x = Operator THEN {"off", "edit"} ELSE {"off", "ask", "run", "dedupe", "stamp"}
  /\ f.pc # "off" => f.at \in Triggers
  /\ \A r \in f.seen : Valid(r.config)

FramesPlaced == \A x \in Callers \cup {Operator} : Placed(x, frame[x])

SchedulesValid == \A t \in Triggers : Valid(triggers[t].config)

TypeInv == TypeOK /\ FramesPlaced /\ SchedulesValid

LEMMA KeysNat == AllKeys \subseteq Nat /\ NoKey \in AllKeys /\ Keys \subseteq AllKeys
  BY TriggerAssumptions DEF AllKeys, NoKey

LEMMA TriggersNat == Triggers = 1..Len(KindOf) /\ Len(KindOf) \in Nat
  BY TriggerAssumptions DEF Triggers

LEMMA OffType == Off \in FrameType /\ Off.pc = "off" /\ Off.seen = {}
  BY KeysNat, TriggersNat, TriggerAssumptions DEF Off, FrameType, NoKey, NoRun

\* A poll that looks for work stops at an adapter, or is over.
LEMMA StopType ==
  ASSUME NEW t \in Nat
  PROVE  /\ Stop(t) \in FrameType /\ Stop(t).seen = {}
         /\ \/ Stop(t).pc = "off"
            \/ Stop(t).pc = "ask" /\ Stop(t).at \in Triggers
<1> DEFINE due == {u \in Triggers : /\ u >= t /\ KindOf[u] \in PullKinds
                                    /\ triggers[u].stored /\ triggers[u].enabled}
           first == CHOOSE u \in due : \A v \in due : u <= v
<1>1. CASE due = {}
  BY <1>1, OffType DEF Stop
<1>2. CASE due # {}
  <2>1. first \in due
    <3>1. due \subseteq Nat
      BY TriggersNat
    <3> HIDE DEF due
    <3>2. \E u \in due : \A v \in due : u <= v
      BY <1>2, <3>1, Smallest
    <3> QED
      BY <3>2, Zenon
  <2>2. Stop(t) = [Off EXCEPT !.pc = "ask", !.at = first]
    BY <1>2, Zenon DEF Stop
  <2>3. first \in Triggers
    BY <2>1
  <2> HIDE DEF first, due
  <2>4. /\ Stop(t).pc = "ask" /\ Stop(t).at = first /\ Stop(t).seen = {}
        /\ Stop(t) = [pc |-> "ask", at |-> first, key |-> NoKey, run |-> NoRun, seen |-> {}]
    BY <2>2 DEF Off
  <2>5. first \in 0..Len(KindOf)
    BY <2>3, TriggersNat
  <2> QED
    BY <2>3, <2>4, <2>5, KeysNat, TriggerAssumptions DEF FrameType, NoRun
<1> QED
  BY <1>1, <1>2

\* The key an event gets is one of the table's.
LEMMA SlotType ==
  ASSUME NEW c \in Configs, Valid(c), NEW anchor \in 0..MaxNow, NEW t \in 0..MaxNow
  PROVE  DueSlot(c, anchor, t) \in AllKeys
<1> USE TriggerAssumptions DEF NoKey, AllKeys
<1>1. CASE c.form = "every"
  <2>1. CASE t - anchor < c.n
    BY <1>1, <2>1 DEF DueSlot
  <2>2. CASE ~(t - anchor < c.n)
    <3>1. c.n \in Nat \ {0} /\ t - anchor \in Nat
      BY <1>1, <2>2 DEF Valid
    <3> DEFINE q == (t - anchor) \div c.n
    <3>2. q \in Nat /\ q * c.n <= t - anchor
      BY <3>1, DivBounds
    <3>3. DueSlot(c, anchor, t) = q
      BY <1>1, <2>2 DEF DueSlot
    <3> HIDE DEF q
    <3>4. q <= q * c.n /\ q * c.n \in Nat
      BY <3>1, <3>2
    <3>5. t - anchor <= MaxNow
      BY <3>1
    <3>6. q \in 0..MaxNow
      BY <3>1, <3>2, <3>4, <3>5
    <3> QED
      BY <3>3, <3>6
  <2> QED
    BY <2>1, <2>2
<1>2. CASE c.form = "minute" /\ ~HasSlots(c)
  BY <1>2 DEF DueSlot
<1>3. CASE c.form = "minute" /\ HasSlots(c)
  <2> DEFINE here == Floor(t, Hour) + c.n
  <2>1. Floor(t, Hour) \in Nat /\ Floor(t, Hour) <= t /\ c.n \in Nat /\ c.n < Hour
    <3>1. t \in Nat
      OBVIOUS
    <3>2. Floor(t, Hour) \in Nat /\ Floor(t, Hour) <= t
      BY <3>1, FloorBounds
    <3>3. c.n \in Nat /\ c.n < Hour
      BY <1>3 DEF HasSlots
    <3> QED
      BY <3>2, <3>3
  <2>2. MinuteAtOrBefore(c.n, t) \in 0..MaxNow
    BY <2>1 DEF MinuteAtOrBefore
  <2> QED
    BY <1>3, <2>2 DEF DueSlot
<1> QED
  BY <1>1, <1>2, <1>3

\* One caller moves.
LEMMA FrameMoves ==
  ASSUME TypeInv, NEW x \in Callers \cup {Operator}, NEW f \in FrameType, Placed(x, f),
         frame' = [frame EXCEPT ![x] = f]
  PROVE  /\ frame' \in [Callers \cup {Operator} -> FrameType] /\ FramesPlaced'
         /\ frame'[x] = f
         /\ \A y \in Callers \cup {Operator} : y # x => frame'[y] = frame[y]
<1>1. frame \in [Callers \cup {Operator} -> FrameType]
  BY DEF TypeInv, TypeOK, FrameType
<1>2. /\ frame' \in [Callers \cup {Operator} -> FrameType]
      /\ frame'[x] = f
      /\ \A y \in Callers \cup {Operator} : y # x => frame'[y] = frame[y]
  BY <1>1
<1>3. \A y \in Callers \cup {Operator} : Placed(y, frame'[y])
  BY <1>2 DEF TypeInv, FramesPlaced
<1>4. FramesPlaced'
  BY <1>3 DEF FramesPlaced, Placed
<1> QED
  BY <1>2, <1>4

Rest(f) == /\ f \in FrameType /\ f.seen = {}
           /\ \/ f.pc = "off"
              \/ f.pc = "ask" /\ f.at \in Triggers

LEMMA LeaveType ==
  ASSUME TypeInv, NEW x \in Callers, Leave(x)
  PROVE  /\ frame' \in [Callers \cup {Operator} -> FrameType] /\ FramesPlaced'
         /\ Rest(frame'[x])
         /\ \A y \in Callers \cup {Operator} : y # x => frame'[y] = frame[y]
<1> DEFINE f == IF x \in Polls THEN Stop(frame[x].at + 1) ELSE Off
<1>1. frame[x].at + 1 \in Nat
  BY TriggersNat DEF TypeInv, TypeOK
<1>2. Rest(f)
  BY <1>1, StopType, OffType DEF Rest
<1>3. frame' = [frame EXCEPT ![x] = f]
  BY DEF Leave
<1> HIDE DEF f
<1>4. Placed(x, f)
  BY <1>2, TriggerAssumptions DEF Rest, Placed
<1> QED
  BY <1>2, <1>3, <1>4, FrameMoves DEF Rest

\* A fire that finds nothing to do leaves; the others queue the put of a run,
\* and what overlaps is noted.
FireBegins(x, t, k) ==
  /\ MayFire(triggers[t]) /\ ~Known(t, k)
  /\ frame'[x] = [pc |-> "run", at |-> t, key |-> k, run |-> NoRun, seen |-> {triggers[t]}]
  /\ \A y \in Callers \ {x} : Firing(y, t) /\ frame[y].key = k => <<"delivery", t>> \in torn'
  /\ At(Operator, "edit") /\ frame[Operator].at = t => <<"edit", t>> \in torn'

LEMMA FireType ==
  ASSUME TypeInv, NEW x \in Callers, NEW t \in Triggers, NEW k \in AllKeys, Fire(x, t, k)
  PROVE  /\ frame' \in [Callers \cup {Operator} -> FrameType] /\ FramesPlaced'
         /\ torn \subseteq torn' /\ torn' \subseteq {"delivery", "edit"} \X Triggers
         /\ Rest(frame'[x]) \/ FireBegins(x, t, k)
         /\ \A y \in Callers \cup {Operator} : y # x => frame'[y] = frame[y]
<1>0. torn \subseteq {"delivery", "edit"} \X Triggers
  BY DEF TypeInv, TypeOK
<1>1. CASE Leave(x) /\ UNCHANGED torn
  BY <1>0, <1>1, LeaveType
<1>2. CASE ~(Leave(x) /\ UNCHANGED torn)
  <2> DEFINE f == [pc |-> "run", at |-> t, key |-> k, run |-> NoRun, seen |-> {triggers[t]}]
             twice == \E y \in Callers \ {x} : Firing(y, t) /\ frame[y].key = k
             edited == At(Operator, "edit") /\ frame[Operator].at = t
  <2>1. /\ MayFire(triggers[t]) /\ ~Known(t, k)
        /\ frame' = [frame EXCEPT ![x] = f]
        /\ torn' = torn \cup (IF twice THEN {<<"delivery", t>>} ELSE {})
                        \cup (IF edited THEN {<<"edit", t>>} ELSE {})
    BY <1>2 DEF Fire, Refused
  <2>2. f \in FrameType /\ triggers[t] \in Records
    BY TriggersNat, TriggerAssumptions DEF FrameType, TypeInv, TypeOK, NoRun
  <2>3. Placed(x, f)
    BY TriggerAssumptions DEF Placed, TypeInv, SchedulesValid
  <2>4. /\ frame' \in [Callers \cup {Operator} -> FrameType] /\ FramesPlaced'
        /\ frame'[x] = f
        /\ \A y \in Callers \cup {Operator} : y # x => frame'[y] = frame[y]
    BY <2>1, <2>2, <2>3, FrameMoves
  <2>5. /\ torn \subseteq torn' /\ torn' \subseteq {"delivery", "edit"} \X Triggers
        /\ twice => <<"delivery", t>> \in torn'
        /\ edited => <<"edit", t>> \in torn'
    BY <1>0, <2>1
  <2> QED
    BY <2>1, <2>4, <2>5 DEF FireBegins
<1> QED
  BY <1>1, <1>2

-----------------------------------------------------------------------------
(* The types, action by action *)

\* What no step of a caller or of the operator but a fire or an edit changes.
LEMMA PutRunType ==
  ASSUME TypeInv, NEW x \in Callers, PutRun(x)
  PROVE  TypeInv'
<1> DEFINE n == Len(runs) + 1
           f == [frame[x] EXCEPT !.pc = "dedupe", !.run = n]
<1>1. frame[x] \in FrameType /\ Placed(x, frame[x]) /\ frame[x].at \in Triggers
  BY DEF TypeInv, TypeOK, FrameType, FramesPlaced, Placed, PutRun, At
<1>2. CASE Len(runs) < MaxRuns
  <2>1. /\ runs' = Append(runs, [trigger |-> frame[x].at, key |-> frame[x].key])
        /\ frame' = [frame EXCEPT ![x].pc = "dedupe", ![x].run = n]
    BY <1>2 DEF PutRun
  <2>2. n \in 0..MaxRuns
    BY <1>2, TriggerAssumptions DEF TypeInv, TypeOK
  <2>3. f \in FrameType /\ Placed(x, f)
    BY <1>1, <2>2, TriggerAssumptions DEF FrameType, Placed, PutRun, At
  <2>4. frame' = [frame EXCEPT ![x] = f]
    BY <2>1, <1>1 DEF TypeInv, TypeOK, FrameType
  <2>5. frame' \in [Callers \cup {Operator} -> FrameType] /\ FramesPlaced'
    BY <2>3, <2>4, FrameMoves
  <2>6. runs' \in Seq([trigger : Triggers, key : AllKeys]) /\ Len(runs') <= MaxRuns
    BY <1>1, <2>1, <2>2 DEF TypeInv, TypeOK, FrameType
  <2> QED
    BY <2>5, <2>6 DEF TypeInv, TypeOK, FrameType, SchedulesValid, PutRun
<1>3. CASE ~(Len(runs) < MaxRuns)
  <2>1. Leave(x) /\ UNCHANGED runs
    BY <1>3 DEF PutRun
  <2> QED
    BY <2>1, LeaveType DEF TypeInv, TypeOK, FrameType, SchedulesValid, PutRun
<1> QED
  BY <1>2, <1>3

LEMMA PutRecordsType ==
  ASSUME TypeInv, NEW x \in Callers, PutRecords(x)
  PROVE  TypeInv'
<1>1. frame[x] \in FrameType /\ Placed(x, frame[x]) /\ frame[x].at \in Triggers
  BY DEF TypeInv, TypeOK, FrameType, FramesPlaced, Placed, PutRecords, AfterRun, At
<1>2. CASE At(x, "dedupe") /\ PutDedupe(x) /\ Goto(x, "stamp") /\ UNCHANGED triggers
  <2> DEFINE f == [frame[x] EXCEPT !.pc = "stamp"]
  <2>1. f \in FrameType /\ Placed(x, f)
    BY <1>1, TriggerAssumptions DEF FrameType, Placed
  <2>2. frame' = [frame EXCEPT ![x] = f]
    BY <1>1, <1>2 DEF Goto, TypeInv, TypeOK, FrameType
  <2>3. frame' \in [Callers \cup {Operator} -> FrameType] /\ FramesPlaced'
    BY <2>1, <2>2, FrameMoves
  <2>4. fires' \in [Triggers -> [AllKeys -> 0..MaxRuns]]
    BY <1>1, <1>2 DEF PutDedupe, TypeInv, TypeOK, FrameType
  <2> QED
    BY <1>2, <2>3, <2>4 DEF TypeInv, TypeOK, FrameType, SchedulesValid, PutRecords
<1>3. CASE At(x, "stamp") /\ Stamp(x) /\ Leave(x) /\ UNCHANGED fires
  <2>1. PICK r \in frame[x].seen :
          triggers' = [triggers EXCEPT ![frame[x].at] = [r EXCEPT !.last = frame[x].run]]
    BY <1>3 DEF Stamp
  <2>2. r \in Records /\ Valid(r.config)
    BY <1>1 DEF FrameType, Placed
  <2> DEFINE q == [r EXCEPT !.last = frame[x].run]
  <2>3. q \in Records /\ Valid(q.config)
    BY <1>1, <2>2 DEF FrameType, Records
  <2>4. triggers' \in [Triggers -> Records] /\ \A t \in Triggers : Valid(triggers'[t].config)
    BY <2>1, <2>3 DEF TypeInv, TypeOK, SchedulesValid
  <2>5. SchedulesValid'
    BY <2>4 DEF SchedulesValid, Valid
  <2> QED
    BY <1>3, <2>4, <2>5, LeaveType DEF TypeInv, TypeOK, FrameType, PutRecords
<1> QED
  BY <1>2, <1>3 DEF PutRecords, AfterRun

LEMMA AskType ==
  ASSUME TypeInv, Ask
  PROVE  asks' \in 0..MaxAsks
  BY TriggerAssumptions DEF TypeInv, TypeOK, Ask

LEMMA FireFailsType ==
  ASSUME TypeInv, NEW x \in Callers, FireFails(x)
  PROVE  TypeInv'
<1>1. frame[x].at \in Triggers
  BY DEF TypeInv, FramesPlaced, Placed, FireFails
<1>2. asks' \in 0..MaxAsks /\ torn' \subseteq {"delivery", "edit"} \X Triggers
  BY <1>1, AskType DEF TypeInv, TypeOK, FireFails
<1>3. Leave(x)
  BY DEF FireFails, Refused
<1> QED
  BY <1>2, <1>3, LeaveType DEF TypeInv, TypeOK, FrameType, SchedulesValid, FireFails

LEMMA EventKeyType ==
  ASSUME TypeInv, NEW t \in Triggers
  PROVE  EventKey(t) \in AllKeys
<1>1. CASE KindOf[t] = "schedule"
  BY <1>1, SlotType DEF EventKey, TypeInv, TypeOK, SchedulesValid, Records
<1>2. CASE KindOf[t] # "schedule"
  BY <1>2, KeysNat DEF EventKey, TypeInv, TypeOK
<1> QED
  BY <1>1, <1>2

LEMMA PollType ==
  ASSUME TypeInv, NEW p \in Polls, PollStart(p) \/ PollAnswered(p) \/ TrackerFails(p)
  PROVE  TypeInv'
<1>0. p \in Callers
  BY DEF Callers
<1>1. CASE PollStart(p)
  <2>1. Rest(Stop(1))
    BY StopType DEF Rest
  <2>2. Stop(1) \in FrameType /\ Placed(p, Stop(1))
    BY <1>0, <2>1, TriggerAssumptions DEF Rest, Placed
  <2>3. frame' \in [Callers \cup {Operator} -> FrameType] /\ FramesPlaced'
    BY <1>0, <1>1, <2>2, FrameMoves DEF PollStart
  <2> QED
    BY <1>1, <2>3 DEF TypeInv, TypeOK, FrameType, SchedulesValid, PollStart
<1>2. CASE PollAnswered(p)
  <2> DEFINE t == frame[p].at
  <2>1. t \in Triggers /\ EventKey(t) \in AllKeys
    BY <1>0, <1>2, EventKeyType DEF PollAnswered, At, TypeInv, FramesPlaced, Placed
  <2>2. CASE Leave(p) /\ UNCHANGED torn
    BY <1>0, <1>2, <2>2, LeaveType DEF TypeInv, TypeOK, FrameType, SchedulesValid, PollAnswered
  <2>3. CASE Fire(p, t, EventKey(t))
    <3> HIDE DEF t
    <3> QED
      BY <1>0, <1>2, <2>1, <2>3, FireType
      DEF TypeInv, TypeOK, FrameType, SchedulesValid, PollAnswered
  <2> QED
    BY <1>2, <2>2, <2>3 DEF PollAnswered
<1>3. CASE TrackerFails(p)
  <2>1. asks' \in 0..MaxAsks /\ Leave(p)
    BY <1>3, AskType DEF TrackerFails
  <2> QED
    BY <1>0, <1>3, <2>1, LeaveType DEF TypeInv, TypeOK, FrameType, SchedulesValid, TrackerFails
<1> QED
  BY <1>1, <1>2, <1>3

LEMMA PushType ==
  ASSUME TypeInv, NEW x \in Pushes, NEW t \in Triggers, NEW k \in Keys,
         Push(x, t, k) \/ FireNow(x, t, k)
  PROVE  TypeInv'
<1>1. x \in Callers /\ k \in AllKeys
  BY KeysNat DEF Callers
<1>2. /\ Fire(x, t, k) /\ asks' \in 0..MaxAsks
      /\ UNCHANGED <<triggers, fires, runs, now, board, wanted>>
  BY AskType DEF Push, FireNow
<1> QED
  BY <1>1, <1>2, FireType DEF TypeInv, TypeOK, FrameType, SchedulesValid

\* Quadruples, and what becomes of them.
LEMMA Quadruple ==
  ASSUME NEW A, NEW B, NEW C, NEW D, NEW w \in A \X B \X C \X D, NEW u, NEW v
  PROVE  /\ w[1] \in A /\ w[2] \in B /\ w[3] \in C /\ w[4] \in D
         /\ w = <<w[1], w[2], w[3], w[4]>>
         /\ [w EXCEPT ![1] = u, ![2] = v] = <<u, v, w[3], w[4]>>
         /\ [w EXCEPT ![2] = v] = <<w[1], v, w[3], w[4]>>
         /\ [w EXCEPT ![3] = v] = <<w[1], w[2], v, w[4]>>
         /\ [w EXCEPT ![4] = v] = <<w[1], w[2], w[3], v>>
  OBVIOUS

LEMMA QuadrupleIn ==
  ASSUME NEW A, NEW B, NEW C, NEW D, NEW a \in A, NEW b \in B, NEW c \in C, NEW d \in D
  PROVE  <<a, b, c, d>> \in A \X B \X C \X D
  OBVIOUS

Texts == {"good", "blank"}
Wishes == BOOLEAN \X BOOLEAN \X Configs \X Texts

LEMMA MeantType ==
  ASSUME NEW w \in Wishes, NEW how \in Edits, NEW config \in Configs
  PROVE  Meant(w, how, config) \in Wishes
<1>1. w[1] \in BOOLEAN /\ w[2] \in BOOLEAN /\ w[3] \in Configs /\ w[4] \in Texts
  BY Quadruple DEF Wishes
<1>2. CASE how = "create"
  <2> DEFINE yes == TRUE
  <2>1. Meant(w, how, config) = <<yes, yes, config, "good">>
    BY <1>2 DEF Meant
  <2>2. yes \in BOOLEAN /\ "good" \in Texts
    BY DEF Texts
  <2> HIDE DEF yes
  <2> QED
    BY <2>1, <2>2, QuadrupleIn DEF Wishes
<1>3. CASE how = "reschedule"
  <2>1. Meant(w, how, config) = <<w[1], w[2], config, w[4]>>
    BY <1>3, Quadruple DEF Meant, Wishes
  <2> QED
    BY <1>1, <2>1, QuadrupleIn DEF Wishes
<1>4. CASE how = "retext"
  <2> DEFINE d == IF w[4] = "good" THEN "blank" ELSE "good"
  <2>1. Meant(w, how, config) = [w EXCEPT ![4] = d]
    BY <1>4 DEF Meant
  <2>2. d \in Texts
    BY DEF Texts
  <2> HIDE DEF d
  <2>3. Meant(w, how, config) = <<w[1], w[2], w[3], d>>
    BY <2>1, Quadruple DEF Wishes
  <2> QED
    BY <1>1, <2>2, <2>3, QuadrupleIn DEF Wishes
<1>5. CASE how = "toggle"
  <2> DEFINE b == ~w[2]
  <2>1. Meant(w, how, config) = [w EXCEPT ![2] = b]
    BY <1>5 DEF Meant
  <2>2. b \in BOOLEAN
    OBVIOUS
  <2> HIDE DEF b
  <2>3. Meant(w, how, config) = <<w[1], b, w[3], w[4]>>
    BY <2>1, Quadruple DEF Wishes
  <2> QED
    BY <1>1, <2>2, <2>3, QuadrupleIn DEF Wishes
<1>6. CASE how = "delete"
  <2> DEFINE no == FALSE
  <2>1. Meant(w, how, config) = [w EXCEPT ![1] = no, ![2] = no]
    BY <1>6 DEF Meant
  <2>2. no \in BOOLEAN
    OBVIOUS
  <2> HIDE DEF no
  <2>3. Meant(w, how, config) = <<no, no, w[3], w[4]>>
    BY <2>1, Quadruple DEF Wishes
  <2> QED
    BY <1>1, <2>2, <2>3, QuadrupleIn DEF Wishes
<1> QED
  BY <1>2, <1>3, <1>4, <1>5, <1>6 DEF Edits

LEMMA EditedType ==
  ASSUME TypeInv, NEW t \in Triggers, NEW how \in Edits, NEW config \in Configs, Valid(config)
  PROVE  /\ Edited(triggers[t], how, config) \in Records
         /\ Valid(Edited(triggers[t], how, config).config)
<1>1. triggers[t] \in Records /\ Valid(triggers[t].config) /\ now \in 0..MaxNow
  BY DEF TypeInv, TypeOK, SchedulesValid
<1>2. NoRun \in 0..MaxRuns /\ 0 \in 0..MaxNow
  BY TriggerAssumptions DEF NoRun
<1>3. CASE how = "create"
  <2>1. Edited(triggers[t], how, config) =
          [stored |-> TRUE, enabled |-> TRUE, config |-> config,
           template |-> "good", anchor |-> now, last |-> NoRun]
    BY <1>3 DEF Edited, Installed
  <2> QED
    BY <1>1, <1>2, <2>1 DEF Records
<1>4. CASE how = "reschedule"
  BY <1>1, <1>4 DEF Records, Edited
<1>5. CASE how = "retext"
  BY <1>1, <1>5 DEF Records, Edited
<1>6. CASE how = "toggle"
  BY <1>1, <1>6 DEF Records, Edited
<1>7. CASE how = "delete"
  BY <1>1, <1>7 DEF Records, Edited
<1> QED
  BY <1>3, <1>4, <1>5, <1>6, <1>7 DEF Edits

LEMMA BeginEditType ==
  ASSUME TypeInv, NEW t \in Triggers, NEW how \in Edits, NEW config \in Configs,
         BeginEdit(t, how, config)
  PROVE  TypeInv'
<1> DEFINE r == Edited(triggers[t], how, config)
           f == [Off EXCEPT !.pc = "edit", !.at = t, !.seen = {r}]
<1>1. /\ r \in Records /\ Valid(r.config)
      /\ Meant(wanted[t], how, config) \in Wishes
  BY EditedType, MeantType DEF BeginEdit, TypeInv, TypeOK, Wishes, Texts
<1>2. frame' = [frame EXCEPT ![Operator] = f]
  BY DEF BeginEdit
<1> HIDE DEF r
<1>3. f \in FrameType /\ Placed(Operator, f)
  <2> DEFINE one == {r}
  <2>0. f = [Off EXCEPT !.pc = "edit", !.at = t, !.seen = one]
    OBVIOUS
  <2>5. one \in SUBSET Records /\ \A q \in one : Valid(q.config)
    BY <1>1
  <2> HIDE DEF one, f
  <2>1. f = [pc |-> "edit", at |-> t, key |-> NoKey, run |-> NoRun, seen |-> one]
    BY <2>0 DEF Off
  <2>2. t \in 0..Len(KindOf) /\ NoKey \in AllKeys /\ NoRun \in 0..MaxRuns
    BY TriggersNat, KeysNat, TriggerAssumptions DEF NoRun
  <2> QED
    BY <2>1, <2>2, <2>5 DEF FrameType, Placed
<1>4. frame' \in [Callers \cup {Operator} -> FrameType] /\ FramesPlaced'
  BY <1>2, <1>3, FrameMoves
<1>5. wanted' \in [Triggers -> Wishes]
  BY <1>1 DEF BeginEdit, TypeInv, TypeOK, Wishes, Texts
<1>6. asks' \in 0..MaxAsks /\ torn' \subseteq {"delivery", "edit"} \X Triggers
  BY AskType DEF BeginEdit, TypeInv, TypeOK
<1> QED
  BY <1>4, <1>5, <1>6 DEF TypeInv, TypeOK, FrameType, SchedulesValid, BeginEdit, Wishes, Texts

LEMMA PutEditType ==
  ASSUME TypeInv, PutEdit
  PROVE  TypeInv'
<1>1. frame[Operator] \in FrameType /\ Placed(Operator, frame[Operator])
  BY DEF TypeInv, TypeOK, FrameType, FramesPlaced
<1>2. PICK r \in frame[Operator].seen : triggers' = [triggers EXCEPT ![frame[Operator].at] = r]
  BY DEF PutEdit
<1>3. r \in Records /\ Valid(r.config)
  BY <1>1 DEF FrameType, Placed
<1>4. triggers' \in [Triggers -> Records] /\ \A t \in Triggers : Valid(triggers'[t].config)
  BY <1>2, <1>3 DEF TypeInv, TypeOK, SchedulesValid
<1>5. SchedulesValid'
  BY <1>4 DEF SchedulesValid, Valid
<1>6. Placed(Operator, Off)
  BY OffType DEF Placed
<1>7. frame' \in [Callers \cup {Operator} -> FrameType] /\ FramesPlaced'
  BY <1>6, OffType, FrameMoves DEF PutEdit
<1> QED
  BY <1>4, <1>5, <1>7 DEF TypeInv, TypeOK, FrameType, PutEdit

LEMMA WorldType ==
  ASSUME TypeInv, Minute \/ (\E k \in Keys \cup {NoKey} : IssueMoves(k)) \/ Restart
  PROVE  TypeInv'
<1>1. CASE Minute
  BY <1>1, TriggerAssumptions
  DEF Minute, TypeInv, TypeOK, FramesPlaced, SchedulesValid
<1>2. ASSUME NEW k \in Keys \cup {NoKey}, IssueMoves(k) PROVE TypeInv'
  BY <1>2, AskType DEF IssueMoves, TypeInv, TypeOK, FramesPlaced, SchedulesValid
<1>3. CASE Restart
  <2>1. /\ frame' = [x \in Callers \cup {Operator} |-> Off]
        /\ asks' \in 0..MaxAsks
        /\ UNCHANGED <<triggers, fires, runs, now, board>>
    BY <1>3, AskType DEF Restart
  <2>2. frame' \in [Callers \cup {Operator} -> FrameType]
    BY <2>1, OffType
  <2>3. FramesPlaced'
    BY <2>1, OffType DEF FramesPlaced, Placed
  <2>4. \A t \in Triggers :
          Settings(triggers[t]) \in BOOLEAN \X BOOLEAN \X Configs \X {"good", "blank"}
    BY DEF TypeInv, TypeOK, Settings, Records
  <2>5. wanted' \in [Triggers -> BOOLEAN \X BOOLEAN \X Configs \X {"good", "blank"}]
    BY <1>3, <2>4 DEF Restart, TypeInv, TypeOK
  <2>6. \A x \in Callers : At(x, "dedupe") => frame[x].at \in Triggers
    BY DEF TypeInv, FramesPlaced, Placed, At
  <2>7. torn' \subseteq {"delivery", "edit"} \X Triggers
    BY <1>3, <2>6 DEF Restart, TypeInv, TypeOK
  <2> QED
    BY <2>1, <2>2, <2>3, <2>5, <2>7 DEF TypeInv, TypeOK, FrameType, SchedulesValid
<1> QED
  BY <1>1, <1>2, <1>3

LEMMA InitType == Init => TypeInv
<1> SUFFICES ASSUME Init PROVE TypeInv
  OBVIOUS
<1> USE TriggerAssumptions DEF Init
<1>1. PICK config \in Configs : Valid(config) /\ triggers = [t \in Triggers |-> Installed(config)]
  OBVIOUS
<1>2. NoRun \in 0..MaxRuns /\ 0 \in 0..MaxNow
  BY DEF NoRun
<1>3. Installed(config) \in Records
  BY <1>2 DEF Installed, Records
<1>4. triggers \in [Triggers -> Records] /\ SchedulesValid
  BY <1>1, <1>3 DEF SchedulesValid, Installed
<1>5. /\ frame \in [Callers \cup {Operator} -> FrameType]
      /\ FramesPlaced
  BY OffType DEF FramesPlaced, Placed
<1>6. fires \in [Triggers -> [AllKeys -> 0..MaxRuns]]
  BY <1>2
<1>7. \A t \in Triggers : Settings(triggers[t]) \in Wishes
  <2> SUFFICES ASSUME NEW t \in Triggers PROVE Settings(triggers[t]) \in Wishes
    OBVIOUS
  <2> DEFINE r == triggers[t]
             on == r.stored /\ r.enabled
  <2>1. /\ r.stored \in BOOLEAN /\ on \in BOOLEAN /\ r.config \in Configs
        /\ r.template \in Texts
    BY <1>4 DEF Records, Texts
  <2>2. Settings(r) = <<r.stored, on, r.config, r.template>>
    BY DEF Settings
  <2> HIDE DEF r, on
  <2>3. Settings(r) \in Wishes
    BY <2>1, <2>2, QuadrupleIn DEF Wishes
  <2> QED
    BY <2>3 DEF r
<1>8. wanted \in [Triggers -> Wishes]
  BY <1>7
<1>9. runs \in Seq([trigger : Triggers, key : AllKeys]) /\ Len(runs) <= MaxRuns
  OBVIOUS
<1>10. board \in Keys \cup {NoKey} /\ asks \in 0..MaxAsks /\ now \in 0..MaxNow /\ torn = {}
  OBVIOUS
<1> HIDE DEF Init
<1> QED
  BY <1>4, <1>5, <1>6, <1>8, <1>9, <1>10 DEF TypeInv, TypeOK, FrameType, Wishes, Texts

LEMMA NextType == TypeInv /\ [Next]_vars => TypeInv'
<1> SUFFICES ASSUME TypeInv, [Next]_vars PROVE TypeInv'
  OBVIOUS
<1>1. ASSUME NEW x \in Callers, CallSteps(x) \/ FireFails(x) PROVE TypeInv'
  BY <1>1, PutRunType, PutRecordsType, FireFailsType DEF CallSteps
<1>2. ASSUME NEW p \in Polls, PollSteps(p) \/ TrackerFails(p) PROVE TypeInv'
  BY <1>2, PollType DEF PollSteps
<1>3. ASSUME NEW x \in Pushes, NEW t \in Triggers, NEW k \in Keys,
             Push(x, t, k) \/ FireNow(x, t, k)
      PROVE  TypeInv'
  BY <1>3, PushType
<1>4. ASSUME NEW t \in Triggers, NEW how \in Edits, NEW config \in Configs,
             BeginEdit(t, how, config)
      PROVE  TypeInv'
  BY <1>4, BeginEditType
<1>5. CASE UNCHANGED vars
  BY <1>5 DEF vars, TypeInv, TypeOK, FramesPlaced, SchedulesValid
<1> QED
  BY <1>1, <1>2, <1>3, <1>4, <1>5, PutEditType, WorldType DEF Next

\* Every record of the service keeps its type.
THEOREM TypeCorrect == Spec => []TypeInv
  BY InitType, NextType, PTL DEF Spec
-----------------------------------------------------------------------------
(* The inductive invariant *)

Cut(t) == <<"delivery", t>> \in torn
EditTorn(t) == <<"edit", t>> \in torn
Pending(x) == frame[x].pc \in {"run", "dedupe", "stamp"}
Event(x) == [trigger |-> frame[x].at, key |-> frame[x].key]

\* Two fires of one event that are under way at once have been noted.
FiresApart ==
  \A x, y \in Callers :
    (x # y /\ Pending(x) /\ Pending(y) /\ Event(x) = Event(y)) => Cut(frame[x].at)

\* A fire found the trigger wanted, and the operator has not touched it since.
FiresWanted ==
  \A x \in Callers : Pending(x) =>
    /\ frame[x].seen # {}
    /\ \A r \in frame[x].seen :
         MayFire(r) /\ (EditTorn(frame[x].at) \/ Settings(r) = wanted[frame[x].at])

\* An edit that is queued puts what the operator means.
EditsWanted ==
  At(Operator, "edit") =>
    \A r \in frame[Operator].seen :
      EditTorn(frame[Operator].at) \/ Settings(r) = wanted[frame[Operator].at]

\* The event of a fire has no run yet before the run is put, and then this one.
FiresOnce ==
  \A x \in Callers :
    /\ At(x, "run") => \A i \in DOMAIN runs : runs[i] = Event(x) => Cut(frame[x].at)
    /\ frame[x].pc \in {"dedupe", "stamp"} =>
         frame[x].run \in DOMAIN runs /\ runs[frame[x].run] = Event(x)
    /\ frame[x].pc \in {"run", "dedupe"} =>
         fires[frame[x].at][frame[x].key] = NoRun \/ Cut(frame[x].at)
    /\ At(x, "stamp") =>
         fires[frame[x].at][frame[x].key] = frame[x].run \/ Cut(frame[x].at)

\* A run whose event has no record yet is about to get one.
RunsRecorded ==
  \A i \in DOMAIN runs :
    \/ fires[runs[i].trigger][runs[i].key] # NoRun
    \/ \E x \in Callers : At(x, "dedupe") /\ frame[x].run = i
    \/ Cut(runs[i].trigger)

\* The records name runs of their events, and a last run is recorded.
LastRecorded(t, r) ==
  r.last # NoRun => (\E k \in AllKeys : fires[t][k] = r.last) \/ Cut(t)

RecordsSound ==
  /\ \A t \in Triggers, k \in AllKeys : fires[t][k] # NoRun =>
       fires[t][k] \in DOMAIN runs /\ runs[fires[t][k]] = [trigger |-> t, key |-> k]
  /\ \A t \in Triggers : LastRecorded(t, triggers[t])
  /\ At(Operator, "edit") =>
       \A r \in frame[Operator].seen : LastRecorded(frame[Operator].at, r)

FiringInv ==
  /\ TypeInv
  /\ FiresApart /\ FiresWanted /\ EditsWanted /\ FiresOnce /\ RunsRecorded /\ RecordsSound
  /\ OneRunPerEvent /\ SettingsAreOperators

\* FiringInv without the types, by its named parts.
Story == /\ FiresApart /\ FiresWanted /\ EditsWanted /\ FiresOnce /\ RunsRecorded
         /\ RecordsSound /\ OneRunPerEvent /\ SettingsAreOperators

LEMMA FrameOf ==
  ASSUME TypeInv, NEW x \in Callers
  PROVE  /\ x # Operator /\ x \in Callers \cup {Operator}
         /\ frame[x] \in FrameType
         /\ frame[x].pc # "off" => frame[x].at \in Triggers
         /\ frame[x].run \in 0..MaxRuns /\ frame[x].key \in AllKeys
  BY TriggerAssumptions DEF TypeInv, TypeOK, FrameType, FramesPlaced, Placed

\* The run a fire has put is the one of its event.
LEMMA RunOfFire ==
  ASSUME FiringInv, NEW y \in Callers, frame[y].pc \in {"dedupe", "stamp"}
  PROVE  /\ frame[y].run \in DOMAIN runs
         /\ runs[frame[y].run].trigger = frame[y].at /\ runs[frame[y].run].key = frame[y].key
<1>1. /\ frame[y].run \in DOMAIN runs
      /\ runs[frame[y].run] = [trigger |-> frame[y].at, key |-> frame[y].key]
  BY DEF FiringInv, FiresOnce, Event
<1> QED
  BY <1>1

\* A caller that stops at an adapter, or is over, takes nothing along.
LEMMA LeaveKeeps ==
  ASSUME FiringInv, NEW x \in Callers,
         Rest(frame'[x]), \A y \in Callers \cup {Operator} : y # x => frame'[y] = frame[y],
         UNCHANGED <<triggers, fires, runs, wanted>>, torn \subseteq torn',
         At(x, "dedupe") => <<"delivery", frame[x].at>> \in torn'
  PROVE  Story'
<1> USE DEF Cut, EditTorn, Pending, Event, At
<1>1. TypeInv /\ x # Operator /\ frame'[Operator] = frame[Operator]
  BY FrameOf DEF FiringInv
<1>2. frame'[x].pc \notin {"run", "dedupe", "stamp"}
  BY DEF Rest
<1>3. \A y \in Callers : frame'[y].pc \in {"run", "dedupe", "stamp"} => frame'[y] = frame[y]
  BY <1>2
<1>4. FiresApart'
  BY <1>3 DEF FiringInv, FiresApart
<1>5. FiresWanted'
  BY <1>3 DEF FiringInv, FiresWanted
<1>6. EditsWanted' /\ RecordsSound' /\ SettingsAreOperators' /\ OneRunPerEvent'
  BY <1>1 DEF FiringInv, EditsWanted, RecordsSound, LastRecorded, SettingsAreOperators, OneRunPerEvent
<1>7. FiresOnce'
  BY <1>3 DEF FiringInv, FiresOnce
<1>8. RunsRecorded'
  <2> SUFFICES ASSUME NEW i \in DOMAIN runs, fires[runs[i].trigger][runs[i].key] = NoRun,
                      <<"delivery", runs[i].trigger>> \notin torn'
               PROVE  \E y \in Callers : frame'[y].pc = "dedupe" /\ frame'[y].run = i
    BY DEF RunsRecorded
  <2>1. PICK y \in Callers : frame[y].pc = "dedupe" /\ frame[y].run = i
    BY DEF FiringInv, RunsRecorded
  <2>2. runs[i].trigger = frame[y].at
    BY <2>1, RunOfFire
  <2>3. y # x
    BY <2>1, <2>2
  <2> QED
    BY <2>1, <2>3
<1> QED
  BY <1>4, <1>5, <1>6, <1>7, <1>8 DEF Story

\* A fire begins.
LEMMA FireKeeps ==
  ASSUME FiringInv, NEW x \in Callers, NEW t \in Triggers, NEW k \in AllKeys, Fire(x, t, k),
         ~Pending(x), UNCHANGED <<triggers, fires, runs, wanted>>
  PROVE  Story'
<1> USE DEF Cut, EditTorn, Pending, Event, At
<1>1. /\ TypeInv /\ x # Operator
      /\ torn \subseteq torn'
      /\ Rest(frame'[x]) \/ FireBegins(x, t, k)
      /\ \A y \in Callers \cup {Operator} : y # x => frame'[y] = frame[y]
  BY FrameOf, FireType DEF FiringInv
<1>2. CASE Rest(frame'[x])
  BY <1>1, <1>2, LeaveKeeps
<1>3. CASE FireBegins(x, t, k)
  <2>1. /\ MayFire(triggers[t]) /\ fires[t][k] = NoRun
        /\ frame'[x].pc = "run" /\ frame'[x].at = t /\ frame'[x].key = k
        /\ frame'[x].seen = {triggers[t]}
        /\ \A y \in Callers \ {x} : Pending(y) /\ frame[y].at = t /\ frame[y].key = k
                                      => <<"delivery", t>> \in torn'
        /\ At(Operator, "edit") /\ frame[Operator].at = t => <<"edit", t>> \in torn'
    BY <1>3 DEF FireBegins, Firing, Known
  <2>2. frame'[Operator] = frame[Operator]
    BY <1>1
  <2>3. \A y \in Callers : y # x => frame'[y] = frame[y]
    BY <1>1
  <2>4. FiresApart'
    BY <1>1, <2>1, <2>3 DEF FiringInv, FiresApart
  <2>5. FiresWanted'
    <3>1. <<"edit", t>> \in torn' \/ Settings(triggers[t]) = wanted[t]
      BY <1>1, <2>1 DEF FiringInv, SettingsAreOperators
    <3> QED
      BY <1>1, <2>1, <2>3, <3>1 DEF FiringInv, FiresWanted
  <2>6. EditsWanted' /\ RecordsSound' /\ SettingsAreOperators' /\ OneRunPerEvent'
    BY <1>1, <2>2 DEF FiringInv, EditsWanted, RecordsSound, LastRecorded, SettingsAreOperators,
                      OneRunPerEvent
  <2>7. ASSUME NEW i \in DOMAIN runs, runs[i] = [trigger |-> t, key |-> k]
        PROVE  <<"delivery", t>> \in torn'
    <3>1. runs[i].trigger = t /\ runs[i].key = k
      BY <2>7
    <3>2. CASE \E y \in Callers : frame[y].pc = "dedupe" /\ frame[y].run = i
      <4>1. PICK y \in Callers : frame[y].pc = "dedupe" /\ frame[y].run = i
        BY <3>2
      <4>2. frame[y].at = t /\ frame[y].key = k
        BY <3>1, <4>1, RunOfFire
      <4>3. y # x
        BY <4>1
      <4> QED
        BY <2>1, <4>1, <4>2, <4>3
    <3> QED
      BY <1>1, <2>1, <3>1, <3>2 DEF FiringInv, RunsRecorded
  <2>8. FiresOnce'
    <3> SUFFICES ASSUME NEW y \in Callers
                 PROVE  /\ frame'[y].pc = "run" => \A i \in DOMAIN runs :
                             runs[i] = [trigger |-> frame'[y].at, key |-> frame'[y].key]
                               => <<"delivery", frame'[y].at>> \in torn'
                        /\ frame'[y].pc \in {"dedupe", "stamp"} =>
                             /\ frame'[y].run \in DOMAIN runs
                             /\ runs[frame'[y].run]
                                = [trigger |-> frame'[y].at, key |-> frame'[y].key]
                        /\ frame'[y].pc \in {"run", "dedupe"} =>
                             \/ fires[frame'[y].at][frame'[y].key] = NoRun
                             \/ <<"delivery", frame'[y].at>> \in torn'
                        /\ frame'[y].pc = "stamp" =>
                             \/ fires[frame'[y].at][frame'[y].key] = frame'[y].run
                             \/ <<"delivery", frame'[y].at>> \in torn'
      BY DEF FiresOnce
    <3>1. CASE y = x
      BY <2>1, <2>7, <3>1
    <3>2. CASE y # x
      BY <1>1, <2>3, <3>2 DEF FiringInv, FiresOnce
    <3> QED
      BY <3>1, <3>2
  <2>9. RunsRecorded'
    BY <1>1, <2>3 DEF FiringInv, RunsRecorded
  <2> QED
    BY <2>4, <2>5, <2>6, <2>8, <2>9 DEF Story
<1> QED
  BY <1>1, <1>2, <1>3

\* The run is put.
LEMMA PutRunKeeps ==
  ASSUME FiringInv, NEW x \in Callers, PutRun(x)
  PROVE  Story'
<1> USE DEF Cut, EditTorn, Pending, Event, At
<1>1. /\ TypeInv /\ x # Operator /\ frame[x].pc = "run" /\ frame[x].at \in Triggers
      /\ UNCHANGED <<triggers, fires, wanted, torn>>
      /\ runs \in Seq([trigger : Triggers, key : AllKeys])
      /\ frame \in [Callers \cup {Operator} -> FrameType]
  BY FrameOf DEF FiringInv, PutRun, TypeInv, TypeOK, FrameType
<1>2. CASE ~(Len(runs) < MaxRuns)
  <2>1. Leave(x) /\ UNCHANGED runs
    BY <1>2 DEF PutRun
  <2> QED
    BY <1>1, <2>1, LeaveType, LeaveKeeps
<1>3. CASE Len(runs) < MaxRuns
  <2> DEFINE n == Len(runs) + 1
             t == frame[x].at
             k == frame[x].key
             new == [trigger |-> t, key |-> k]
  <2>1. /\ runs' = Append(runs, new)
        /\ frame' = [frame EXCEPT ![x].pc = "dedupe", ![x].run = n]
    BY <1>3 DEF PutRun
  <2>2. /\ frame'[x].pc = "dedupe" /\ frame'[x].at = t /\ frame'[x].key = k
        /\ frame'[x].seen = frame[x].seen /\ frame'[x].run = n
        /\ \A y \in Callers \cup {Operator} : y # x => frame'[y] = frame[y]
    BY <1>1, <2>1 DEF FrameType
  <2>3. /\ DOMAIN runs = 1..Len(runs) /\ DOMAIN runs' = 1..n /\ n \in Nat
        /\ \A i \in DOMAIN runs : runs'[i] = runs[i]
        /\ runs'[n] = new /\ n \notin DOMAIN runs /\ DOMAIN runs' = DOMAIN runs \cup {n}
        /\ new.trigger = t /\ new.key = k
    BY <1>1, <2>1
  <2> HIDE DEF n, t, k, new
  <2>4. FiresApart'
    BY <1>1, <2>2 DEF FiringInv, FiresApart, t, k
  <2>5. FiresWanted'
    BY <1>1, <2>2 DEF FiringInv, FiresWanted, t
  <2>6. EditsWanted' /\ SettingsAreOperators'
    BY <1>1, <2>2 DEF FiringInv, EditsWanted, SettingsAreOperators
  <2>7. ASSUME NEW i \in DOMAIN runs, runs[i] = new PROVE <<"delivery", t>> \in torn
    BY <1>1, <2>7 DEF FiringInv, FiresOnce, t, k, new
  <2>8. FiresOnce'
    <3>1. ASSUME NEW y \in Callers, y # x, frame[y].pc = "run", NEW i \in DOMAIN runs',
                 runs'[i] = [trigger |-> frame[y].at, key |-> frame[y].key]
          PROVE  <<"delivery", frame[y].at>> \in torn
      <4>1. CASE i = n
        <5>1. frame[y].at = t /\ frame[y].key = k
          BY <2>3, <3>1, <4>1 DEF new
        <5> QED
          BY <1>1, <3>1, <5>1 DEF FiringInv, FiresApart, t, k
      <4>2. CASE i # n
        BY <2>3, <3>1, <4>2 DEF FiringInv, FiresOnce
      <4> QED
        BY <4>1, <4>2
    <3>2. ASSUME NEW y \in Callers, y # x, frame[y].pc \in {"dedupe", "stamp"}
          PROVE  /\ frame[y].run \in DOMAIN runs'
                 /\ runs'[frame[y].run] = [trigger |-> frame[y].at, key |-> frame[y].key]
      BY <2>3, <3>2 DEF FiringInv, FiresOnce
    <3>3. fires[t][k] = NoRun \/ <<"delivery", t>> \in torn
      BY <1>1 DEF FiringInv, FiresOnce, t, k
    <3>4. ASSUME NEW y \in Callers, y # x
          PROVE  /\ frame[y].pc \in {"run", "dedupe"} =>
                      fires[frame[y].at][frame[y].key] = NoRun \/ <<"delivery", frame[y].at>> \in torn
                 /\ frame[y].pc = "stamp" =>
                      fires[frame[y].at][frame[y].key] = frame[y].run
                        \/ <<"delivery", frame[y].at>> \in torn
      BY DEF FiringInv, FiresOnce
    <3> SUFFICES ASSUME NEW y \in Callers
                 PROVE  /\ frame'[y].pc = "run" => \A i \in DOMAIN runs' :
                             runs'[i] = [trigger |-> frame'[y].at, key |-> frame'[y].key]
                               => <<"delivery", frame'[y].at>> \in torn
                        /\ frame'[y].pc \in {"dedupe", "stamp"} =>
                             /\ frame'[y].run \in DOMAIN runs'
                             /\ runs'[frame'[y].run]
                                = [trigger |-> frame'[y].at, key |-> frame'[y].key]
                        /\ frame'[y].pc \in {"run", "dedupe"} =>
                             \/ fires[frame'[y].at][frame'[y].key] = NoRun
                             \/ <<"delivery", frame'[y].at>> \in torn
                        /\ frame'[y].pc = "stamp" =>
                             \/ fires[frame'[y].at][frame'[y].key] = frame'[y].run
                             \/ <<"delivery", frame'[y].at>> \in torn
      BY <1>1 DEF FiresOnce
    <3>5. CASE y = x
      BY <2>2, <2>3, <3>3, <3>5 DEF new
    <3>6. CASE y # x
      BY <1>1, <2>2, <3>1, <3>2, <3>4, <3>6
    <3> QED
      BY <3>5, <3>6
  <2>9. RunsRecorded'
    <3> SUFFICES ASSUME NEW i \in DOMAIN runs', fires[runs'[i].trigger][runs'[i].key] = NoRun,
                        <<"delivery", runs'[i].trigger>> \notin torn
                 PROVE  \E y \in Callers : frame'[y].pc = "dedupe" /\ frame'[y].run = i
      BY <1>1 DEF RunsRecorded
    <3>1. CASE i = n
      BY <2>2, <3>1
    <3>2. CASE i # n
      <4>1. PICK y \in Callers : frame[y].pc = "dedupe" /\ frame[y].run = i
        BY <2>3, <3>2 DEF FiringInv, RunsRecorded
      <4> QED
        BY <1>1, <2>2, <4>1
    <3> QED
      BY <3>1, <3>2
  <2>10. RecordsSound'
    <3>1. \A u \in Triggers, j \in AllKeys : fires[u][j] # NoRun =>
             fires[u][j] \in DOMAIN runs' /\ runs'[fires[u][j]] = [trigger |-> u, key |-> j]
      BY <2>3 DEF FiringInv, RecordsSound
    <3> QED
      BY <1>1, <2>2, <3>1 DEF FiringInv, RecordsSound, LastRecorded
  <2>11. OneRunPerEvent'
    <3> SUFFICES ASSUME NEW i \in DOMAIN runs', NEW j \in DOMAIN runs', i # j, runs'[i] = runs'[j]
                 PROVE  <<"delivery", runs'[i].trigger>> \in torn
      BY <1>1 DEF OneRunPerEvent
    <3>1. CASE i # n /\ j # n
      BY <2>3, <3>1 DEF FiringInv, OneRunPerEvent
    <3>2. CASE i = n \/ j = n
      BY <2>3, <2>7, <3>2
    <3> QED
      BY <3>1, <3>2
  <2> QED
    BY <2>4, <2>5, <2>6, <2>8, <2>9, <2>10, <2>11 DEF Story
<1> QED
  BY <1>2, <1>3

\* The dedupe record is put.
LEMMA PutDedupeKeeps ==
  ASSUME FiringInv, NEW x \in Callers, At(x, "dedupe"), PutDedupe(x), Goto(x, "stamp"),
         UNCHANGED <<triggers, runs, wanted, torn>>
  PROVE  Story'
<1> USE DEF Cut, EditTorn, Pending, Event, At
<1> DEFINE t == frame[x].at
           k == frame[x].key
           n == frame[x].run
<1>1. /\ TypeInv /\ x # Operator /\ t \in Triggers /\ k \in AllKeys
      /\ frame \in [Callers \cup {Operator} -> FrameType]
      /\ fires \in [Triggers -> [AllKeys -> 0..MaxRuns]]
      /\ runs \in Seq([trigger : Triggers, key : AllKeys])
  BY FrameOf DEF FiringInv, TypeInv, TypeOK, FrameType
<1>2. /\ n \in DOMAIN runs /\ runs[n] = [trigger |-> t, key |-> k] /\ n # NoRun
      /\ fires[t][k] = NoRun \/ <<"delivery", t>> \in torn
  <2>1. FiresOnce
    BY DEF FiringInv
  <2>2. frame[x].pc = "dedupe"
    OBVIOUS
  <2>3. n \in DOMAIN runs /\ runs[n] = [trigger |-> t, key |-> k]
    BY <2>1, <2>2 DEF FiresOnce
  <2>4. fires[t][k] = NoRun \/ <<"delivery", t>> \in torn
    BY <2>1, <2>2 DEF FiresOnce
  <2>5. n # NoRun
    BY <1>1, <2>3 DEF NoRun
  <2> QED
    BY <2>3, <2>4, <2>5
<1>3. /\ frame'[x].pc = "stamp" /\ frame'[x].at = t /\ frame'[x].key = k
      /\ frame'[x].seen = frame[x].seen /\ frame'[x].run = n
      /\ \A y \in Callers \cup {Operator} : y # x => frame'[y] = frame[y]
  BY <1>1 DEF Goto, FrameType
<1>4. /\ fires'[t][k] = n
      /\ \A u \in Triggers, j \in AllKeys : u # t \/ j # k => fires'[u][j] = fires[u][j]
  BY <1>1 DEF PutDedupe
<1> HIDE DEF n, t, k
<1>5. FiresApart'
  BY <1>3 DEF FiringInv, FiresApart, t, k
<1>6. FiresWanted'
  BY <1>3 DEF FiringInv, FiresWanted, t
<1>7. EditsWanted' /\ SettingsAreOperators' /\ OneRunPerEvent'
  BY <1>1, <1>3 DEF FiringInv, EditsWanted, SettingsAreOperators, OneRunPerEvent
<1>8. ASSUME NEW y \in Callers, y # x, frame[y].pc \in {"run", "dedupe", "stamp"},
             frame[y].at = t, frame[y].key = k
      PROVE  <<"delivery", t>> \in torn
  BY <1>8 DEF FiringInv, FiresApart, t, k
<1>9. FiresOnce'
  <2> SUFFICES ASSUME NEW y \in Callers
               PROVE  /\ frame'[y].pc = "run" => \A i \in DOMAIN runs :
                           runs[i] = [trigger |-> frame'[y].at, key |-> frame'[y].key]
                             => <<"delivery", frame'[y].at>> \in torn
                      /\ frame'[y].pc \in {"dedupe", "stamp"} =>
                           /\ frame'[y].run \in DOMAIN runs
                           /\ runs[frame'[y].run]
                              = [trigger |-> frame'[y].at, key |-> frame'[y].key]
                      /\ frame'[y].pc \in {"run", "dedupe"} =>
                           \/ fires'[frame'[y].at][frame'[y].key] = NoRun
                           \/ <<"delivery", frame'[y].at>> \in torn
                      /\ frame'[y].pc = "stamp" =>
                           \/ fires'[frame'[y].at][frame'[y].key] = frame'[y].run
                           \/ <<"delivery", frame'[y].at>> \in torn
    BY DEF FiresOnce
  <2>1. CASE y = x
    BY <1>2, <1>3, <1>4, <2>1
  <2>2. CASE y # x
    <3>1. frame'[y] = frame[y]
      BY <1>3, <2>2
    <3>2. frame[y].pc # "off" => frame[y].at \in Triggers /\ frame[y].key \in AllKeys
      BY <1>1, FrameOf
    <3>3. CASE frame[y].at = t /\ frame[y].key = k /\ frame[y].pc \in {"run", "dedupe", "stamp"}
      BY <1>8, <2>2, <3>1, <3>3 DEF FiringInv, FiresOnce
    <3>4. CASE frame[y].pc # "off" /\ (frame[y].at # t \/ frame[y].key # k)
      <4>1. fires'[frame[y].at][frame[y].key] = fires[frame[y].at][frame[y].key]
        BY <1>4, <3>2, <3>4
      <4> QED
        BY <3>1, <4>1 DEF FiringInv, FiresOnce
    <3>5. CASE frame[y].pc \notin {"run", "dedupe", "stamp"}
      BY <3>1, <3>5
    <3> QED
      BY <3>3, <3>4, <3>5
  <2> QED
    BY <2>1, <2>2
<1>10. RunsRecorded'
  <2> SUFFICES ASSUME NEW i \in DOMAIN runs, fires'[runs[i].trigger][runs[i].key] = NoRun,
                      <<"delivery", runs[i].trigger>> \notin torn
               PROVE  \E y \in Callers : frame'[y].pc = "dedupe" /\ frame'[y].run = i
    BY DEF RunsRecorded
  <2>1. runs[i].trigger \in Triggers /\ runs[i].key \in AllKeys
    <3> DEFINE firings == [trigger : Triggers, key : AllKeys]
    <3>1. runs \in Seq(firings)
      BY <1>1
    <3> HIDE DEF firings
    <3>2. runs[i] \in firings
      BY <3>1
    <3> QED
      BY <3>2 DEF firings
  <2>2. fires[runs[i].trigger][runs[i].key] = NoRun /\ ~(runs[i].trigger = t /\ runs[i].key = k)
    BY <1>2, <1>4, <2>1
  <2>3. PICK y \in Callers : frame[y].pc = "dedupe" /\ frame[y].run = i
    BY <2>2 DEF FiringInv, RunsRecorded
  <2>4. y # x
    BY <1>2, <2>2, <2>3 DEF n
  <2> QED
    BY <1>3, <2>3, <2>4
<1>11. RecordsSound'
  <2>1. \A u \in Triggers, j \in AllKeys : fires'[u][j] # NoRun =>
           fires'[u][j] \in DOMAIN runs /\ runs[fires'[u][j]] = [trigger |-> u, key |-> j]
    BY <1>2, <1>4 DEF FiringInv, RecordsSound
  <2>2. ASSUME NEW u \in Triggers, NEW r, LastRecorded(u, r)
        PROVE  LastRecorded(u, r)'
    <3> SUFFICES ASSUME r.last # NoRun, <<"delivery", u>> \notin torn
                 PROVE  \E j \in AllKeys : fires'[u][j] = r.last
      BY <2>2 DEF LastRecorded
    <3>1. PICK j \in AllKeys : fires[u][j] = r.last
      BY <2>2 DEF LastRecorded
    <3>2. u # t \/ j # k
      BY <1>2, <3>1
    <3> QED
      BY <1>4, <3>1, <3>2
  <2> QED
    BY <1>1, <1>3, <2>1, <2>2 DEF FiringInv, RecordsSound, TypeInv, FramesPlaced, Placed
<1> QED
  BY <1>5, <1>6, <1>7, <1>9, <1>10, <1>11 DEF Story

\* The trigger is put back as the fire read it, with the run as its last one.
LEMMA StampKeeps ==
  ASSUME FiringInv, NEW x \in Callers, At(x, "stamp"), Stamp(x), Leave(x),
         UNCHANGED <<fires, runs, wanted, torn>>
  PROVE  Story'
<1> USE DEF Cut, EditTorn, Pending, Event, At
<1> DEFINE t == frame[x].at
<1>1. /\ TypeInv /\ x # Operator /\ t \in Triggers /\ frame[x].key \in AllKeys
      /\ triggers \in [Triggers -> Records]
      /\ frame[x].seen \subseteq Records /\ frame[x].run \in 0..MaxRuns
  BY FrameOf DEF FiringInv, TypeInv, TypeOK, FrameType
<1>2. PICK r \in frame[x].seen : triggers' = [triggers EXCEPT ![t] = [r EXCEPT !.last = frame[x].run]]
  BY DEF Stamp
<1> DEFINE q == [r EXCEPT !.last = frame[x].run]
<1>3. /\ q.last = frame[x].run /\ Settings(q) = Settings(r) /\ r \in Records
  BY <1>1, <1>2 DEF Records, Settings
<1>4. /\ triggers'[t] = q
      /\ \A u \in Triggers : u # t => triggers'[u] = triggers[u]
  BY <1>1, <1>2
<1>5. /\ Rest(frame'[x]) /\ frame'[x].pc \notin {"run", "dedupe", "stamp"}
      /\ \A y \in Callers \cup {Operator} : y # x => frame'[y] = frame[y]
  BY <1>1, LeaveType DEF Rest
<1>6. \A y \in Callers : frame'[y].pc \in {"run", "dedupe", "stamp"} => frame'[y] = frame[y] /\ y # x
  BY <1>5
<1>7. frame'[Operator] = frame[Operator]
  BY <1>1, <1>5
<1> HIDE DEF q, t
<1>8. FiresApart' /\ FiresOnce' /\ OneRunPerEvent'
  BY <1>6 DEF FiringInv, FiresApart, FiresOnce, OneRunPerEvent
<1>9. FiresWanted'
  BY <1>6 DEF FiringInv, FiresWanted, MayFire, Settings
<1>10. EditsWanted'
  BY <1>7 DEF FiringInv, EditsWanted, Settings
<1>11. RunsRecorded'
  <2> SUFFICES ASSUME NEW i \in DOMAIN runs, fires[runs[i].trigger][runs[i].key] = NoRun,
                      <<"delivery", runs[i].trigger>> \notin torn
               PROVE  \E y \in Callers : frame'[y].pc = "dedupe" /\ frame'[y].run = i
    BY DEF RunsRecorded
  <2>1. PICK y \in Callers : frame[y].pc = "dedupe" /\ frame[y].run = i
    BY DEF FiringInv, RunsRecorded
  <2> QED
    BY <1>5, <2>1
<1>12. RecordsSound'
  <2>1. LastRecorded(t, q)
    BY <1>1, <1>3 DEF FiringInv, FiresOnce, LastRecorded, t
  <2>2. \A u \in Triggers : LastRecorded(u, triggers'[u])
    BY <1>4, <2>1 DEF FiringInv, RecordsSound
  <2> QED
    BY <1>7, <2>2 DEF FiringInv, RecordsSound, LastRecorded
<1>13. SettingsAreOperators'
  <2>1. <<"edit", t>> \in torn \/ Settings(q) = wanted[t]
    BY <1>1, <1>2, <1>3 DEF FiringInv, FiresWanted, t
  <2>2. \A u \in Triggers : Settings(triggers'[u]) = Settings(triggers[u])'
    BY DEF Settings
  <2> QED
    BY <1>4, <1>7, <2>1, <2>2 DEF FiringInv, SettingsAreOperators
<1> QED
  BY <1>8, <1>9, <1>10, <1>11, <1>12, <1>13 DEF Story

\* What an edit puts is what the operator means by it.
LEMMA EditedIsMeant ==
  ASSUME TypeInv, NEW t \in Triggers, NEW how \in Edits, NEW config \in Configs,
         BeginEdit(t, how, config)
  PROVE  Settings(Edited(triggers[t], how, config)) = Meant(Settings(triggers[t]), how, config)
<1> DEFINE r == triggers[t]
           on == r.stored /\ r.enabled
           w == Settings(r)
<1>1. /\ r \in Records /\ r.stored = (how # "create")
      /\ how # "reschedule" => config = r.config
  BY DEF BeginEdit, TypeInv, TypeOK
<1>2. /\ w = <<r.stored, on, r.config, r.template>>
      /\ r.stored \in BOOLEAN /\ on \in BOOLEAN /\ r.config \in Configs /\ r.template \in Texts
  BY <1>1 DEF Settings, Records, Texts
<1>3. w \in Wishes
  <2> HIDE DEF w, on, r
  <2> QED
    BY <1>2, QuadrupleIn DEF Wishes
<1>4. w[1] = r.stored /\ w[2] = on /\ w[3] = r.config /\ w[4] = r.template
  BY <1>2
<1>5. CASE how = "create"
  BY <1>5 DEF Edited, Installed, Settings, Meant
<1>6. CASE how = "reschedule"
  <2> DEFINE e == [r EXCEPT !.config = config]
  <2>1. /\ e.stored = r.stored /\ e.enabled = r.enabled /\ e.config = config
        /\ e.template = r.template
    BY <1>1 DEF Records
  <2>2. Settings(e) = <<r.stored, on, config, r.template>>
    BY <2>1 DEF Settings
  <2>3. Meant(w, how, config) = <<r.stored, on, config, r.template>>
    <3> HIDE DEF w, on, r
    <3>1. Meant(w, how, config) = [w EXCEPT ![3] = config]
      BY <1>6 DEF Meant
    <3> QED
      BY <1>3, <1>4, <3>1, Quadruple DEF Wishes
  <2> QED
    BY <1>6, <2>2, <2>3 DEF Edited
<1>7. CASE how = "retext"
  <2> DEFINE text == IF r.template = "good" THEN "blank" ELSE "good"
             e == [r EXCEPT !.template = text]
  <2>1. /\ e.stored = r.stored /\ e.enabled = r.enabled /\ e.config = r.config
        /\ e.template = text
    BY <1>1 DEF Records
  <2>2. Settings(e) = <<r.stored, on, r.config, text>>
    BY <2>1 DEF Settings
  <2>3. Meant(w, how, config) = <<r.stored, on, r.config, text>>
    <3>1. Meant(w, how, config) = [w EXCEPT ![4] = text]
      BY <1>4, <1>7 DEF Meant
    <3> HIDE DEF w, on, r, text
    <3> QED
      BY <1>3, <1>4, <3>1, Quadruple DEF Wishes
  <2> QED
    BY <1>7, <2>2, <2>3 DEF Edited
<1>8. CASE how = "toggle"
  <2> DEFINE e == [r EXCEPT !.enabled = ~r.enabled]
             flag == ~on
  <2>1. /\ e.stored = r.stored /\ e.enabled = ~r.enabled /\ e.config = r.config
        /\ e.template = r.template /\ r.stored = TRUE
    BY <1>1, <1>8 DEF Records
  <2>2. Settings(e) = <<r.stored, flag, r.config, r.template>>
    BY <2>1 DEF Settings
  <2>3. Meant(w, how, config) = <<r.stored, flag, r.config, r.template>>
    <3>1. Meant(w, how, config) = [w EXCEPT ![2] = flag]
      BY <1>4, <1>8 DEF Meant
    <3> HIDE DEF w, on, r, flag
    <3> QED
      BY <1>3, <1>4, <3>1, Quadruple DEF Wishes
  <2> QED
    BY <1>8, <2>2, <2>3 DEF Edited
<1>9. CASE how = "delete"
  <2> DEFINE e == [r EXCEPT !.stored = FALSE]
             no == FALSE
  <2>1. /\ e.stored = FALSE /\ e.enabled = r.enabled /\ e.config = r.config
        /\ e.template = r.template
    BY <1>1 DEF Records
  <2>2. Settings(e) = <<no, no, r.config, r.template>>
    BY <2>1 DEF Settings
  <2>3. Meant(w, how, config) = <<no, no, r.config, r.template>>
    <3>1. Meant(w, how, config) = [w EXCEPT ![1] = no, ![2] = no]
      BY <1>9 DEF Meant
    <3> HIDE DEF w, on, r, no
    <3> QED
      BY <1>3, <1>4, <3>1, Quadruple DEF Wishes
  <2> QED
    BY <1>9, <2>2, <2>3 DEF Edited
<1> QED
  BY <1>5, <1>6, <1>7, <1>8, <1>9 DEF Edits

\* An edit begins: the fires of the trigger that are under way are noted.
LEMMA BeginEditKeeps ==
  ASSUME FiringInv, NEW t \in Triggers, NEW how \in Edits, NEW config \in Configs,
         BeginEdit(t, how, config)
  PROVE  Story'
<1> USE DEF Cut, EditTorn, Pending, Event, At
<1> DEFINE r == Edited(triggers[t], how, config)
           f == [Off EXCEPT !.pc = "edit", !.at = t, !.seen = {r}]
           m == Meant(wanted[t], how, config)
<1>1. /\ TypeInv /\ frame[Operator].pc = "off"
      /\ \A y \in Callers : y # Operator
      /\ frame \in [Callers \cup {Operator} -> FrameType]
      /\ wanted \in [Triggers -> Wishes]
      /\ UNCHANGED <<triggers, fires, runs, now, board>>
  BY TriggerAssumptions DEF FiringInv, TypeInv, TypeOK, FrameType, BeginEdit, Wishes, Texts
<1>2. /\ frame' = [frame EXCEPT ![Operator] = f]
      /\ wanted' = [wanted EXCEPT ![t] = m]
  BY DEF BeginEdit
<1>3. f.pc = "edit" /\ f.at = t /\ f.seen = {r}
  <2> HIDE DEF r
  <2> QED
    BY DEF Off
<1>4. Settings(r) = m \/ <<"edit", t>> \in torn
  <2>1. Settings(triggers[t]) = wanted[t] \/ <<"edit", t>> \in torn
    BY <1>1 DEF FiringInv, SettingsAreOperators
  <2> QED
    BY <1>1, <2>1, EditedIsMeant
<1>5. LastRecorded(t, r)
  <2>1. r.last = triggers[t].last \/ r.last = NoRun
    <3>1. triggers[t] \in Records
      BY <1>1 DEF TypeInv, TypeOK
    <3> QED
      BY <3>1 DEF Edited, Edits, Installed, Records
  <2> QED
    BY <2>1 DEF FiringInv, RecordsSound, LastRecorded
<1> HIDE DEF f, r, m
<1>6. /\ \A y \in Callers : frame'[y] = frame[y]
      /\ frame'[Operator] = f
      /\ wanted'[t] = m
      /\ \A u \in Triggers : u # t => wanted'[u] = wanted[u]
  BY <1>1, <1>2
<1>7. /\ torn \subseteq torn'
      /\ \A y \in Callers : frame[y].at = t /\ frame[y].pc \in {"run", "dedupe", "stamp"}
                                => <<"edit", t>> \in torn'
  BY DEF BeginEdit, Firing
<1>8. FiresApart' /\ OneRunPerEvent'
  BY <1>1, <1>6, <1>7 DEF FiringInv, FiresApart, OneRunPerEvent
<1>9. FiresWanted'
  <2> SUFFICES ASSUME NEW y \in Callers, frame[y].pc \in {"run", "dedupe", "stamp"}
               PROVE  /\ frame[y].seen # {}
                      /\ \A q \in frame[y].seen :
                           MayFire(q) /\ (\/ <<"edit", frame[y].at>> \in torn'
                                          \/ Settings(q) = wanted'[frame[y].at])
    BY <1>6 DEF FiresWanted, MayFire, Settings
  <2>1. frame[y].at \in Triggers
    BY <1>1, FrameOf
  <2> QED
    BY <1>6, <1>7, <2>1 DEF FiringInv, FiresWanted
<1>10. EditsWanted'
  BY <1>3, <1>4, <1>6, <1>7 DEF EditsWanted, Settings
<1>11. FiresOnce'
  BY <1>1, <1>6, <1>7 DEF FiringInv, FiresOnce
<1>12. RunsRecorded'
  BY <1>1, <1>6, <1>7 DEF FiringInv, RunsRecorded
<1>13. RecordsSound'
  BY <1>1, <1>3, <1>5, <1>6, <1>7 DEF FiringInv, RecordsSound, LastRecorded
<1>14. SettingsAreOperators'
  BY <1>1, <1>3, <1>6, <1>7 DEF FiringInv, SettingsAreOperators, Settings
<1> QED
  BY <1>8, <1>9, <1>10, <1>11, <1>12, <1>13, <1>14 DEF Story

\* The edit is put.
LEMMA PutEditKeeps ==
  ASSUME FiringInv, PutEdit
  PROVE  Story'
<1> USE DEF Cut, EditTorn, Pending, Event, At
<1> DEFINE t == frame[Operator].at
<1>1. /\ TypeInv /\ t \in Triggers /\ frame[Operator].pc = "edit"
      /\ \A y \in Callers : y # Operator
      /\ frame \in [Callers \cup {Operator} -> FrameType]
      /\ triggers \in [Triggers -> Records]
      /\ UNCHANGED <<fires, runs, wanted, torn>>
  BY TriggerAssumptions
  DEF FiringInv, TypeInv, TypeOK, FrameType, FramesPlaced, Placed, PutEdit
<1>2. PICK r \in frame[Operator].seen : triggers' = [triggers EXCEPT ![t] = r]
  BY DEF PutEdit
<1>3. triggers'[t] = r /\ \A u \in Triggers : u # t => triggers'[u] = triggers[u]
  BY <1>1, <1>2
<1>4. /\ \A y \in Callers : frame'[y] = frame[y]
      /\ frame'[Operator].pc = "off"
  BY <1>1, OffType DEF PutEdit
<1>5. /\ LastRecorded(t, r)
      /\ <<"edit", t>> \in torn \/ Settings(r) = wanted[t]
  BY <1>1, <1>2 DEF FiringInv, EditsWanted, RecordsSound
<1> HIDE DEF t
<1>6. FiresApart' /\ OneRunPerEvent' /\ FiresOnce' /\ RunsRecorded'
  BY <1>1, <1>4 DEF FiringInv, FiresApart, OneRunPerEvent, FiresOnce, RunsRecorded
<1>7. FiresWanted' /\ EditsWanted'
  BY <1>1, <1>4 DEF FiringInv, FiresWanted, EditsWanted, MayFire, Settings
<1>8. RecordsSound'
  <2>1. \A u \in Triggers : LastRecorded(u, triggers'[u])
    BY <1>3, <1>5 DEF FiringInv, RecordsSound
  <2> QED
    BY <1>1, <1>4, <2>1 DEF FiringInv, RecordsSound, LastRecorded
<1>9. SettingsAreOperators'
  <2>1. \A u \in Triggers : Settings(triggers'[u]) = Settings(triggers[u])'
    BY DEF Settings
  <2> QED
    BY <1>1, <1>3, <1>5, <2>1 DEF FiringInv, SettingsAreOperators, t
<1> QED
  BY <1>6, <1>7, <1>8, <1>9 DEF Story

\* The process dies: what was between its run and its record has been noted.
LEMMA RestartKeeps ==
  ASSUME FiringInv, Restart
  PROVE  Story'
<1> USE DEF Cut, EditTorn, Pending, Event, At
<1>1. /\ TypeInv
      /\ wanted \in [Triggers -> Wishes]
      /\ UNCHANGED <<triggers, fires, runs>>
      /\ \A y \in Callers \cup {Operator} : frame'[y].pc = "off"
      /\ torn \subseteq torn'
      /\ \A y \in Callers : frame[y].pc = "dedupe" => <<"delivery", frame[y].at>> \in torn'
  BY OffType DEF FiringInv, TypeInv, TypeOK, Restart, Wishes, Texts
<1>2. \A t \in Triggers :
        wanted'[t] = IF frame[Operator].pc = "edit" /\ frame[Operator].at = t
                     THEN Settings(triggers[t]) ELSE wanted[t]
  BY DEF Restart
<1>3. FiresApart' /\ FiresOnce' /\ FiresWanted' /\ EditsWanted'
  BY <1>1 DEF FiresApart, FiresOnce, FiresWanted, EditsWanted
<1>4. OneRunPerEvent'
  BY <1>1 DEF FiringInv, OneRunPerEvent
<1>5. RunsRecorded'
  <2> SUFFICES ASSUME NEW i \in DOMAIN runs, fires[runs[i].trigger][runs[i].key] = NoRun,
                      <<"delivery", runs[i].trigger>> \notin torn'
               PROVE  FALSE
    BY <1>1 DEF RunsRecorded
  <2>1. PICK y \in Callers : frame[y].pc = "dedupe" /\ frame[y].run = i
    BY <1>1 DEF FiringInv, RunsRecorded
  <2> QED
    BY <1>1, <2>1, RunOfFire
<1>6. RecordsSound'
  BY <1>1 DEF FiringInv, RecordsSound, LastRecorded
<1>7. SettingsAreOperators'
  BY <1>1, <1>2 DEF FiringInv, SettingsAreOperators, Settings
<1> QED
  BY <1>3, <1>4, <1>5, <1>6, <1>7 DEF Story

\* Nothing of the firings moves.
LEMMA StillKeeps ==
  ASSUME FiringInv, UNCHANGED <<triggers, fires, runs, frame, wanted, torn>>
  PROVE  Story'
  BY DEF FiringInv, Story, FiresApart, FiresWanted, EditsWanted, FiresOnce, RunsRecorded,
         RecordsSound, LastRecorded, OneRunPerEvent, SettingsAreOperators, Cut, EditTorn,
         Pending, Event, At, MayFire, Settings

LEMMA FiringInit == Init => FiringInv
<1> SUFFICES ASSUME Init PROVE FiringInv
  OBVIOUS
<1>1. TypeInv
  BY InitType
<1>2. /\ \A x \in Callers \cup {Operator} : frame[x].pc = "off"
      /\ runs = <<>> /\ DOMAIN runs = {}
      /\ \A t \in Triggers : triggers[t].last = NoRun /\ wanted[t] = Settings(triggers[t])
      /\ \A t \in Triggers, k \in AllKeys : fires[t][k] = NoRun
  BY OffType DEF Init, Installed
<1> QED
  BY <1>1, <1>2
  DEF FiringInv, FiresApart, FiresWanted, EditsWanted, FiresOnce, RunsRecorded,
      RecordsSound, LastRecorded, OneRunPerEvent, SettingsAreOperators, Pending, At

LEMMA FiringStep == FiringInv /\ [Next]_vars => FiringInv'
<1> SUFFICES ASSUME FiringInv, [Next]_vars PROVE Story'
  <2>1. FiringInv /\ [Next]_vars => TypeInv'
    BY NextType DEF FiringInv
  <2> QED
    BY <2>1 DEF Story, FiringInv
<1>1. ASSUME NEW x \in Callers, CallSteps(x) PROVE Story'
  <2>1. CASE PutRun(x)
    BY <2>1, PutRunKeeps
  <2>2. CASE PutRecords(x)
    BY <2>2, PutDedupeKeeps, StampKeeps DEF PutRecords, AfterRun
  <2> QED
    BY <1>1, <2>1, <2>2 DEF CallSteps
<1>2. ASSUME NEW x \in Callers, FireFails(x) PROVE Story'
  <2>1. /\ Leave(x) /\ UNCHANGED <<triggers, fires, runs, wanted>> /\ torn \subseteq torn'
        /\ At(x, "dedupe") => <<"delivery", frame[x].at>> \in torn'
    BY <1>2 DEF FireFails, Refused
  <2> QED
    BY <2>1, LeaveType, LeaveKeeps DEF FiringInv
<1>3. ASSUME NEW p \in Polls, PollStart(p) PROVE Story'
  <2>1. p \in Callers /\ frame' = [frame EXCEPT ![p] = Stop(1)] /\ At(p, "off")
        /\ UNCHANGED <<triggers, fires, runs, wanted, torn>>
    BY <1>3 DEF PollStart, Callers
  <2>2. Rest(Stop(1)) /\ frame \in [Callers \cup {Operator} -> FrameType]
    BY StopType DEF Rest, FiringInv, TypeInv, TypeOK, FrameType
  <2>3. Rest(frame'[p]) /\ \A y \in Callers \cup {Operator} : y # p => frame'[y] = frame[y]
    BY <2>1, <2>2
  <2>4. ~At(p, "dedupe")
    BY <2>1 DEF At
  <2> QED
    BY <2>1, <2>3, <2>4, LeaveKeeps
<1>4. ASSUME NEW p \in Polls, PollAnswered(p) PROVE Story'
  <2> DEFINE t == frame[p].at
  <2>1. /\ p \in Callers /\ At(p, "ask") /\ ~Pending(p) /\ ~At(p, "dedupe")
        /\ UNCHANGED <<triggers, fires, runs, wanted>>
    BY <1>4 DEF PollAnswered, Callers, At, Pending
  <2>2. t \in Triggers /\ EventKey(t) \in AllKeys
    BY <2>1, FrameOf, EventKeyType DEF FiringInv, At
  <2>3. CASE Leave(p) /\ UNCHANGED torn
    BY <2>1, <2>3, LeaveType, LeaveKeeps DEF FiringInv
  <2>4. CASE Fire(p, t, EventKey(t))
    <3> HIDE DEF t
    <3> QED
      BY <2>1, <2>2, <2>4, FireKeeps
  <2> QED
    BY <1>4, <2>3, <2>4 DEF PollAnswered
<1>5. ASSUME NEW p \in Polls, TrackerFails(p) PROVE Story'
  <2>1. /\ p \in Callers /\ ~At(p, "dedupe") /\ Leave(p)
        /\ UNCHANGED <<triggers, fires, runs, wanted, torn>>
    BY <1>5 DEF TrackerFails, Callers, At
  <2> QED
    BY <2>1, LeaveType, LeaveKeeps DEF FiringInv
<1>6. ASSUME NEW x \in Pushes, NEW t \in Triggers, NEW k \in Keys,
             Push(x, t, k) \/ FireNow(x, t, k)
      PROVE  Story'
  <2>1. /\ x \in Callers /\ k \in AllKeys /\ ~Pending(x) /\ Fire(x, t, k)
        /\ UNCHANGED <<triggers, fires, runs, wanted>>
    BY <1>6, KeysNat DEF Push, FireNow, Callers, At, Pending
  <2> QED
    BY <2>1, FireKeeps
<1>7. CASE Minute \/ (\E k \in Keys \cup {NoKey} : IssueMoves(k)) \/ UNCHANGED vars
  BY <1>7, StillKeeps DEF Minute, IssueMoves, vars
<1>8. ASSUME NEW t \in Triggers, NEW how \in Edits, NEW config \in Configs,
             BeginEdit(t, how, config)
      PROVE  Story'
  BY <1>8, BeginEditKeeps
<1> QED
  BY <1>1, <1>2, <1>3, <1>4, <1>5, <1>6, <1>7, <1>8, PutEditKeeps, RestartKeeps
  DEF Next, PollSteps

-----------------------------------------------------------------------------
(* The announced next run *)

\* The slot of a period is its number.
LEMMA EverySlot ==
  ASSUME NEW c, c.form = "every", c.n \in Nat \ {0}, NEW anchor \in Nat, NEW t \in Nat,
         NEW q \in Nat, q * c.n <= t - anchor, t - anchor < q * c.n + c.n
  PROVE  DueSlot(c, anchor, t) = q
<1> DEFINE n == c.n
           x == t - anchor
<1>1. n \in Nat \ {0} /\ q * n \in Nat
  OBVIOUS
<1>2. x \in Nat /\ q * n <= x /\ x < q * n + n
  BY <1>1
<1>3. x \div n = q
  <2> HIDE DEF x, n
  <2> QED
    BY <1>1, <1>2, DivUnique
<1>4. DueSlot(c, anchor, t) = IF x < n THEN NoKey ELSE x \div n
  BY DEF DueSlot
<1> HIDE DEF x, n
<1>5. CASE x < n
  <2>1. q = 0
    <3>1. CASE q >= 1
      <4>1. q * n >= n
        BY <1>1, <3>1
      <4> QED
        BY <1>1, <1>2, <1>5, <4>1
    <3> QED
      BY <3>1
  <2> QED
    BY <1>4, <1>5, <2>1 DEF NoKey
<1> QED
  BY <1>3, <1>4, <1>5

\* The hour of a time is the one it lies in.
LEMMA FloorUnique ==
  ASSUME NEW q \in Nat, NEW t \in Nat, q * Hour <= t, t < q * Hour + Hour
  PROVE  Floor(t, Hour) = q * Hour
  BY DivUnique, TriggerAssumptions DEF Floor

\* A period: the next run is at its end.
LEMMA NextEvery ==
  ASSUME NEW c, c.form = "every", c.n \in Nat \ {0}, NEW anchor \in Nat, NEW t \in Nat,
         t >= anchor
  PROVE  /\ NextRun(c, anchor, t) > t
         /\ DueSlot(c, anchor, NextRun(c, anchor, t)) \notin {NoKey, DueSlot(c, anchor, t)}
         /\ \A at \in t..(NextRun(c, anchor, t) - 1) :
              DueSlot(c, anchor, at) = DueSlot(c, anchor, t)
<1> DEFINE n == c.n
           q == (t - anchor) \div n
           next == NextRun(c, anchor, t)
<1>1. n \in Nat \ {0} /\ t - anchor \in Nat
  OBVIOUS
<1>2. q \in Nat /\ q * n <= t - anchor /\ t - anchor < q * n + n
  BY <1>1, DivBounds
<1>3. next = anchor + (q + 1) * n
  BY DEF NextRun
<1> HIDE DEF q, next
<1>4. q * n \in Nat /\ (q + 1) * n = q * n + n
  BY <1>1, <1>2
<1>5. next \in Nat /\ next = anchor + q * n + n /\ next > t
  BY <1>1, <1>2, <1>3, <1>4
<1>6. ASSUME NEW at \in Nat, t <= at, at < next
      PROVE  DueSlot(c, anchor, at) = q
  <2>1. q * n <= at - anchor /\ at - anchor < q * n + n
    BY <1>1, <1>2, <1>4, <1>5, <1>6
  <2> QED
    BY <1>2, <2>1, EverySlot
<1>7. DueSlot(c, anchor, next) = q + 1
  <2>1. q + 1 \in Nat /\ (q + 1) * n <= next - anchor /\ next - anchor < (q + 1) * n + n
    BY <1>1, <1>2, <1>4, <1>5
  <2> QED
    BY <1>5, <2>1, EverySlot
<1>8. DueSlot(c, anchor, t) = q
  BY <1>5, <1>6
<1> HIDE DEF n
<1>9. \A at \in t..(next - 1) : DueSlot(c, anchor, at) = q
  BY <1>5, <1>6
<1> QED
  BY <1>2, <1>5, <1>7, <1>8, <1>9 DEF next, NoKey

LEMMA LatestMinute ==
  ASSUME NEW minute \in Nat, NEW time \in Nat
  PROVE  MinuteAtOrBefore(minute, time)
           = IF Floor(time, Hour) + minute <= time THEN Floor(time, Hour) + minute
             ELSE IF Floor(time, Hour) + minute >= Hour
             THEN Floor(time, Hour) + minute - Hour ELSE NoKey
<1>1. Floor(time, Hour) \in Nat /\ Hour \in Nat
  BY FloorBounds, TriggerAssumptions
<1> QED
  BY <1>1 DEF MinuteAtOrBefore, NoKey

\* A minute of the hour: the next run is in this hour or in the next one.
LEMMA NextMinute ==
  ASSUME NEW c, c.form = "minute", c.n \in Nat, c.n < Hour, NEW anchor \in Nat, NEW t \in Nat,
         t >= anchor
  PROVE  /\ NextRun(c, anchor, t) > t
         /\ DueSlot(c, anchor, NextRun(c, anchor, t)) \notin {NoKey, DueSlot(c, anchor, t)}
         /\ \A at \in t..(NextRun(c, anchor, t) - 1) :
              DueSlot(c, anchor, at) = DueSlot(c, anchor, t)
<1> DEFINE m == c.n
           q == t \div Hour
           h == q * Hour
           next == NextRun(c, anchor, t)
           Latest(at) == MinuteAtOrBefore(m, at)
<1>0. Hour \in Nat \ {0} /\ m \in Nat /\ m < Hour
  BY TriggerAssumptions
<1>1. q \in Nat /\ h <= t /\ t < h + Hour
  BY <1>0, DivBounds
<1>2. h \in Nat /\ (q + 1) * Hour = h + Hour
  BY <1>0, <1>1
<1>3. \A at \in Nat : h <= at /\ at < h + Hour => Floor(at, Hour) = h
  BY <1>1, FloorUnique
<1>4. \A at \in Nat : h + Hour <= at /\ at < h + Hour + Hour => Floor(at, Hour) = h + Hour
  <2>1. q + 1 \in Nat
    BY <1>1
  <2>2. \A at \in Nat : (q + 1) * Hour <= at /\ at < (q + 1) * Hour + Hour
                           => Floor(at, Hour) = (q + 1) * Hour
    BY <2>1, FloorUnique
  <2> QED
    BY <1>2, <2>2
<1>5. next = IF h + m > t THEN h + m ELSE h + m + Hour
  BY <1>1, <1>3 DEF NextRun, HasSlots
<1>6. \A at \in Nat : DueSlot(c, anchor, at) = IF Latest(at) >= anchor THEN Latest(at) ELSE NoKey
  BY DEF DueSlot, HasSlots
<1>7. ASSUME NEW at \in Nat
      PROVE  Latest(at) = IF Floor(at, Hour) + m <= at THEN Floor(at, Hour) + m
                          ELSE IF Floor(at, Hour) + m >= Hour
                          THEN Floor(at, Hour) + m - Hour ELSE NoKey
  BY <1>0, LatestMinute
<1> HIDE DEF m, q, h, next, Latest
<1>8. next \in Nat /\ next > t
  BY <1>0, <1>1, <1>2, <1>5
<1>9. Latest(next) = next
  <2>1. CASE h + m > t
    <3>1. Floor(next, Hour) = h
      BY <1>0, <1>2, <1>3, <1>5, <1>8, <2>1
    <3> QED
      BY <1>5, <1>7, <1>8, <2>1, <3>1
  <2>2. CASE ~(h + m > t)
    <3>1. Floor(next, Hour) = h + Hour
      BY <1>0, <1>2, <1>4, <1>5, <1>8, <2>2
    <3> QED
      BY <1>0, <1>2, <1>5, <1>7, <1>8, <2>2, <3>1
  <2> QED
    BY <2>1, <2>2
<1>10. DueSlot(c, anchor, next) = next
  BY <1>6, <1>8, <1>9
<1>11. Latest(t) \in Nat /\ Latest(t) <= t
  BY <1>0, <1>1, <1>2, <1>3, <1>7 DEF NoKey
<1>12. ASSUME NEW at \in Nat, t <= at, at < next PROVE Latest(at) = Latest(t)
  <2>1. Floor(t, Hour) = h
    BY <1>1, <1>3
  <2>2. CASE h + m > t
    <3>1. Floor(at, Hour) = h
      BY <1>0, <1>1, <1>2, <1>3, <1>5, <1>12, <2>2
    <3> QED
      BY <1>5, <1>7, <1>12, <2>1, <2>2, <3>1
  <2>3. CASE ~(h + m > t) /\ at < h + Hour
    <3>1. Floor(at, Hour) = h
      BY <1>1, <1>2, <1>3, <1>12, <2>3
    <3> QED
      BY <1>0, <1>2, <1>7, <1>12, <2>1, <2>3, <3>1
  <2>4. CASE ~(h + m > t) /\ ~(at < h + Hour)
    <3>1. Floor(at, Hour) = h + Hour
      BY <1>0, <1>2, <1>4, <1>5, <1>12, <2>4
    <3> QED
      BY <1>0, <1>1, <1>2, <1>5, <1>7, <1>12, <2>1, <2>4, <3>1
  <2> QED
    BY <2>2, <2>3, <2>4
<1>13. \A at \in t..(next - 1) : DueSlot(c, anchor, at) = DueSlot(c, anchor, t)
  BY <1>6, <1>8, <1>12
<1>14. DueSlot(c, anchor, t) # next
  BY <1>6, <1>8, <1>11 DEF NoKey
<1> QED
  BY <1>8, <1>10, <1>13, <1>14 DEF next, NoKey

LEMMA NextSlot == TypeInv => NextRunIsNextSlot
<1> SUFFICES ASSUME TypeInv, NEW t \in Triggers, now >= triggers[t].anchor
             PROVE  LET r == triggers[t]
                        next == NextRun(r.config, r.anchor, now)
                    IN IF HasSlots(r.config)
                       THEN /\ next > now
                            /\ DueSlot(r.config, r.anchor, next)
                                 \notin {NoKey, DueSlot(r.config, r.anchor, now)}
                            /\ \A at \in now..(next - 1) :
                                 DueSlot(r.config, r.anchor, at)
                                   = DueSlot(r.config, r.anchor, now)
                       ELSE next = NoKey /\ DueSlot(r.config, r.anchor, now) = NoKey
  BY DEF NextRunIsNextSlot
<1> DEFINE c == triggers[t].config
           anchor == triggers[t].anchor
<1>1. /\ now \in Nat /\ anchor \in Nat /\ Valid(c)
      /\ c \in [form : {"every"}, n : Nat] \cup [form : {"minute"}, n : Nat \ {NoKey}]
  BY TriggerAssumptions DEF TypeInv, TypeOK, SchedulesValid, Records
<1> HIDE DEF c, anchor
<1>2. CASE c.form = "every"
  <2>1. c.n \in Nat \ {0} /\ HasSlots(c)
    BY <1>1, <1>2 DEF Valid, HasSlots
  <2> QED
    BY <1>1, <1>2, <2>1, NextEvery DEF c, anchor
<1>3. CASE c.form = "minute" /\ HasSlots(c)
  <2>1. c.n \in Nat /\ c.n < Hour
    BY <1>1, <1>3 DEF HasSlots
  <2> QED
    BY <1>1, <1>3, <2>1, NextMinute DEF c, anchor
<1>4. CASE c.form = "minute" /\ ~HasSlots(c)
  BY <1>4 DEF NextRun, DueSlot, c, anchor
<1> QED
  BY <1>1, <1>2, <1>3, <1>4 DEF c

-----------------------------------------------------------------------------
(* Theorems *)

LEMMA FiringSettled == FiringInv => FiringsInv
<1> SUFFICES ASSUME FiringInv PROVE FiringsInv
  OBVIOUS
<1>1. ASSUME NEW t \in Triggers, triggers[t].last # NoRun
      PROVE  \E k \in AllKeys : fires[t][k] = triggers[t].last \/ <<"delivery", t>> \in torn
  <2>1. (\E k \in AllKeys : fires[t][k] = triggers[t].last) \/ Cut(t)
    BY <1>1 DEF FiringInv, RecordsSound, LastRecorded
  <2> QED
    BY <2>1, KeysNat DEF Cut
<1>2. FiringsRecorded
  BY <1>1 DEF FiringInv, RecordsSound, FiringsRecorded
<1> QED
  BY <1>2, NextSlot DEF FiringInv, FiringsInv, TypeInv

\* Runs, records of firings, triggers and slots tell one story: one event
\* creates one run, no fire reverts what the operator set, every record names a
\* run of its event, and the announced next run is that of the next slot, for
\* any number of polls, pushes, edits, faults and restarts (trigger-service.ts).
THEOREM FiringsInvHolds == Spec => []FiringsInv
  BY FiringInit, FiringStep, FiringSettled, PTL DEF Spec

LEMMA EnabledIsWanted ==
  ASSUME NEW r, MayFire(r)
  PROVE  Settings(r)[2]
<1> DEFINE on == r.stored /\ r.enabled
<1>1. on
  BY DEF MayFire
<1>2. Settings(r) = <<r.stored, on, r.config, r.template>>
  BY DEF Settings
<1>3. Settings(r)[2] = on
  <2> HIDE DEF on
  <2> QED
    BY <1>2
<1> QED
  BY <1>1, <1>3

LEMMA QuietStep ==
  ASSUME FiringInv, [Next]_vars, NEW i \in DOMAIN runs' \ DOMAIN runs
  PROVE  wanted[runs'[i].trigger][2] \/ <<"edit", runs'[i].trigger>> \in torn
<1>1. PICK x \in Callers : PutRun(x)
  <2>1. runs' # runs
    OBVIOUS
  <2> QED
    BY <2>1
    DEF Next, CallSteps, PollSteps, PutRecords, FireFails, PollStart, PollAnswered, TrackerFails,
        Push, FireNow, BeginEdit, PutEdit, Minute, IssueMoves, Restart, vars
<1> DEFINE t == frame[x].at
<1>2. runs' = Append(runs, [trigger |-> t, key |-> frame[x].key]) /\ Pending(x)
  BY <1>1 DEF PutRun, Pending, At
<1>3. runs \in Seq([trigger : Triggers, key : AllKeys])
  BY DEF FiringInv, TypeInv, TypeOK
<1>4. runs'[i].trigger = t
  BY <1>2, <1>3
<1>5. PICK r \in frame[x].seen : MayFire(r) /\ (EditTorn(t) \/ Settings(r) = wanted[t])
  BY <1>2 DEF FiringInv, FiresWanted
<1>6. Settings(r)[2]
  BY <1>5, EnabledIsWanted
<1> QED
  BY <1>4, <1>5, <1>6 DEF EditTorn

\* A trigger the operator disabled or deleted creates no run, however long the
\* poll that found it enabled waited, unless its fire was already under way.
THEOREM QuietWhenDisabledHolds == Spec => QuietWhenDisabled
<1>1. FiringInv /\ [Next]_vars =>
        [\A i \in DOMAIN runs' \ DOMAIN runs :
           wanted[runs'[i].trigger][2] \/ <<"edit", runs'[i].trigger>> \in torn]_vars
  BY QuietStep
<1> QED
  BY <1>1, FiringInit, FiringStep, PTL DEF Spec, QuietWhenDisabled
=============================================================================
