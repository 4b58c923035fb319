------------------------------- MODULE Triggers -------------------------------
(***************************************************************************)
(* The triggers of a project (src/src/triggers): durable rules that create *)
(* Project Runs from a clock, from the board of a tracker and from pushed  *)
(* events, once per event.                                                 *)
(*                                                                         *)
(* A poll walks over the triggers with an await per adapter and per write; *)
(* its timer (src/src/index.ts) does not wait for the previous poll.  A    *)
(* pushed event is fired at once.  Both are callers of `fire`, whose three *)
(* writes (run, dedupe record, trigger) are awaits apart, and an edit of   *)
(* the operator is a read and a queued write.                              *)
(*                                                                         *)
(* An event is known by its key: the slot of a schedule, the state in      *)
(* which the issue of a tracker is ready, the id of a pushed payload.      *)
(* Goals are left out, but a template may render to nothing.               *)
(***************************************************************************)
EXTENDS Naturals, Sequences, FiniteSets

CONSTANTS
  KindOf,      \* the type of each trigger, in the order of the table
  Polls,       \* polls that may be under way at once
  Pushes,      \* pushed events that may be under way at once
  Keys,        \* tracker states and payload ids
  Configs,     \* schedules an operator may choose
  Hour,        \* minutes of an hour, the unit of the clock
  MaxNow,      \* bound on the clock
  MaxRuns,     \* bound on the runs created
  MaxAsks      \* bound on edits, pushes, moves of the issue, faults, restarts

Triggers == DOMAIN KindOf
Callers == Polls \cup Pushes
Operator == "operator"
NoRun == 0
NoKey == 0

\* The adapters a poll drives; the others listen to pushed events.
PullKinds == {"schedule", "tracker"}

ASSUME TriggerAssumptions ==
  /\ KindOf \in Seq({"schedule", "tracker", "webhook"})
  /\ Polls \cap Pushes = {} /\ Operator \notin Callers
  /\ Keys # {} /\ Keys \subseteq Nat \ {NoKey}
  /\ Configs \subseteq [form : {"every"}, n : Nat] \cup [form : {"minute"}, n : Nat \ {NoKey}]
  /\ Hour \in Nat \ {0} /\ MaxNow \in Nat /\ MaxRuns \in Nat /\ MaxAsks \in Nat

VARIABLES
  triggers,   \* the trigger records
  fires,      \* the dedupe record of each trigger and key: the run it created
  runs,       \* the runs, each with the trigger and key it was created for
  now,        \* minutes since the service was installed
  board,      \* the ready state of the issue, or NoKey
  frame,      \* the awaits of the callers and of the operator
  asks,
  wanted,     \* history: what the operator last asked of each trigger
  torn        \* history: deliveries and edits that overlapped or were cut short

vars == <<triggers, fires, runs, now, board, frame, asks, wanted, torn>>

AllKeys == Keys \cup 0..MaxNow

\* ProjectTriggerRecord.  A template is good or renders to a blank goal.
Records == [stored : BOOLEAN, enabled : BOOLEAN, config : Configs,
            template : {"good", "blank"}, anchor : 0..MaxNow, last : 0..MaxRuns]

Settings(r) == <<r.stored, r.stored /\ r.enabled, r.config, r.template>>

\* Where a caller stands.
\*   ask     a poll awaits the adapter of trigger `at`
\*   run, dedupe, stamp   a fire: its put of run, dedupe record, trigger is queued
\*   edit    the operator's write of `seen` to trigger `at` is queued
Off == [pc |-> "off", at |-> 0, key |-> NoKey, run |-> NoRun, seen |-> {}]

TypeOK ==
  /\ triggers \in [Triggers -> Records]
  /\ fires \in [Triggers -> [AllKeys -> 0..MaxRuns]]
  /\ runs \in Seq([trigger : Triggers, key : AllKeys]) /\ Len(runs) <= MaxRuns
  /\ now \in 0..MaxNow /\ board \in Keys \cup {NoKey}
  /\ frame \in [Callers \cup {Operator} ->
       [pc : {"off", "ask", "run", "dedupe", "stamp", "edit"},
        at : 0..Len(KindOf), key : AllKeys, run : 0..MaxRuns,
        seen : SUBSET Records]]
  /\ asks \in 0..MaxAsks
  /\ wanted \in [Triggers -> BOOLEAN \X BOOLEAN \X Configs \X {"good", "blank"}]
  /\ torn \subseteq {"delivery", "edit"} \X Triggers

\* validateConfig: a period of at least one unit; of a cron it reads nothing.
Valid(config) == config.form = "every" => config.n >= 1

\* The adapter knows a slot of it.  A minute that no hour has stands for every
\* cron text that is accepted and has none.
HasSlots(config) == config.form = "minute" => config.n < Hour

\* Every trigger is installed, with the schedule `config`.
Installed(config) == [stored |-> TRUE, enabled |-> TRUE, config |-> config,
                      template |-> "good", anchor |-> 0, last |-> NoRun]

Init ==
  /\ \E config \in {c \in Configs : Valid(c)} :
        triggers = [t \in Triggers |-> Installed(config)]
  /\ fires = [t \in Triggers |-> [k \in AllKeys |-> NoRun]]
  /\ runs = <<>> /\ now = 0 /\ board = CHOOSE k \in Keys : TRUE
  /\ frame = [x \in Callers \cup {Operator} |-> Off]
  /\ asks = 0 /\ torn = {}
  /\ wanted = [t \in Triggers |-> Settings(triggers[t])]

At(x, pc) == frame[x].pc = pc
Goto(x, pc) == frame' = [frame EXCEPT ![x].pc = pc]

\* A disturbance: a request, a delivery, a fault.
Ask == asks < MaxAsks /\ asks' = asks + 1

-----------------------------------------------------------------------------
(* The schedule adapter *)

Floor(x, n) == (x \div n) * n

\* The latest minute m of an hour that is not after t, in the hour of t or the
\* one before it.
MinuteAtOrBefore(m, t) ==
  LET here == Floor(t, Hour) + m
  IN IF here <= t THEN here ELSE IF here >= Hour THEN here - Hour ELSE NoKey

\* Mutant of DueSlot: a period is over only after its last minute.
DueSlotLate(c, anchor, t) ==
  IF c.form = "every"
  THEN IF t - anchor <= c.n THEN NoKey ELSE (t - anchor) \div c.n
  ELSE IF ~HasSlots(c) THEN NoKey
  ELSE LET slot == MinuteAtOrBefore(c.n, t) IN IF slot >= anchor THEN slot ELSE NoKey

\* computeScheduleSlot: the number of the period, or the time of the minute,
\* that is due at t.  Cron's */N counts its periods like everyMs.
DueSlot(c, anchor, t) ==
  IF c.form = "every"
  THEN IF t - anchor < c.n THEN NoKey ELSE (t - anchor) \div c.n
  ELSE IF ~HasSlots(c) THEN NoKey
  ELSE LET slot == MinuteAtOrBefore(c.n, t) IN IF slot >= anchor THEN slot ELSE NoKey

\* computeNextRunAt: the time the Dashboard announces for the next run.
NextRun(c, anchor, t) ==
  IF c.form = "every"
  THEN anchor + ((t - anchor) \div c.n + 1) * c.n
  ELSE IF ~HasSlots(c) THEN NoKey
  ELSE LET here == Floor(t, Hour) + c.n IN IF here > t THEN here ELSE here + Hour

-----------------------------------------------------------------------------
(* fire *)

\* A fire of t is under way that read the trigger and has not written it back.
Firing(x, t) == frame[x].at = t /\ frame[x].pc \in {"run", "dedupe", "stamp"}

\* Mutant of MayFire: the poll looked at the flag already.
MayFireStored(r) == r.stored

\* An unknown trigger throws, a disabled one is left alone.
MayFire(r) == r.stored /\ r.enabled

\* Where a poll stands that looks for work from trigger t on: at the adapter of
\* the next enabled trigger that has a poll.
Stop(t) ==
  LET due == {u \in Triggers : /\ u >= t /\ KindOf[u] \in PullKinds
                               /\ triggers[u].stored /\ triggers[u].enabled}
  IN IF due = {} THEN Off
     ELSE [Off EXCEPT !.pc = "ask", !.at = CHOOSE u \in due : \A v \in due : u <= v]

\* Nothing is left to do for this trigger: a poll goes on to the next one, a
\* pushed event is over.
Leave(x) == frame' = [frame EXCEPT ![x] = IF x \in Polls THEN Stop(frame[x].at + 1) ELSE Off]

\* Mutant of Refused: an error of one trigger ends the poll.
RefusedForGood(x) == frame' = [frame EXCEPT ![x] = Off]

\* A fire throws; the loop of the poll catches it.
Refused(x) == Leave(x)

\* Mutant of Known: only the event fired last is remembered.
KnownLast(t, k) == triggers[t].last # NoRun /\ runs[triggers[t].last].key = k

\* The dedupe check, on the records that are there.
Known(t, k) == fires[t][k] # NoRun

\* fire up to the put of the run.
Fire(x, t, k) ==
  IF ~MayFire(triggers[t]) \/ Known(t, k) \/ Len(runs) = MaxRuns
  THEN Leave(x) /\ UNCHANGED torn
  ELSE IF triggers[t].template = "blank"
  THEN Refused(x) /\ UNCHANGED torn
  ELSE /\ frame' = [frame EXCEPT ![x] = [pc |-> "run", at |-> t, key |-> k, run |-> NoRun,
                                         seen |-> {triggers[t]}]]
       /\ torn' = torn
            \cup (IF \E y \in Callers \ {x} : Firing(y, t) /\ frame[y].key = k
                  THEN {<<"delivery", t>>} ELSE {})
            \cup (IF At(Operator, "edit") /\ frame[Operator].at = t
                  THEN {<<"edit", t>>} ELSE {})

\* createRun.
PutRun(x) ==
  /\ At(x, "run")
  /\ IF Len(runs) < MaxRuns
     THEN /\ runs' = Append(runs, [trigger |-> frame[x].at, key |-> frame[x].key])
          /\ frame' = [frame EXCEPT ![x].pc = "dedupe", ![x].run = Len(runs) + 1]
     ELSE Leave(x) /\ UNCHANGED runs
  /\ UNCHANGED <<triggers, fires, now, board, asks, wanted, torn>>

\* Mutant of PutDedupe: the event is recorded where its run belongs.
PutDedupeKey(x) ==
  fires' = [fires EXCEPT ![frame[x].at][frame[x].key] = frame[x].key]

PutDedupe(x) ==
  fires' = [fires EXCEPT ![frame[x].at][frame[x].key] = frame[x].run]

\* The trigger is put as it was read, with its last run.
Stamp(x) ==
  \E r \in frame[x].seen :
    triggers' = [triggers EXCEPT ![frame[x].at] = [r EXCEPT !.last = frame[x].run]]

\* Mutant of AfterRun: the trigger is stamped before the dedupe record is put.
AfterRunStamp(x) ==
  \/ At(x, "dedupe") /\ Stamp(x) /\ Goto(x, "stamp") /\ UNCHANGED fires
  \/ At(x, "stamp") /\ PutDedupe(x) /\ Leave(x) /\ UNCHANGED triggers

\* The dedupe record is put, and then the trigger.
AfterRun(x) ==
  \/ At(x, "dedupe") /\ PutDedupe(x) /\ Goto(x, "stamp") /\ UNCHANGED triggers
  \/ At(x, "stamp") /\ Stamp(x) /\ Leave(x) /\ UNCHANGED fires

PutRecords(x) ==
  /\ AfterRun(x)
  /\ UNCHANGED <<runs, now, board, asks, wanted, torn>>

\* A put of the fire throws; the caller logs it and what is stored stays.
FireFails(x) ==
  /\ Ask
  /\ frame[x].pc \in {"run", "dedupe", "stamp"}
  /\ Refused(x)
  /\ torn' = IF At(x, "dedupe") THEN torn \cup {<<"delivery", frame[x].at>>} ELSE torn
  /\ UNCHANGED <<triggers, fires, runs, now, board, wanted>>

-----------------------------------------------------------------------------
(* pollDueTriggers, and the push listeners *)

\* The timer.
PollStart(p) ==
  /\ At(p, "off") /\ Stop(1) # Off
  /\ frame' = [frame EXCEPT ![p] = Stop(1)]
  /\ UNCHANGED <<triggers, fires, runs, now, board, asks, wanted, torn>>

\* The key of the event an adapter yields: the slot that is due, the state in
\* which listIssuesByStates finds the issue ready.
EventKey(t) ==
  IF KindOf[t] = "schedule" THEN DueSlot(triggers[t].config, triggers[t].anchor, now) ELSE board

\* The adapter answers, and what it yields is fired.
PollAnswered(p) ==
  LET t == frame[p].at IN
  /\ At(p, "ask")
  /\ IF EventKey(t) = NoKey THEN Leave(p) /\ UNCHANGED torn ELSE Fire(p, t, EventKey(t))
  /\ UNCHANGED <<triggers, fires, runs, now, board, asks, wanted>>

\* The source of a tracker cannot be read.
TrackerFails(p) ==
  /\ Ask /\ At(p, "ask") /\ KindOf[frame[p].at] = "tracker"
  /\ Leave(p)
  /\ UNCHANGED <<triggers, fires, runs, now, board, wanted, torn>>

\* An event is pushed.  The listener wants the trigger enabled; a payload
\* without an id is rejected by the adapter.
Push(x, t, k) ==
  /\ Ask /\ At(x, "off")
  /\ KindOf[t] \notin PullKinds /\ MayFire(triggers[t])
  /\ Fire(x, t, k)
  /\ UNCHANGED <<triggers, fires, runs, now, board, wanted>>

\* The operator fires a trigger of any kind (the RPC triggerFire), with an
\* event or with one made up for the request.
FireNow(x, t, k) ==
  /\ Ask /\ At(x, "off")
  /\ Fire(x, t, k)
  /\ UNCHANGED <<triggers, fires, runs, now, board, wanted>>

-----------------------------------------------------------------------------
(* Edits of the operator: create, update, setEnabled, delete *)

Edits == {"create", "reschedule", "retext", "toggle", "delete"}

\* Mutant of Edited: an update writes the defaults of a new trigger.
EditedEnabled(r, how, config) ==
  CASE how = "create" -> [Installed(config) EXCEPT !.anchor = now]
    [] how = "reschedule" -> [r EXCEPT !.config = config, !.enabled = TRUE]
    [] how = "retext" -> [r EXCEPT !.template = IF @ = "good" THEN "blank" ELSE "good",
                                   !.enabled = TRUE]
    [] how = "toggle" -> [r EXCEPT !.enabled = ~@]
    [] how = "delete" -> [r EXCEPT !.stored = FALSE]

\* The record an edit of r puts.
Edited(r, how, config) ==
  CASE how = "create" -> [Installed(config) EXCEPT !.anchor = now]
    [] how = "reschedule" -> [r EXCEPT !.config = config]
    [] how = "retext" -> [r EXCEPT !.template = IF @ = "good" THEN "blank" ELSE "good"]
    [] how = "toggle" -> [r EXCEPT !.enabled = ~@]
    [] how = "delete" -> [r EXCEPT !.stored = FALSE]

\* What the operator means by it.
Meant(w, how, config) ==
  CASE how = "create" -> <<TRUE, TRUE, config, "good">>
    [] how = "reschedule" -> [w EXCEPT ![3] = config]
    [] how = "retext" -> [w EXCEPT ![4] = IF @ = "good" THEN "blank" ELSE "good"]
    [] how = "toggle" -> [w EXCEPT ![2] = ~@]
    [] how = "delete" -> [w EXCEPT ![1] = FALSE, ![2] = FALSE]

\* A deleted trigger never comes back; a new one takes its place in the table
\* here, when nothing of the old one is left.
BeginEdit(t, how, config) ==
  /\ Ask /\ At(Operator, "off")
  /\ Valid(config)
  /\ how = "reschedule" => KindOf[t] = "schedule"
  /\ how # "reschedule" => config = triggers[t].config
  /\ triggers[t].stored = (how # "create")
  /\ how = "create" => /\ \A k \in AllKeys : fires[t][k] = NoRun
                       /\ \A x \in Callers : frame[x].at # t
  /\ frame' = [frame EXCEPT ![Operator] =
       [Off EXCEPT !.pc = "edit", !.at = t, !.seen = {Edited(triggers[t], how, config)}]]
  /\ wanted' = [wanted EXCEPT ![t] = Meant(@, how, config)]
  /\ torn' = IF \E x \in Callers : Firing(x, t) THEN torn \cup {<<"edit", t>>} ELSE torn
  /\ UNCHANGED <<triggers, fires, runs, now, board>>

PutEdit ==
  /\ At(Operator, "edit")
  /\ \E r \in frame[Operator].seen : triggers' = [triggers EXCEPT ![frame[Operator].at] = r]
  /\ frame' = [frame EXCEPT ![Operator] = Off]
  /\ UNCHANGED <<fires, runs, now, board, asks, wanted, torn>>

-----------------------------------------------------------------------------
(* The world *)

Minute ==
  /\ now < MaxNow /\ now' = now + 1
  /\ UNCHANGED <<triggers, fires, runs, board, frame, asks, wanted, torn>>

IssueMoves(k) ==
  /\ Ask /\ board # k /\ board' = k
  /\ UNCHANGED <<triggers, fires, runs, now, frame, wanted, torn>>

\* The process dies and comes back; a put that was queued is lost.
Restart ==
  /\ Ask
  /\ frame' = [x \in Callers \cup {Operator} |-> Off]
  /\ wanted' = [t \in Triggers |-> IF At(Operator, "edit") /\ frame[Operator].at = t
                                   THEN Settings(triggers[t]) ELSE wanted[t]]
  /\ torn' = torn \cup {<<"delivery", frame[x].at>> : x \in {y \in Callers : At(y, "dedupe")}}
  /\ UNCHANGED <<triggers, fires, runs, now, board>>

CallSteps(x) == PutRun(x) \/ PutRecords(x)
PollSteps(p) == PollStart(p) \/ PollAnswered(p)

Next ==
  \/ \E x \in Callers : CallSteps(x) \/ FireFails(x)
  \/ \E p \in Polls : PollSteps(p) \/ TrackerFails(p)
  \/ \E x \in Pushes, t \in Triggers, k \in Keys : Push(x, t, k) \/ FireNow(x, t, k)
  \/ \E t \in Triggers, how \in Edits, config \in Configs : BeginEdit(t, how, config)
  \/ PutEdit
  \/ Minute
  \/ \E k \in Keys \cup {NoKey} : IssueMoves(k)
  \/ Restart

Spec == Init /\ [][Next]_vars

\* The timer of the poll fires, and pending awaits resolve.
FairSpec ==
  /\ Spec
  /\ WF_vars((\E x \in Callers : CallSteps(x)) \/ (\E p \in Polls : PollSteps(p)))
  /\ WF_vars(PutEdit)

-----------------------------------------------------------------------------
(* Properties *)

\* One event creates one run, across duplicates and restarts, unless two
\* deliveries of it overlapped or one was cut between the put of the run and
\* that of the dedupe record.
OneRunPerEvent ==
  \A i, j \in DOMAIN runs :
    (i # j /\ runs[i] = runs[j]) => <<"delivery", runs[i].trigger>> \in torn

\* A trigger is as the operator last left it: no fire re-enables, reverts or
\* resurrects one, unless the edit and a fire of that trigger overlapped.
SettingsAreOperators ==
  \A t \in Triggers :
    (<<"edit", t>> \notin torn /\ ~(At(Operator, "edit") /\ frame[Operator].at = t))
      => Settings(triggers[t]) = wanted[t]

\* A trigger the operator disabled or deleted creates no run, however long the
\* poll that found it enabled waited for the tracker, unless its fire was
\* already under way.
QuietWhenDisabled ==
  [][\A i \in DOMAIN runs' \ DOMAIN runs :
       wanted[runs'[i].trigger][2] \/ <<"edit", runs'[i].trigger>> \in torn]_vars

\* Every record of a firing names a run that exists and was created for it,
\* and the run a trigger shows as its last one is among them, so that a crash
\* between the writes never leaves a last run that would be created again.
FiringsRecorded ==
  \A t \in Triggers :
    /\ \A k \in AllKeys : fires[t][k] # NoRun =>
         /\ fires[t][k] \in DOMAIN runs
         /\ runs[fires[t][k]] = [trigger |-> t, key |-> k]
    /\ triggers[t].last # NoRun => \E k \in AllKeys : fires[t][k] = triggers[t].last
                                     \/ <<"delivery", t>> \in torn

\* The announced next run is the first later time at which another slot is
\* due than now: the two computations agree.  A schedule without slots
\* announces none and never has one that is due.
NextRunIsNextSlot ==
  \A t \in Triggers :
    LET r == triggers[t]
        Slot(at) == DueSlot(r.config, r.anchor, at)
        next == NextRun(r.config, r.anchor, now)
    IN (r.stored /\ KindOf[t] = "schedule" /\ now >= r.anchor) =>
         IF HasSlots(r.config)
         THEN /\ next > now
              /\ Slot(next) \notin {NoKey, Slot(now)}
              /\ \A at \in now..(next - 1) : Slot(at) = Slot(now)
         ELSE next = NoKey /\ Slot(now) = NoKey

\* Runs, records of firings, triggers and slots tell one story, whatever was
\* delivered twice or cut short.
FiringsInv ==
  TypeOK /\ OneRunPerEvent /\ SettingsAreOperators /\ FiringsRecorded /\ NextRunIsNextSlot

\* An issue that stays ready gets its run, whatever the other triggers do,
\* while the operator wants the trigger and its template renders.
ReadyIssueRuns ==
  \A t \in Triggers :
    LET Wanted == wanted[t][2] /\ wanted[t][4] = "good" /\ board # NoKey
    IN KindOf[t] = "tracker" =>
         (Wanted ~> (~Wanted \/ fires[t][board] # NoRun
                       \/ <<"edit", t>> \in torn \/ Len(runs) = MaxRuns))
=============================================================================
