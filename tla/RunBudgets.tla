------------------------------ MODULE RunBudgets ------------------------------
(***************************************************************************)
(* The budget of one Project Run (src/src/approvals/budgetCheck.ts and the *)
(* checks of src/src/tasks/task-service.ts), the raising of it and the     *)
(* numbered events of the run (src/src/runs/run-service.ts).               *)
(*                                                                         *)
(* Results of the run's tasks add to its usage and are then checked, key   *)
(* after key; the tick checks the time.  A check works on the record it    *)
(* read before it began, marks the record, appends an event and pauses the *)
(* run: awaits apart, in which other results settle and the operator       *)
(* raises the budget or moves the run.                                     *)
(*                                                                         *)
(* The keys of a budget that bound tokens are alike: two stand for three.  *)
(* The run starts executing at minute 0.  What a settlement or a tick does *)
(* besides its checks is modelled in TaskService.                          *)
(***************************************************************************)
EXTENDS RunLifecycle, Naturals, Sequences, FiniteSets

CONSTANTS
  Settlements,   \* results that may settle at once
  UsedBefore,    \* tokens the run has used when we look at it
  Amounts,       \* tokens a result reports
  Budgets,       \* budgets an operator may choose
  Asks,          \* phases an operator asks for
  MaxResults,    \* bound on results
  MaxMinutes,    \* bound on the clock
  MaxTicks,      \* bound on checks of the time that find something
  MaxRequests    \* bound on requests of the operator

TokenKeys == {"maxTotalTokens", "maxOutputTokens"}
TimeKey == "maxRuntimeMinutes"
Keys == TokenKeys \cup {TimeKey}
Unset == 0

ASSUME BudgetAssumptions ==
  /\ Settlements \cap {"tick", "operator"} = {} /\ Amounts \cup {UsedBefore} \subseteq Nat
  /\ Budgets \subseteq [Keys -> Nat] /\ Asks \subseteq Phases
  /\ {MaxResults, MaxMinutes, MaxTicks, MaxRequests} \subseteq Nat

VARIABLES
  rec,      \* the run record: phase, suspendedFrom, tokenUsage, budget, budgetWarnings
  events,   \* the numbers of the run's events, in the order they were put
  frame,    \* the awaits of the settlements, of the tick and of the operator
  now,      \* minutes since the run started
  bounds,   \* counts of results, ticks and requests
  spent,    \* history: the tokens of the results that were added
  over,     \* history: the last result went over, and nobody answered since
  warned    \* history: keys warned of since their limit was last changed,
            \* those warned of twice, and those whose checks overlapped

budgetVars == <<rec, events, frame, now, bounds, spent, over, warned>>

Callers == Settlements \cup {"tick", "operator"}

\* Where a caller stands.  Queued are: in "add" the usage, in "mark" the key
\* of a finding, in "event" and "log" an event, in "move" a transition, in
\* "raise" a budget.  In "read" the usage has been added.
CallPcs == {"off", "add", "read", "mark", "event", "move", "log", "raise"}
Off == [pc |-> "off", tokens |-> 0, todo |-> <<>>, to |-> NoPhase,
        put |-> [seq |-> 0, behind |-> 0], budget |-> <<>>]

BudgetInit ==
  /\ \E b \in Budgets :
       rec = [phase |-> "executing", origin |-> NoPhase, usage |-> UsedBefore, budget |-> b,
              warnings |-> {}]
  /\ events = <<>> /\ frame = [x \in Callers |-> Off] /\ now = 0
  /\ bounds = [results |-> 0, ticks |-> 0, requests |-> 0]
  /\ spent = UsedBefore /\ over = FALSE /\ warned = [once |-> {}, twice |-> {}, overlapped |-> {}]

Becomes(x, f) == frame' = [frame EXCEPT ![x] = f]
Count(what, max) == bounds[what] < max /\ bounds' = [bounds EXCEPT ![what] = @ + 1]

-----------------------------------------------------------------------------
(* The verdicts *)

\* Mutant of Exceeded: the limit itself is within the budget.
ExceededBeyond(limit, used) == limit # Unset /\ used > limit

\* checkBudget: the ratio is 1 or more, and 0.8 or more.
Exceeded(limit, used) == limit # Unset /\ used >= limit
Near(limit, used) == limit # Unset /\ 5 * used >= 4 * limit

Entries(s) == {s[k] : k \in DOMAIN s}

\* What a check finds of a key in the record that was read before it: nothing
\* or one finding.  An exceeded key is found again however often it was; a near
\* one only while it is not in budgetWarnings.
Finding(k, used) ==
  LET exceeded == Exceeded(rec.budget[k], used)
      near == Near(rec.budget[k], used) /\ k \notin rec.warnings
  IN IF exceeded \/ near THEN <<[key |-> k, exceeded |-> exceeded]>> ELSE <<>>

\* checkTokenBudgets goes through the keys in the order of its table.
TokenFindings == Finding("maxTotalTokens", rec.usage) \o Finding("maxOutputTokens", rec.usage)

\* A caller goes on with the findings that are left, or is done.
Checking(found) == IF found = <<>> THEN Off ELSE [Off EXCEPT !.pc = "mark", !.todo = found]

KeysOf(x) == {f.key : f \in Entries(frame[x].todo)}

\* History: a check that starts while another is at the same key, or a raise
\* while a check is at a key.
Overlap(x, keys) ==
  warned' = [warned EXCEPT
    !.overlapped = @ \cup (keys \cap UNION {KeysOf(y) : y \in Callers \ {x}})]

\* Mutant of NextSeq: the number of the newest event.
NextSeqShared == IF events = <<>> THEN 1 ELSE events[Len(events)].seq

\* appendRunEvent and appendEvent: the largest number so far plus one, read
\* before the put is queued.  `behind`: history, how many events it read.
NextSeq == 1 + (IF events = <<>> THEN 0
                ELSE CHOOSE n \in {e.seq : e \in Entries(events)} :
                       \A e \in Entries(events) : e.seq <= n)

Numbered == [seq |-> NextSeq, behind |-> Len(events)]

-----------------------------------------------------------------------------
(* Results and ticks *)

\* settleResult with the usage of a result.
Settle(x) ==
  /\ frame[x].pc = "off" /\ Count("results", MaxResults)
  /\ \E n \in Amounts : Becomes(x, [Off EXCEPT !.pc = "add", !.tokens = n])
  /\ UNCHANGED <<rec, events, now, spent, over, warned>>

\* accumulateRunTokenUsage: the update adds to what the record holds then.
AddUsage(x) ==
  LET used == rec.usage + frame[x].tokens
  IN /\ frame[x].pc = "add"
     /\ rec' = [rec EXCEPT !.usage = used]
     /\ spent' = spent + frame[x].tokens
     /\ over' = \E k \in TokenKeys : rec.budget[k] \in 1..(spent + frame[x].tokens)
     /\ Becomes(x, [frame[x] EXCEPT !.pc = "read", !.tokens = 0])
     /\ UNCHANGED <<events, now, bounds, warned>>

\* The fresh record, and the check of it.
CheckTokens(x) ==
  LET found == TokenFindings
  IN /\ frame[x].pc = "read"
     /\ Becomes(x, Checking(found))
     /\ Overlap(x, {f.key : f \in Entries(found)})
     /\ UNCHANGED <<rec, events, now, bounds, spent, over>>

\* tickOnce of a run that has not ended, paused or not: the time since it
\* started.  Only ticks that find something are steps.
CheckTime ==
  LET found == Finding(TimeKey, now)
  IN /\ frame["tick"].pc = "off" /\ rec.phase \notin TerminalPhases /\ found # <<>>
     /\ Count("ticks", MaxTicks)
     /\ Becomes("tick", Checking(found))
     /\ Overlap("tick", {TimeKey})
     /\ UNCHANGED <<rec, events, now, spent, over>>

\* recordBudgetWarning and applyBudgetExceeded: the key joins budgetWarnings,
\* there already or not; then the number of the event is read.
Mark(x) ==
  LET f == Head(frame[x].todo)
  IN /\ frame[x].pc = "mark"
     /\ rec' = [rec EXCEPT !.warnings = @ \cup {f.key}]
     /\ warned' = [warned EXCEPT
          !.once = IF f.exceeded THEN @ ELSE @ \cup {f.key},
          !.twice = IF ~f.exceeded /\ f.key \in warned.once THEN @ \cup {f.key} ELSE @]
     /\ Becomes(x, [frame[x] EXCEPT !.pc = "event", !.put = Numbered])
     /\ UNCHANGED <<events, now, bounds, spent, over>>

\* The event is put.  An exceeded key pauses the run, a warning is all.
PutFinding(x) ==
  /\ frame[x].pc = "event"
  /\ events' = Append(events, frame[x].put)
  /\ Becomes(x, IF Head(frame[x].todo).exceeded
                THEN [Off EXCEPT !.pc = "move", !.todo = frame[x].todo, !.to = "paused"]
                ELSE Checking(Tail(frame[x].todo)))
  /\ UNCHANGED <<rec, now, bounds, spent, over, warned>>

\* What a caller does after its transition: the operator is answered, a check
\* goes on with its next finding.
AfterMove(x) == IF x = "operator" THEN Off ELSE Checking(Tail(frame[x].todo))

\* Mutant of Moved: the usage is not among the fields that are carried over.
MovedForgetful(r, to) ==
  [r EXCEPT !.phase = to, !.origin = OriginAfter(r.phase, to), !.usage = 0]

\* transitionRun of src/src/runs/state-machine.ts: the next record.
Moved(r, to) == [r EXCEPT !.phase = to, !.origin = OriginAfter(r.phase, to)]

\* RunService.transitionRun by the operator or by an exceeded key: the
\* record moves and the number of the phase event is read.
Move(x) ==
  LET to == frame[x].to
  IN /\ frame[x].pc = "move" /\ CanMove(rec.phase, rec.origin, to)
     /\ rec' = Moved(rec, to)
     /\ over' = (over /\ x # "operator")
     /\ Becomes(x, [Off EXCEPT !.pc = "log", !.todo = frame[x].todo, !.put = Numbered])
     /\ UNCHANGED <<events, now, bounds, spent, warned>>

\* A transition the phase does not allow: an error for the operator, a
\* warning in the log for a check.
MoveRefused(x) ==
  /\ frame[x].pc = "move" /\ ~CanMove(rec.phase, rec.origin, frame[x].to)
  /\ Becomes(x, AfterMove(x))
  /\ UNCHANGED <<rec, events, now, bounds, spent, over, warned>>

PutMoved(x) ==
  /\ frame[x].pc = "log"
  /\ events' = Append(events, frame[x].put)
  /\ Becomes(x, AfterMove(x))
  /\ UNCHANGED <<rec, now, bounds, spent, over, warned>>

CheckStep(x) ==
  \/ AddUsage(x) \/ CheckTokens(x) \/ Mark(x) \/ PutFinding(x)
  \/ Move(x) \/ MoveRefused(x) \/ PutMoved(x)

-----------------------------------------------------------------------------
(* The operator *)

RequestMove ==
  /\ frame["operator"].pc = "off" /\ Count("requests", MaxRequests)
  /\ \E to \in Asks : Becomes("operator", [Off EXCEPT !.pc = "move", !.to = to])
  /\ UNCHANGED <<rec, events, now, spent, over, warned>>

\* setRunBudget: the phase is checked when the request comes in, not when the
\* update is applied.
RequestBudget ==
  /\ frame["operator"].pc = "off" /\ rec.phase \in SuspendedPhases
  /\ Count("requests", MaxRequests)
  /\ \E b \in Budgets : Becomes("operator", [Off EXCEPT !.pc = "raise", !.budget = b])
  /\ UNCHANGED <<rec, events, now, spent, over, warned>>

\* Mutant of Kept: a new budget forgets every warning.
KeptNone(key, old, new) == FALSE

\* A warning outlives the new budget if the limit it is about does.
Kept(key, old, new) == old[key] # Unset /\ new[key] = old[key]

\* The queued update of setRunBudget.
SetBudget ==
  LET new == frame["operator"].budget
      stays(key) == Kept(key, rec.budget, new)
      changed == {k \in Keys : rec.budget[k] # new[k]}
      inCheck == UNION {KeysOf(y) : y \in Callers}
  IN /\ frame["operator"].pc = "raise"
     /\ rec' = [rec EXCEPT !.budget = new, !.warnings = {k \in @ : stays(k)}]
     /\ warned' = [warned EXCEPT !.once = @ \ changed, !.twice = @ \ changed,
                     !.overlapped = @ \cup (changed \cap inCheck)]
     /\ over' = FALSE
     /\ Becomes("operator", Off)
     /\ UNCHANGED <<events, now, bounds, spent>>

Minute ==
  /\ now < MaxMinutes /\ now' = now + 1
  /\ UNCHANGED <<rec, events, frame, bounds, spent, over, warned>>

BudgetNext ==
  \/ \E x \in Settlements : Settle(x)
  \/ \E x \in Callers : CheckStep(x)
  \/ CheckTime \/ RequestMove \/ RequestBudget \/ SetBudget \/ Minute

BudgetSpec == BudgetInit /\ [][BudgetNext]_budgetVars

-----------------------------------------------------------------------------
(* Properties *)

BudgetTypeOK ==
  /\ rec.phase \in Phases /\ rec.origin \in Phases \cup {NoPhase}
  /\ rec.usage \in Nat /\ rec.budget \in Budgets /\ rec.warnings \subseteq Keys
  /\ \A x \in Callers : frame[x].pc \in CallPcs
  /\ warned \in [once : SUBSET Keys, twice : SUBSET Keys, overlapped : SUBSET Keys]

\* No result is lost of the usage however the updates of results, checks,
\* transitions and raises follow each other.
UsageCounted == rec.usage = spent

\* When the checks of a result that went over a limit have run and nobody
\* moved the run or raised the budget since, the run is where it cannot be
\* paused any more: it rests or is on its way out.
OverBudgetRests ==
  over /\ (\A x \in Callers \ {"operator"} : frame[x].pc = "off")
    => ~CanMove(rec.phase, rec.origin, "paused")

\* A key is warned of once until its limit is changed, unless two checks of it
\* overlapped or the budget was raised under one.
WarnedOnce == warned.twice \subseteq warned.overlapped

\* An event that was numbered after another had been put comes after it.
EventsInOrder ==
  \A j \in DOMAIN events : \A i \in 1..events[j].behind : events[i].seq < events[j].seq

\* The budget of a run.
BudgetsInv == BudgetTypeOK /\ UsageCounted /\ OverBudgetRests /\ WarnedOnce /\ EventsInOrder
=============================================================================
