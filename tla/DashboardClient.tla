--------------------------- MODULE DashboardClient ---------------------------
(***************************************************************************)
(* The Dashboard in the browsers (src/src/client/controller.ts and the     *)
(* task dialogs of Dashboard.tsx) over the board of the active project:    *)
(* each browser shows the snapshot of the last reply it received, asks for *)
(* a new one every five seconds while it is open, and sends the changes    *)
(* its user makes.  In the host an orchestrator polls the task source into *)
(* its board (orchestrator.ts), and an agent may change tasks as well.     *)
(*                                                                         *)
(* Calls of one browser are in flight together and their replies may come  *)
(* in any order.  As a bound, a browser has at most one read and one save  *)
(* in flight.  What else is loaded on demand is modelled in MemoryView; the *)
(* running agents of the board are modelled in IssueOrchestrator.  What    *)
(* is made of several projects, the Overview, is pure and stands beside    *)
(* the behaviours.                                                         *)
(***************************************************************************)
EXTENDS LocalTaskSource, Overview

CONSTANTS
  Clients,  \* browsers that show the Dashboard
  MaxFaults \* bound: failed writes and polls, lost calls and crashes

\* Who asks is told apart.
ASSUME ClientNames == Clients \cup {"agent"} \subseteq STRING /\ "agent" \notin Clients

VARIABLES
  board,    \* the issues of the last poll, with whether that poll failed
  poll,     \* the poll under way (refreshing), and the mutations it waits for
  calls,    \* the calls of each browser
  view,     \* the tasks each browser shows
  open,     \* the Dashboard is open
  interval, \* its handle: none, on, or of an interval that was cleared
  editor,   \* the task the editor was opened with
  asks, faults

clientVars == <<board, poll, calls, view, open, interval, editor, asks, faults>>
vars == <<sourceVars, clientVars>>

Slots == {"read", "save"}
Empty == [i \in {} |-> Nowhere]
NoBoard == [tasks |-> Empty, failed |-> FALSE]
Idle == [stage |-> "none", op |-> "none", got |-> [id |-> 0, stamp |-> 0], reply |-> NoBoard]
NoEditor == [id |-> 0, base |-> Nowhere]
IdlePoll == [pc |-> "idle", awaits |-> {}]

Stages == {"none", "asked", "queued", "written", "joined", "answered", "refused"}

TypeOK ==
  /\ SourceTypeOK
  /\ DOMAIN board.tasks \subseteq Ids /\ board.failed \in BOOLEAN
  /\ poll.pc \in {"idle", "wait", "reconcile"} /\ poll.awaits \subseteq Clients \cup {"agent"}
  /\ \A c \in Clients :
       /\ \A s \in Slots : calls[c][s].stage \in Stages
       /\ DOMAIN view[c] \subseteq Ids
       /\ editor[c].id \in Ids \cup {0}
  /\ open \subseteq Clients /\ interval \in [Clients -> {"none", "on", "cleared"}]

Init ==
  /\ SourceInit
  /\ board = NoBoard /\ poll = IdlePoll
  /\ calls = [c \in Clients |-> [s \in Slots |-> Idle]]
  /\ view = [c \in Clients |-> Empty]
  /\ open = {} /\ interval = [c \in Clients |-> "none"]
  /\ editor = [c \in Clients |-> NoEditor]
  /\ asks = 0 /\ faults = 0

Ask == asks < MaxAsks /\ asks' = asks + 1 /\ UNCHANGED faults
Fault == faults < MaxFaults /\ faults' = faults + 1 /\ UNCHANGED asks
Free == UNCHANGED <<asks, faults>>

Stage(c, s) == calls[c][s].stage
Sent(c, s, call) == calls' = [calls EXCEPT ![c][s] = call]
Moved(c, s, stage) == calls' = [calls EXCEPT ![c][s].stage = stage]

-----------------------------------------------------------------------------
(* The browser *)

\* start(): a refresh, and the interval if it is not set.
Open(c) ==
  /\ c \notin open /\ Stage(c, "read") = "none"
  /\ open' = open \cup {c}
  /\ interval' = [interval EXCEPT ![c] = IF @ = "none" THEN "on" ELSE @]
  /\ Sent(c, "read", [Idle EXCEPT !.stage = "asked", !.op = "refresh"])
  /\ Free /\ UNCHANGED <<sourceVars, board, poll, view, editor>>

\* Mutant of Stopped: the interval is cleared and its handle kept.
StoppedKeepsHandle(handle) == IF handle = "on" THEN "cleared" ELSE handle

Stopped(handle) == "none"

\* The function start() returned: the interval is cleared, the calls go on.
Close(c) ==
  /\ c \in open
  /\ open' = open \ {c}
  /\ interval' = [interval EXCEPT ![c] = Stopped(@)]
  /\ Free /\ UNCHANGED <<sourceVars, board, poll, calls, view, editor>>

\* readState, every five seconds.
Tick(c) ==
  /\ interval[c] = "on" /\ Stage(c, "read") = "none"
  /\ Sent(c, "read", [Idle EXCEPT !.stage = "asked", !.op = "state"])
  /\ Free /\ UNCHANGED <<sourceVars, board, poll, view, open, interval, editor>>

\* The user opens the editor on a task of the view.
OpenEditor(c) ==
  /\ c \in open /\ editor[c] = NoEditor
  /\ \E i \in DOMAIN view[c] :
       editor' = [editor EXCEPT ![c] = [id |-> i, base |-> view[c][i]]]
  /\ Free /\ UNCHANGED <<sourceVars, board, poll, calls, view, open, interval>>

\* onClose: Escape closes it while its save is in flight as well.
CloseEditor(c) ==
  /\ editor[c] # NoEditor
  /\ editor' = [editor EXCEPT ![c] = NoEditor]
  /\ Free /\ UNCHANGED <<sourceVars, board, poll, calls, view, open, interval>>

\* A save is called; its handler hands the request to the source.
Save(c, op, id, base) ==
  /\ Stage(c, "save") = "none" /\ c \notin Pending /\ Ask
  /\ Enqueue([from |-> c, op |-> op, id |-> id, base |-> base])
  /\ Sent(c, "save", [Idle EXCEPT !.stage = "queued", !.op = op])
  /\ UNCHANGED <<file, underway, made, board, poll, view, open, interval, editor>>

\* submit: an edit is sent with the stamp of the task the editor was opened with.
Submit(c) ==
  \/ editor[c] # NoEditor /\ Save(c, "update", editor[c].id, editor[c].base)
  \/ c \in open /\ Save(c, "create", 0, Nowhere)

\* confirm
ConfirmDelete(c) == c \in open /\ \E i \in DOMAIN view[c] : Save(c, "delete", i, Nowhere)

\* Calls end in failure for their browsers, which keep what they show.
Failed(lost) ==
  calls' = [c \in Clients |-> [s \in Slots |-> IF <<c, s>> \in lost THEN Idle ELSE calls[c][s]]]

\* A reply arrives: its snapshot is shown; after a save, whatever editor is open is closed.
Receive(c, s) ==
  /\ Stage(c, s) = "answered"
  /\ view' = [view EXCEPT ![c] = calls[c][s].reply.tasks]
  /\ editor' = [editor EXCEPT ![c] = IF s = "save" THEN NoEditor ELSE @]
  /\ Sent(c, s, Idle)
  /\ Free /\ UNCHANGED <<sourceVars, board, poll, open, interval>>

ReceiveFailure(c, s) ==
  /\ Stage(c, s) = "refused"
  /\ Failed({<<c, s>>})
  /\ Free /\ UNCHANGED <<sourceVars, board, poll, view, open, interval, editor>>

-----------------------------------------------------------------------------
(* The orchestrator's board *)

\* poll: it waits for the mutations there are.
BeginPoll == poll.pc = "idle" /\ poll' = [pc |-> "wait", awaits |-> Pending]

\* The timer of the orchestrator.
PollDue ==
  /\ BeginPoll
  /\ Free /\ UNCHANGED <<sourceVars, board, calls, view, open, interval, editor>>

PollReads ==
  /\ poll.pc = "wait" /\ poll.awaits = {}
  /\ \/ board' = [tasks |-> file.tasks, failed |-> FALSE] /\ Free
     \/ board' = [board EXCEPT !.failed = TRUE] /\ Fault
  /\ poll' = [poll EXCEPT !.pc = "reconcile"]
  /\ UNCHANGED <<sourceVars, calls, view, open, interval, editor>>

\* The snapshot of the host is sent.
Answered(c, s) == [calls[c][s] EXCEPT !.stage = "answered", !.reply = board]

\* The poll is over: the ones that awaited it are answered.
PollEnds ==
  /\ poll.pc = "reconcile" /\ poll' = IdlePoll
  /\ calls' = [c \in Clients |-> [s \in Slots |->
       IF Stage(c, s) = "joined" THEN Answered(c, s) ELSE calls[c][s]]]
  /\ Free /\ UNCHANGED <<sourceVars, board, view, open, interval, editor>>

\* refresh: a poll that is under way is awaited, otherwise one begins.
Refreshes(c, s) ==
  /\ IF poll.pc = "idle" THEN BeginPoll ELSE UNCHANGED poll
  /\ Moved(c, s, "joined")

\* Mutant of RefreshesAfter: the poll under way will do.
RefreshesAfterJoined(c) == Refreshes(c, "save")

\* refreshAfterMutation: a poll that may have read before the write is waited out first.
RefreshesAfter(c) == poll.pc = "idle" /\ Refreshes(c, "save")

-----------------------------------------------------------------------------
(* The calls in the host *)

\* refresh
ServeRefresh(c) ==
  /\ Stage(c, "read") = "asked" /\ calls[c].read.op = "refresh" /\ Refreshes(c, "read")
  /\ Free /\ UNCHANGED <<sourceVars, board, view, open, interval, editor>>

\* The agent that works on a task changes it, without a stamp.
AgentUpdates ==
  /\ Ask /\ "agent" \notin Pending
  /\ \E i \in DOMAIN board.tasks :
       Enqueue([from |-> "agent", op |-> "update", id |-> i, base |-> Nowhere])
  /\ UNCHANGED <<file, underway, made, board, poll, calls, view, open, interval, editor>>

SourceBegins == Begin /\ Free /\ UNCHANGED <<board, poll, calls, view, open, interval, editor>>

\* The mutation u of its caller is over: a poll that waited for it does so no longer.
Told(u, stage, got) ==
  /\ poll' = [poll EXCEPT !.awaits = @ \ {u.req.from}]
  /\ IF u.req.from \in Clients /\ Stage(u.req.from, "save") = "queued"
     THEN calls' = [calls EXCEPT ![u.req.from].save.stage = stage, ![u.req.from].save.got = got]
     ELSE UNCHANGED calls

SourceWrites ==
  /\ \E u \in underway, now \in Clock :
       /\ Commit(u, now)
       /\ Told(u, "written", [id |-> Target(u.req),
                              stamp |-> IF u.req.op = "delete" THEN 0 ELSE Written(u.store, u.req, now).stamp])
  /\ Free /\ UNCHANGED <<board, view, open, interval, editor>>

SourceRejects ==
  /\ \E u \in underway :
       /\ Reject(u) /\ Told(u, "refused", Idle.got)
       /\ IF Refused(u.store, u.req) THEN Free ELSE Fault
  /\ UNCHANGED <<board, view, open, interval, editor>>

SaveRefreshes(c) ==
  /\ Stage(c, "save") = "written" /\ RefreshesAfter(c)
  /\ Free /\ UNCHANGED <<sourceVars, board, view, open, interval, editor>>

\* state
ServeState(c) ==
  /\ Stage(c, "read") = "asked" /\ calls[c].read.op = "state"
  /\ Sent(c, "read", Answered(c, "read"))
  /\ Free /\ UNCHANGED <<sourceVars, board, poll, view, open, interval, editor>>

-----------------------------------------------------------------------------
(* Faults *)

\* The connection is lost: the host may not notice, or drop a request that waits.
CallLost(c, s) ==
  /\ Stage(c, s) \notin {"none", "refused"} /\ Fault
  /\ Failed({<<c, s>>})
  /\ \/ UNCHANGED <<queue, poll>>
     \/ /\ s = "save"
        /\ \E k \in DOMAIN queue :
             queue[k].from = c /\ queue' = SubSeq(queue, 1, k - 1) \o SubSeq(queue, k + 1, Len(queue))
        /\ poll' = [poll EXCEPT !.awaits = @ \ {c}]
  /\ UNCHANGED <<file, underway, made, board, view, open, interval, editor>>

\* The host ends and begins again.
Crash ==
  /\ Fault /\ SourceDown
  /\ board' = NoBoard /\ poll' = IdlePoll
  /\ Failed({k \in Clients \X Slots : Stage(k[1], k[2]) \notin {"none", "answered", "refused"}})
  /\ UNCHANGED <<view, open, interval, editor>>

Next ==
  \/ \E c \in Clients :
       \/ Open(c) \/ Close(c) \/ Tick(c) \/ OpenEditor(c) \/ CloseEditor(c) \/ Submit(c) \/ ConfirmDelete(c)
       \/ ServeRefresh(c) \/ ServeState(c) \/ SaveRefreshes(c)
       \/ \E s \in Slots : Receive(c, s) \/ ReceiveFailure(c, s) \/ CallLost(c, s)
  \/ PollDue \/ PollReads \/ PollEnds \/ AgentUpdates \/ SourceBegins \/ SourceWrites \/ SourceRejects
  \/ Crash

Spec == Init /\ [][Next]_vars

\* Timers fire, the queue of the source and a poll go on, the host answers and replies arrive; users owe nothing.
Fairness ==
  /\ WF_vars(PollDue) /\ WF_vars(PollReads) /\ WF_vars(PollEnds)
  /\ WF_vars(SourceBegins) /\ WF_vars(SourceWrites \/ SourceRejects)
  /\ \A c \in Clients :
       /\ WF_vars(Tick(c)) /\ WF_vars(ServeRefresh(c)) /\ WF_vars(ServeState(c)) /\ SF_vars(SaveRefreshes(c))
       /\ \A s \in Slots : WF_vars(Receive(c, s)) /\ WF_vars(ReceiveFailure(c, s))

FairSpec == Spec /\ Fairness

-----------------------------------------------------------------------------
(* Properties *)

(* The reply to a save shows what was written, or what came after it, unless the board could not be read: *)
(* no poll from before the write answers it (refreshAfterMutation in orchestrator.ts).                    *)
SavedIsShown ==
  \A c \in Clients :
    LET k == calls[c].save IN
    k.stage = "answered" /\ ~k.reply.failed =>
      IF k.op = "delete" THEN k.got.id \notin DOMAIN k.reply.tasks
      ELSE IF k.got.id \in DOMAIN k.reply.tasks
           THEN k.reply.tasks[k.got.id].stamp >= k.got.stamp
           ELSE ~Has(file, k.got.id)

(* The file and the replies agree: one task per number, and a save is shown when it returns. *)
ClientInv == TypeOK /\ NumbersUnique /\ SavedIsShown

(* What the browser shows: its own state, and the board of all projects that it is given. *)
BoardInv == ClientInv /\ OverviewInv

(* A Dashboard that stays open comes to show the file again and again, whatever old replies arrive late, *)
(* calls are lost or the host restarts: once tasks are no longer changed, it shows them as they are      *)
(* (the interval of start() and the polls of the orchestrator).                                          *)
ViewCatchesUp ==
  \A c \in Clients : []<>(c \notin open \/ view[c] = file.tasks)
=============================================================================
