---------------------------- MODULE IssueTimeline ----------------------------
(***************************************************************************)
(* The history of one issue (src/src/runtime/timeline.ts, filled by        *)
(* src/src/orchestrator/orchestrator.ts): a ring of the latest events that *)
(* a session reports again and again, from which, with what is known of    *)
(* the issue itself, a reader takes pages, newest first, one call after    *)
(* the other, while events are added and dropped.                          *)
(*                                                                         *)
(* An identifier is a number: those of synthetic entries are larger than   *)
(* those of events, which come in any order, as times may.  Titles,        *)
(* details and categories are left out.                                    *)
(***************************************************************************)
EXTENDS Naturals, Sequences, FiniteSets

CONSTANTS
  Capacity,  \* of the ring
  EventIds,  \* the identifiers events may have
  LastTime,  \* bound: times are 1..LastTime
  PageLimits \* the page sizes a reader may ask for

ASSUME TimelineConstants ==
  /\ Capacity \in Nat \ {0} /\ LastTime \in 1..9 /\ EventIds \subseteq 1..9 /\ PageLimits \subseteq Nat \ {0}

VARIABLES
  ring,     \* events, head, size and ids of the archive, and whether it is truncated
  captured,     \* history: the events, in the order they were captured
  view,     \* runtimeArchive: the phase shown and since when
  updated,  \* updatedAt of the issue
  now,
  reader    \* the pages taken so far

timelineVars == <<ring, captured, view, updated, now, reader>>

Times == 1..LastTime
NoEvent == [id |-> 0, type |-> "none", at |-> 0]
NotReading == [open |-> FALSE, seen |-> <<>>, always |-> {}, more |-> FALSE]

TimelineInit ==
  /\ ring = [events |-> [k \in 0..(Capacity - 1) |-> NoEvent], head |-> 0, size |-> 0, ids |-> {}, truncated |-> FALSE]
  /\ captured = <<>> /\ view = [phase |-> "none", at |-> 0]
  /\ updated = 1 /\ now = 1 /\ reader = NotReading

-----------------------------------------------------------------------------
(* RuntimeTimelineArchive *)

\* Mutant of Appended: the oldest event is replaced, but the ring still begins there.
AppendedAtHead(r, e) ==
  IF e.id \in r.ids THEN r
  ELSE IF r.size < Capacity
    THEN [r EXCEPT !.events[(r.head + r.size) % Capacity] = e, !.size = @ + 1, !.ids = @ \cup {e.id}]
    ELSE [r EXCEPT !.events[r.head] = e, !.truncated = TRUE, !.ids = (@ \ {r.events[r.head].id}) \cup {e.id}]

\* append: an event that is there is not added; the oldest one makes room.
Appended(r, e) ==
  IF e.id \in r.ids THEN r
  ELSE IF r.size < Capacity
    THEN [r EXCEPT !.events[(r.head + r.size) % Capacity] = e, !.size = @ + 1, !.ids = @ \cup {e.id}]
    ELSE [r EXCEPT !.events[r.head] = e, !.head = (@ + 1) % Capacity, !.truncated = TRUE,
                   !.ids = (@ \ {r.events[r.head].id}) \cup {e.id}]

Snapshot == [k \in 1..ring.size |-> ring.events[(ring.head + k - 1) % Capacity]]

-----------------------------------------------------------------------------
(* buildTaskTimelinePage *)

\* compareTimelinePosition: newest first, then by identifier.
After(e, c) == e.at < c.at \/ (e.at = c.at /\ e.id > c.id)

Synthetic(type, base, at) == [id |-> base + at, type |-> type, at |-> at]

\* buildEvents: the events, the phase unless an event tells of it, and the last change of the issue.
HistoryEntries ==
  LET events == {Snapshot[k] : k \in DOMAIN Snapshot} IN
    events \cup {Synthetic("task.updated", 30, updated)}
      \cup IF view.phase = "none" \/ \E e \in events : e.type = view.phase THEN {}
           ELSE {Synthetic(view.phase, IF view.phase = "running" THEN 10 ELSE 20, view.at)}

Ordered ==
  LET entries == HistoryEntries
  IN [k \in 1..Cardinality(entries) |->
        CHOOSE e \in entries : Cardinality({d \in entries : After(e, d)}) = k - 1]

\* Mutant of Beyond: the cursor is the time of the last entry.
BeyondByTime(e, last) == e.at < last.at

\* The cursor is the position of the last entry.
Beyond(e, last) == After(e, last)

Cursor == reader.seen[Len(reader.seen)]

\* The entries before the first one that is beyond the cursor are passed over.
Offset(ordered) ==
  IF reader.seen = <<>> THEN 0
  ELSE CHOOSE n \in 0..Len(ordered) :
         /\ \A k \in 1..n : ~Beyond(ordered[k], Cursor)
         /\ n < Len(ordered) => Beyond(ordered[n + 1], Cursor)

\* issueTimeline, with the cursor of the page before: the first ones of what comes after it.
ReadPage(limit) ==
  LET ordered == Ordered
      offset  == Offset(ordered)
      nextOffset == IF offset + limit < Len(ordered) THEN offset + limit ELSE Len(ordered)
  IN /\ ~reader.open \/ reader.more
     /\ reader' = [open |-> TRUE, seen |-> reader.seen \o SubSeq(ordered, offset + 1, nextOffset),
                   always |-> IF reader.open THEN reader.always ELSE HistoryEntries,
                   more |-> nextOffset < Len(ordered)]
     /\ UNCHANGED <<ring, captured, view, updated, now>>

CloseTimeline ==
  /\ reader.open /\ reader' = NotReading
  /\ UNCHANGED <<ring, captured, view, updated, now>>

-----------------------------------------------------------------------------
(* What is written meanwhile *)

\* What a reader could have seen all the time is what is still there.
Keeps == reader' = [reader EXCEPT !.always = @ \cap HistoryEntries']

\* captureTimelineEvent, of an event that is new.
Capture(e) ==
  /\ ring' = Appended(ring, e)
  /\ captured' = Append(captured, e)

Fresh(type, at) == {e \in [id : EventIds, type : {type}, at : {at}] : \A k \in DOMAIN captured : captured[k].id # e.id}

\* An attempt begins, or waits for its next one: the event and the view have one time.
SchedulerMoves ==
  \E phase \in {"running", "retrying"} \ {view.phase} : \E e \in Fresh(phase, now) :
    /\ Capture(e) /\ view' = [phase |-> phase, at |-> now]
    /\ UNCHANGED <<updated, now>> /\ Keeps

\* A session reports an event, at the time it has.
SessionReports ==
  \E at \in 1..now : \E e \in Fresh("session", at) :
    /\ view.phase = "running"
    /\ Capture(e) /\ UNCHANGED <<view, updated, now>> /\ Keeps

\* onRuntime: its latest event once more; fewer than Capacity were captured since.
SessionRepeats ==
  /\ \E k \in DOMAIN captured : captured[k].type = "session" /\ captured[k].id \in ring.ids /\ ring' = Appended(ring, captured[k])
  /\ UNCHANGED <<captured, view, updated, now>> /\ Keeps

\* runtimeArchive.delete
ViewDropped ==
  /\ view.phase # "none" /\ view' = [phase |-> "none", at |-> 0]
  /\ UNCHANGED <<ring, captured, updated, now>> /\ Keeps

IssueChanges ==
  /\ updated < now /\ updated' = now
  /\ UNCHANGED <<ring, captured, view, now>> /\ Keeps

Ticks ==
  /\ now < LastTime /\ now' = now + 1
  /\ UNCHANGED <<ring, captured, view, updated, reader>>

TimelineNext ==
  \/ \E limit \in PageLimits : ReadPage(limit)
  \/ CloseTimeline
  \/ SchedulerMoves \/ SessionReports \/ SessionRepeats \/ ViewDropped \/ IssueChanges \/ Ticks

-----------------------------------------------------------------------------
(* Properties *)

TimelineTypeOK ==
  /\ ring.head \in 0..(Capacity - 1) /\ ring.size \in 0..Capacity
  /\ view.phase \in {"none", "running", "retrying"} /\ now \in Times

(* The ring holds the latest events in the order they came, each once, and says so when there were more *)
(* (RuntimeTimelineArchive).                                                                            *)
LatestEventsKept ==
  /\ Snapshot = SubSeq(captured, Len(captured) - ring.size + 1, Len(captured))
  /\ ring.size = (IF Len(captured) < Capacity THEN Len(captured) ELSE Capacity)
  /\ ring.ids = {Snapshot[k].id : k \in DOMAIN Snapshot}
  /\ ring.truncated <=> Len(captured) > Capacity

(* Pages are one history: no entry is read twice, in whatever way the history changes between two pages, and *)
(* after the last page every entry was read that was there all the time (the cursors of                       *)
(* buildTaskTimelinePage).                                                                                    *)
PagesAreOneHistory ==
  reader.open =>
    /\ \A j, k \in DOMAIN reader.seen : j < k => After(reader.seen[k], reader.seen[j])
    /\ ~reader.more => \A e \in reader.always : \E k \in DOMAIN reader.seen : reader.seen[k] = e

TimelineInv == TimelineTypeOK /\ LatestEventsKept /\ PagesAreOneHistory
=============================================================================
