--------------------------- MODULE ProjectMemory ---------------------------
(***************************************************************************)
(* The knowledge kept of the projects (src/src/memory/memory-service.ts):  *)
(* entries that are created by hand or distilled from a run that           *)
(* succeeded, edited, archived and superseded.  A write is awaited: what   *)
(* was read before it may be old when it is done, and an entry that takes  *)
(* the place of another one is two writes.                                 *)
(*                                                                         *)
(* An entry has one kind, and what it says is the set of the terms of its  *)
(* title (normalizeTerms); tags, body, confidence and the pin are left     *)
(* out, and so are candidates that are not valid.                          *)
(***************************************************************************)
EXTENDS Naturals, Sequences, FiniteSets

CONSTANTS
  Titles,   \* the titles entries may have: sets of terms
  Projects,
  Writers,  \* callers in the host, each with one call under way
  Lead,     \* the one of them that distills a run
  Before,   \* the entries there are when the host starts
  None,
  MaxAsks   \* bound: entries and changes asked for

Statuses == {"active", "archived", "superseded"}

ASSUME MemoryConstants ==
  Lead \in Writers /\ {} \notin Titles /\ None \notin Statuses /\ MaxAsks \in Nat

VARIABLES
  memory,   \* the entries, in the order they were written
  frame,    \* the call of each writer: what is left to write, and what it has read
  retired,  \* history: entries that were marked obsolete by hand, here or in an earlier host
  cut,      \* history: entries whose creation did not come to its second write, here or earlier
  asks

memoryVars == <<memory, frame, retired, cut, asks>>

Ids == DOMAIN memory
Off == [todo |-> <<>>, id |-> 0, title |-> None, project |-> None, run |-> FALSE, seen |-> None, to |-> None]
Entry == [project : Projects, title : Titles, status : Statuses,
          supersedes : Nat, version : Nat \ {0}, run : BOOLEAN]

\* An entry takes the place of one that was there before it.
ASSUME MemoryBefore ==
  Before \in Seq(Entry) /\ \A i \in DOMAIN Before : Before[i].supersedes \in 0..(i - 1)

MemoryTypeOK ==
  /\ memory \in Seq(Entry)
  /\ \A i \in Ids : memory[i].supersedes \in 0..(i - 1)
  /\ \A w \in Writers : frame[w].todo \in Seq({"put", "mark", "update", "status"}) /\ frame[w].id \in Ids \cup {0}
  /\ retired \subseteq Ids /\ cut \subseteq Ids

MemoryInit ==
  /\ memory = Before
  /\ frame = [w \in Writers |-> Off]
  /\ retired = {i \in Ids : memory[i].status = "superseded" /\ \A j \in Ids : memory[j].supersedes # i}
  /\ cut = {i \in Ids : memory[i].supersedes # 0 /\ memory[memory[i].supersedes].status # "superseded"}
  /\ asks = 0

Ask == asks < MaxAsks /\ asks' = asks + 1
Idle(w) == frame[w] = Off
Call(w, f) == frame' = [frame EXCEPT ![w] = f]
Return(w) == Call(w, Off)
At(w, step) == frame[w].todo # <<>> /\ Head(frame[w].todo) = step

-----------------------------------------------------------------------------
(* Which entry a new one takes the place of *)

Smaller(a, b) == IF Cardinality(a) < Cardinality(b) THEN Cardinality(a) ELSE Cardinality(b)

\* termOverlap, as a fraction of the smaller set: whether it reaches 0.6, and which of two is larger.
Overlaps(a, b) == 5 * Cardinality(a \cap b) >= 3 * Smaller(a, b)
Closer(t, a, b) == Cardinality(t \cap a) * Smaller(t, b) > Cardinality(t \cap b) * Smaller(t, a)

Candidates(p, t) ==
  {i \in Ids : memory[i].project = p /\ memory[i].status = "active" /\ Overlaps(t, memory[i].title)}

\* findSupersessionTarget: of the closest ones the smallest id, which is random; 0 if there is none.
Targets(p, t) ==
  LET best == {i \in Candidates(p, t) : \A j \in Candidates(p, t) : ~Closer(t, memory[j].title, memory[i].title)}
  IN IF best = {} THEN {0} ELSE best

-----------------------------------------------------------------------------
(* create *)

\* Mutant of Steps: the old entry is marked before the new one is written.
StepsMarkFirst(target) == IF target = 0 THEN <<"put">> ELSE <<"mark", "put">>

Steps(target) == IF target = 0 THEN <<"put">> ELSE <<"put", "mark">>

\* create, up to the first write.
Create(w, p, t, fromRun) ==
  /\ Idle(w)
  /\ \E target \in Targets(p, t) :
       Call(w, [Off EXCEPT !.todo = Steps(target), !.id = target, !.title = t, !.project = p, !.run = fromRun,
                           !.seen = IF target = 0 THEN None ELSE memory[target]])
  /\ UNCHANGED <<memory, retired, cut>>

Done(w) == IF Len(frame[w].todo) = 1 THEN Off ELSE [frame[w] EXCEPT !.todo = Tail(@)]

Put(w) ==
  /\ At(w, "put")
  /\ memory' = Append(memory, [project |-> frame[w].project, title |-> frame[w].title, status |-> "active",
                               supersedes |-> frame[w].id, version |-> 1, run |-> frame[w].run])
  /\ Call(w, Done(w))
  /\ UNCHANGED <<retired, cut, asks>>

\* Mutant of Marked: an entry that was changed meanwhile is left as it is.
MarkedIfSame(e, seen) ==
  IF e.version = seen.version THEN [e EXCEPT !.status = "superseded", !.version = @ + 1] ELSE e

Marked(e, seen) == [e EXCEPT !.status = "superseded", !.version = @ + 1]

Mark(w) ==
  /\ At(w, "mark")
  /\ memory' = [memory EXCEPT ![frame[w].id] = Marked(@, frame[w].seen)]
  /\ Call(w, Done(w))
  /\ UNCHANGED <<retired, cut, asks>>

-----------------------------------------------------------------------------
(* update and setStatus *)

\* The checks made before the write is awaited.
MayUpdate(i) == memory[i].status # "superseded"
MaySet(i, to) ==
  /\ memory[i].status # "superseded" /\ memory[i].status # to
  /\ memory[i].status = "archived" => to = "active"

\* The caller has seen the entry as seen, and sends its version.
Update(w, i, seen, t) ==
  /\ Idle(w) /\ MayUpdate(i)
  /\ Call(w, [Off EXCEPT !.todo = <<"update">>, !.id = i, !.title = t, !.seen = seen])
  /\ UNCHANGED <<memory, retired, cut>>

SetStatus(w, i, seen, to) ==
  /\ Idle(w) /\ MaySet(i, to)
  /\ Call(w, [Off EXCEPT !.todo = <<"status">>, !.id = i, !.to = to, !.seen = seen])
  /\ UNCHANGED <<memory, retired, cut>>

\* Mutant of Same: the version is not compared.
SameUnchecked(w) == TRUE

\* The compare-and-set: the entry still has the version the caller sent.
Same(w) == memory[frame[w].id].version = frame[w].seen.version

\* Mutant of Changed: a change of status keeps the version.
ChangedStatusKeepsVersion(e, f) ==
  IF f.to = None THEN [e EXCEPT !.title = f.title, !.version = @ + 1] ELSE [e EXCEPT !.status = f.to]

Changed(e, f) ==
  IF f.to = None THEN [e EXCEPT !.title = f.title, !.version = @ + 1]
  ELSE [e EXCEPT !.status = f.to, !.version = @ + 1]

Change(w) ==
  /\ At(w, "update") \/ At(w, "status")
  /\ Same(w)
  /\ memory' = [memory EXCEPT ![frame[w].id] = Changed(@, frame[w])]
  /\ retired' = IF frame[w].to = "superseded" THEN retired \cup {frame[w].id} ELSE retired
  /\ Return(w) /\ UNCHANGED <<cut, asks>>

Stale(w) ==
  /\ At(w, "update") \/ At(w, "status")
  /\ ~Same(w) /\ Return(w)
  /\ UNCHANGED <<memory, retired, cut, asks>>

\* The calls of ws end at the write they wait for: what was put stays.
Ended(ws) ==
  /\ frame' = [w \in Writers |-> IF w \in ws THEN Off ELSE frame[w]]
  /\ cut' = cut \cup {i \in Ids : \E w \in ws : At(w, "mark") /\ memory[i].supersedes = frame[w].id}
  /\ UNCHANGED <<memory, retired, asks>>

-----------------------------------------------------------------------------
(* Properties *)

(* An entry that has taken the place of another one leaves it superseded, also when the other one was edited, *)
(* archived or superseded in the meantime, unless its creation was cut between its two writes (create).        *)
SupersessionComplete ==
  \A i \in Ids \ cut :
    memory[i].supersedes # 0 =>
      \/ memory[memory[i].supersedes].status = "superseded"
      \/ \E w \in Writers : At(w, "mark") /\ frame[w].id = memory[i].supersedes

(* No knowledge is lost: an entry is superseded only if its successor is in the table or its user said that it *)
(* is obsolete, wherever a creation stops (create writes the new entry first).                                 *)
SuccessorKept ==
  \A i \in Ids : memory[i].status = "superseded" =>
    i \in retired \/ \E j \in Ids : memory[j].supersedes = i

(* What a superseded entry says is history: no edit and no restoration that was under way when it was superseded *)
(* changes it (update, setStatus).                                                                               *)
SupersededStays ==
  \A i \in Ids : memory[i].status = "superseded" =>
       memory'[i].status = "superseded" /\ memory'[i].title = memory[i].title

(* A change is made to exactly the entry its user has seen, whatever was written since (expectedVersion). *)
ChangeOnSeen ==
  \A w \in Writers :
       (At(w, "update") \/ At(w, "status")) /\ memory' # memory /\ frame'[w] = Off
         => memory[frame[w].id] = frame[w].seen

(* No change is made to an entry that is not any more what its user saw. *)
ChangesAreInformed == [][SupersededStays /\ ChangeOnSeen]_memoryVars
=============================================================================
